-------------------------- MODULE HookMarginProofs --------------------------
(***************************************************************************)
(* The margin rule is right: a spawn it permits leaves every bridge hook   *)
(* time to answer, whatever the timeouts, the self-deny delay and the unit.*)
(***************************************************************************)
EXTENDS HookMargin, TLAPS

\* A session exists only in a project whose checked hooks passed the rule.
CheckedHooksPass == session # "none" => EvaluateHookMargin(checked)

\* A tool call is gated by a bridge hook of the session.
GatedByBridge == call # "idle" => hook \in loaded /\ hook.bridge

\* The clock of a tool call: its bridge starts in time, and denies in time.
ClockSound ==
  /\ call = "booting" => now <= MaxBootMs
  /\ call = "waiting" => booted <= MaxBootMs /\ now <= Deadline

\* A call exists only in a running session.
CallNeedsSession == call # "idle" => session = "running"

IInv ==
  TypeOK /\ CheckedHooksPass /\ GatedByBridge /\ CallNeedsSession /\ ClockSound /\ GuardedIfChecked

\* The initial state satisfies the invariant.
LEMMA InitIInv == Init => IInv
  BY MarginAssumption DEF Init, IInv, TypeOK, CheckedHooksPass, GatedByBridge, ClockSound,
     CallNeedsSession, GuardedIfChecked

\* Multiplying by the unit keeps the order of timeouts.
LEMMA TimesMonotone ==
  ASSUME NEW a \in Int, NEW b \in Int, a <= b, NEW n \in Nat
  PROVE  a * n <= b * n
  BY SMT

\* The rule: every usable bridge hook of a project that passes it outlasts the slowest
\* start and the whole wait of its bridge.
LEMMA MarginSuffices ==
  ASSUME NEW hooks \in SUBSET Hook, EvaluateHookMargin(hooks),
         NEW h \in hooks, h.bridge, h.timeout \in Seconds
  PROVE  h.timeout * Unit > MaxBootMs + SelfDenyMs
  <1>1. h.timeout \in timeouts(hooks)
    BY DEF timeouts
  <1>2. PICK t \in timeouts(hooks) :
          Governs(t, timeouts(hooks)) /\ t * Unit - SelfDenyMs >= MIN_MARGIN_MS
    BY DEF EvaluateHookMargin
  <1>3. t \in Int /\ h.timeout \in Int
    BY MarginAssumption DEF timeouts
  <1>4. t * Unit <= h.timeout * Unit
    BY <1>1, <1>2, <1>3, TimesMonotone, MarginAssumption DEF Governs
  <1>5. t * Unit \in Int /\ h.timeout * Unit \in Int
    BY <1>3, MarginAssumption
  <1> QED
    BY <1>2, <1>4, <1>5, MarginAssumption

\* Every step keeps the types.
LEMMA NextType == TypeOK /\ [Next]_vars => TypeOK'
  <1> SUFFICES ASSUME TypeOK, [Next]_vars PROVE TypeOK'
    OBVIOUS
  <1> USE MarginAssumption DEF TypeOK
  <1>1. ASSUME NEW s \in Settings, Edit(s) PROVE TypeOK'
    BY <1>1 DEF Edit
  <1>2. CASE TryStart
    BY <1>2 DEF TryStart, Settings
  <1>3. CASE Load
    BY <1>3 DEF Load, Settings
  <1>4. ASSUME NEW h \in Hook, Gate(h) PROVE TypeOK'
    BY <1>4 DEF Gate
  <1>5. CASE ArmSelfDeny \/ Answer \/ SelfDeny \/ Kill \/ Tick \/ UNCHANGED vars
    BY <1>5 DEF ArmSelfDeny, Answer, SelfDeny, Kill, Tick, vars
  <1> QED
    BY <1>1, <1>2, <1>3, <1>4, <1>5 DEF Next

\* Every step keeps the invariant.
LEMMA NextIInv == IInv /\ [Next]_vars => IInv'
  <1> SUFFICES ASSUME IInv, [Next]_vars PROVE IInv'
    OBVIOUS
  <1> USE MarginAssumption DEF IInv
  <1>1. TypeOK'
    BY NextType
  <1>2. ASSUME NEW s \in Settings, Edit(s) PROVE IInv'
    BY <1>1, <1>2 DEF Edit, TypeOK, CheckedHooksPass, GatedByBridge, ClockSound,
       CallNeedsSession, GuardedIfChecked, Deadline
  <1>3. CASE TryStart
    BY <1>1, <1>3 DEF TryStart, Check, TypeOK, CheckedHooksPass, GatedByBridge, ClockSound,
       CallNeedsSession, GuardedIfChecked, Deadline
  <1>4. CASE Load
    BY <1>1, <1>4 DEF Load, TypeOK, CheckedHooksPass, GatedByBridge, ClockSound,
       CallNeedsSession, GuardedIfChecked, Deadline
  <1>5. ASSUME NEW h \in Hook, Gate(h) PROVE IInv'
    BY <1>1, <1>5 DEF Gate, TypeOK, CheckedHooksPass, GatedByBridge, ClockSound,
       CallNeedsSession, GuardedIfChecked, Deadline
  <1>6. CASE ArmSelfDeny
    BY <1>1, <1>6 DEF ArmSelfDeny, TypeOK, CheckedHooksPass, GatedByBridge, ClockSound,
       CallNeedsSession, GuardedIfChecked, Deadline
  <1>7. CASE Answer \/ SelfDeny
    BY <1>1, <1>7 DEF Answer, SelfDeny, TypeOK, CheckedHooksPass, GatedByBridge, ClockSound,
       CallNeedsSession, GuardedIfChecked, Deadline
  <1>8. CASE Kill
    <2>1. now <= MaxBootMs + SelfDenyMs
      BY <1>8 DEF Kill, ClockSound, Deadline, TypeOK
    <2>2. ASSUME hook.timeout \in Seconds, loaded = checked PROVE FALSE
      <3>1. EvaluateHookMargin(checked) /\ hook \in checked /\ hook.bridge
        BY <1>8, <2>2 DEF Kill, CheckedHooksPass, GatedByBridge, CallNeedsSession
      <3>2. hook.timeout * Unit > MaxBootMs + SelfDenyMs
        BY <2>2, <3>1, MarginSuffices DEF TypeOK
      <3>3. now >= hook.timeout * Unit
        BY <1>8, <2>2 DEF Kill, KillAt
      <3>4. hook.timeout \in Int
        BY <2>2, Zenon
      <3>5. hook.timeout * Unit \in Int
        BY <3>4
      <3> QED
        BY <2>1, <3>2, <3>3, <3>5 DEF TypeOK
    <2>3. GuardedIfChecked'
      BY <1>8, <2>2 DEF Kill, GuardedIfChecked
    <2> QED
      BY <1>1, <1>8, <2>3 DEF Kill, TypeOK, CheckedHooksPass, GatedByBridge, ClockSound,
         CallNeedsSession, Deadline
  <1>9. CASE Tick
    BY <1>1, <1>9 DEF Tick, TypeOK, CheckedHooksPass, GatedByBridge, ClockSound,
       CallNeedsSession, GuardedIfChecked, Deadline
  <1>10. CASE UNCHANGED vars
    BY <1>1, <1>10 DEF vars, TypeOK, CheckedHooksPass, GatedByBridge, ClockSound,
       CallNeedsSession, GuardedIfChecked, Deadline
  <1> QED
    BY <1>2, <1>3, <1>4, <1>5, <1>6, <1>7, <1>8, <1>9, <1>10 DEF Next

\* A bridge of a checked project answers before the runtime kills it: for every set of
\* hooks, every self-deny delay and every start that is shorter than the minimum margin.
THEOREM MarginGuards == Spec => []GuardedIfChecked
  <1>1. IInv => GuardedIfChecked
    BY DEF IInv
  <1> QED
    BY <1>1, InitIInv, NextIInv, PTL DEF Spec

----------------------------------------------------------------------------
(* Without faults there is no exception.                                   *)

\* The child reads what was checked, and every timeout is usable.
Undisturbed ==
  /\ session = "launched" => settings.hooks = checked
  /\ session = "running" => loaded = checked
  /\ call # "idle" => hook \in Hook

\* Without faults no step disturbs the start of a session.
LEMMA NextUndisturbed ==
  ASSUME Faults = {} PROVE IInv /\ Undisturbed /\ [Next]_vars => Undisturbed'
  <1> SUFFICES ASSUME IInv, Undisturbed, [Next]_vars PROVE Undisturbed'
    OBVIOUS
  <1> USE DEF Undisturbed, IInv, CallNeedsSession
  <1>1. ASSUME NEW s \in Settings, Edit(s) PROVE Undisturbed'
    BY <1>1 DEF Edit
  <1>2. CASE TryStart \/ Load
    BY <1>2 DEF TryStart, Load
  <1>3. ASSUME NEW h \in Hook, Gate(h) PROVE Undisturbed'
    BY <1>3 DEF Gate
  <1>4. CASE ArmSelfDeny \/ Answer \/ SelfDeny \/ Kill \/ Tick \/ UNCHANGED vars
    BY <1>4 DEF ArmSelfDeny, Answer, SelfDeny, Kill, Tick, vars
  <1> QED
    BY <1>1, <1>2, <1>3, <1>4 DEF Next

\* When every timeout is a number and the file is not changed under a starting session,
\* the self-deny timer always fires before the settings timeout.
THEOREM TimerFiresFirst ==
  ASSUME Faults = {} PROVE Spec => []NeverUnguarded
  <1>1. Init => Undisturbed
    BY DEF Init, Undisturbed
  <1>2. IInv /\ Undisturbed => NeverUnguarded
    BY DEF IInv, Undisturbed, NeverUnguarded, GuardedIfChecked, CallNeedsSession, Hook, Timeouts
  <1> QED
    BY <1>1, <1>2, InitIInv, NextIInv, NextUndisturbed, PTL DEF Spec

=============================================================================

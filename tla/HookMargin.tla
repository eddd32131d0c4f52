----------------------------- MODULE HookMargin -----------------------------
(***************************************************************************)
(* The hook-margin rule (domain/hookMargin.ts), the settings file it is    *)
(* applied to (infrastructure/hookMarginFile.ts, application/jobs.ts) and  *)
(* the race it exists for: the runtime kills a hook at the `timeout' of    *)
(* its settings entry, the bridge (hook/approve-bridge.mjs) denies on its  *)
(* own SELF_DENY_MS after it started, and a killed bridge lets the tool    *)
(* run.                                                                    *)
(*                                                                         *)
(* Timeouts are in seconds, as in the file; the clock ticks in             *)
(* milliseconds, Unit to the second.                                       *)
(***************************************************************************)
EXTENDS Integers

CONSTANTS
  Seconds,       \* finite values of `timeout'
  Unusable,      \* a `timeout' that is no finite number, or none at all
  DefaultMs,     \* external: when the runtime kills a hook without a timeout
  Unit,          \* 1000
  SelfDenyMs,    \* CC_HOOK_SELF_DENY_MS
  MIN_MARGIN_MS,
  MaxBootMs,     \* longest start of the bridge before its timer is armed
  Faults,        \* which of FaultKinds may happen
  MaxEdits       \* bound: changes of the settings file

\* "unusable": settings may hold unusable timeouts; "edit": the file may change between
\* the check and the moment the child reads it.
FaultKinds == {"unusable", "edit"}

ASSUME MarginAssumption ==
  /\ Seconds \subseteq Int /\ Unusable \notin Seconds
  /\ DefaultMs \in Nat /\ Unit \in Nat /\ SelfDenyMs \in Nat /\ MIN_MARGIN_MS \in Nat
  /\ MaxBootMs \in Nat /\ MaxBootMs < MIN_MARGIN_MS
  /\ Faults \subseteq FaultKinds
  /\ MaxEdits \in Nat

Timeouts == Seconds \cup IF "unusable" \in Faults THEN {Unusable} ELSE {}

\* An entry of hooks.PreToolUse: does its command run the bridge, and its timeout.
Hook == [bridge : BOOLEAN, timeout : Timeouts]

\* A settings file: absent or no JSON, or a set of hooks.  JSON of another shape (a
\* PreToolUse or a `hooks' that cannot be iterated) makes the rule throw: nothing is
\* spawned then either, so it is one of the unreadable files here.
Settings == [readable : {FALSE}, hooks : {{}}] \cup [readable : {TRUE}, hooks : SUBSET Hook]

VARIABLES
  settings,   \* the project's settings.json
  checked,    \* history: the hooks the last check before a spawn saw
  loaded,     \* the hooks the child read from it
  session,    \* "none", "launched" or "running"
  hook,       \* the hook that gates the tool call in progress
  call,       \* the tool call: "idle", "booting", "waiting" or "unguarded"
  now,        \* time since the hook was launched
  booted,     \* when the bridge armed its timer
  edits       \* history: changes of the settings file

vars == <<settings, checked, loaded, session, hook, call, now, booted, edits>>

----------------------------------------------------------------------------
\* The timeouts evaluateHookMargin collects.
timeouts(hooks) == {h.timeout : h \in {g \in hooks : g.bridge /\ g.timeout \in Seconds}}

\* The smallest timeout governs.
Governs(t, ts) == t \in ts /\ \A u \in ts : t <= u

\* Mutant: any margin will do.
EvaluateHookMargin_AnyMargin(hooks) ==
  \E t \in timeouts(hooks) : Governs(t, timeouts(hooks)) /\ t * Unit - SelfDenyMs >= 0

\* evaluateHookMargin: no timeout at all is a refusal.
EvaluateHookMargin(hooks) ==
  \E t \in timeouts(hooks) :
    Governs(t, timeouts(hooks)) /\ t * Unit - SelfDenyMs >= MIN_MARGIN_MS

\* FileHookMarginPolicy.check.
Check == settings.readable /\ EvaluateHookMargin(settings.hooks)

\* External: when the runtime kills the hook.
KillAt(h) == IF h.timeout \in Seconds THEN h.timeout * Unit ELSE DefaultMs

----------------------------------------------------------------------------
NoHook == [bridge |-> FALSE, timeout |-> Unusable]

Init ==
  /\ settings \in Settings
  /\ checked = {} /\ loaded = {}
  /\ session = "none"
  /\ hook = NoHook /\ call = "idle" /\ now = 0 /\ booted = 0
  /\ edits = 0

\* Somebody changes the settings file.
Edit(s) ==
  /\ edits < MaxEdits
  /\ session = "launched" => "edit" \in Faults
  /\ edits' = edits + 1
  /\ settings' = s
  /\ UNCHANGED <<checked, loaded, session, hook, call, now, booted>>

\* tryStart: the check right before the spawn.
TryStart ==
  /\ session = "none"
  /\ Check
  /\ session' = "launched"
  /\ checked' = settings.hooks
  /\ UNCHANGED <<settings, loaded, hook, call, now, booted, edits>>

\* The child reads its settings.
Load ==
  /\ session = "launched"
  /\ session' = "running"
  /\ loaded' = settings.hooks
  /\ UNCHANGED <<settings, checked, hook, call, now, booted, edits>>

\* A tool call: the runtime launches the hook that gates it.
Gate(h) ==
  /\ session = "running" /\ call = "idle"
  /\ h \in loaded /\ h.bridge
  /\ hook' = h
  /\ call' = "booting"
  /\ now' = 0 /\ booted' = 0
  /\ UNCHANGED <<settings, checked, loaded, session, edits>>

\* The bridge arms its timer.
ArmSelfDeny ==
  /\ call = "booting"
  /\ call' = "waiting"
  /\ booted' = now
  /\ UNCHANGED <<settings, checked, loaded, session, hook, now, edits>>

\* A decision, or a lost daemon: the bridge answers.
Answer ==
  /\ call = "waiting"
  /\ call' = "idle"
  /\ UNCHANGED <<settings, checked, loaded, session, hook, now, booted, edits>>

\* When the timer of a waiting bridge fires.
Deadline == booted + SelfDenyMs

\* The timer fires: the bridge denies.
SelfDeny ==
  /\ call = "waiting" /\ now = Deadline
  /\ call' = "idle"
  /\ UNCHANGED <<settings, checked, loaded, session, hook, now, booted, edits>>

\* The runtime kills the hook, and the tool runs.
Kill ==
  /\ call \in {"booting", "waiting"}
  /\ now >= KillAt(hook)
  /\ call' = "unguarded"
  /\ UNCHANGED <<settings, checked, loaded, session, hook, now, booted, edits>>

\* Time passes; no timer is left behind.
Tick ==
  /\ \/ call = "booting" /\ now < MaxBootMs
     \/ call = "waiting" /\ now < Deadline
  /\ now < KillAt(hook)
  /\ now' = now + 1
  /\ UNCHANGED <<settings, checked, loaded, session, hook, call, booted, edits>>

Next ==
  \/ \E s \in Settings : Edit(s)
  \/ TryStart \/ Load
  \/ \E h \in Hook : Gate(h)
  \/ ArmSelfDeny \/ Answer \/ SelfDeny \/ Kill \/ Tick

Spec == Init /\ [][Next]_vars

----------------------------------------------------------------------------
(* Properties.                                                             *)

\* The type of the settings, the session and the tool call.
TypeOK ==
  /\ settings \in Settings
  /\ checked \subseteq Hook /\ loaded \subseteq Hook
  /\ session \in {"none", "launched", "running"}
  /\ hook \in Hook \cup {NoHook}
  /\ call \in {"idle", "booting", "waiting", "unguarded"}
  /\ now \in Nat /\ booted \in Nat
  /\ edits \in 0..MaxEdits

\* In a project the daemon agreed to spawn in, no bridge is killed before it has
\* answered, whichever of several hooks gates the call: unless its entry had no usable
\* timeout, or the child read other settings than the daemon had checked.
GuardedIfChecked ==
  call = "unguarded" => hook.timeout \notin Seconds \/ loaded # checked

\* "A self-deny timer fires strictly before the settings timeout", without exception.
NeverUnguarded == call # "unguarded"

=============================================================================

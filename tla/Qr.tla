--------------------------------- MODULE Qr ---------------------------------
(***************************************************************************)
(* The QR encoder of `cc pair-qr' (cli/src/qr.ts): byte mode, level M,     *)
(* versions 1 to 15, against a reader of ISO/IEC 18004.  The reader finds  *)
(* the function patterns and walks the modules by its own rules; it takes  *)
(* the field arithmetic, the mask formulas and the split into blocks       *)
(* (EC_M, BlockSizes, Masked) from the encoder, so a slip in one of those  *)
(* is in both.  Which of the eight masks has the lowest penalty is left    *)
(* open: every one of them must be readable.                               *)
(*                                                                         *)
(* A matrix is a function of row and column, both from 0, to 1 for dark    *)
(* and 0 for light; Free marks a module that no pattern has claimed.       *)
(***************************************************************************)
EXTENDS Integers, Sequences, FiniteSets, Bitwise

CONSTANT Payloads   \* the byte sequences that are encoded

VARIABLES
  qrPayload,   \* the bytes of the code, <<>> before there is one
  qrGrid,      \* the grid before masking, and then the lines on the terminal
  qrStage      \* "none", "placed", "drawn" or "refused"

qrVars == <<qrPayload, qrGrid, qrStage>>

Versions == 1..15
Free     == -1
NoGrid   == <<>>

Bit(x, i)  == (x \div 2^i) % 2
Zeros(n)   == [i \in 1..n |-> 0]
\* The same sequence, with its elements evaluated once.
Evaluated(s) == s \o <<>>

----------------------------------------------------------------------------
(* GF(256) and Reed-Solomon.                                               *)

\* x, 2x, 4x ... modulo 0x11D: n of them, sixteen at a time.
RECURSIVE Doubled(_, _)
Doubled(x, n) ==
  IF n = 0 THEN <<>>
  ELSE <<x>> \o Doubled(IF 2 * x > 255 THEN (2 * x) ^^ 285 ELSE 2 * x, n - 1)

RECURSIVE Powers(_, _)
Powers(x, n) ==
  IF n <= 16 THEN Doubled(x, n)
  ELSE LET run == Doubled(x, 17) IN SubSeq(run, 1, 16) \o Powers(run[17], n - 16)

EXP == Powers(1, 255)
LOG == LET exp == EXP IN [x \in 1..255 |-> (CHOOSE i \in 1..255 : exp[i] = x) - 1]

gfMul(a, b) == IF a = 0 \/ b = 0 THEN 0 ELSE EXP[((LOG[a] + LOG[b]) % 255) + 1]

\* rsGenerator: the product of (x - 2^i), leading coefficient first.
RECURSIVE RsGenerator(_)
RsGenerator(degree) ==
  IF degree = 0 THEN <<1>>
  ELSE LET poly == RsGenerator(degree - 1)
           at(j) == IF j \in 1..degree THEN poly[j] ELSE 0
       IN Evaluated([j \in 1..degree + 1 |-> at(j) ^^ gfMul(at(j - 1), EXP[degree])])

\* One turn of the division loop: the leading coefficient is cancelled and dropped.
Cancel(res, gen) ==
  LET coef == Head(res)
  IN Evaluated([j \in 1..Len(res) - 1 |->
                  IF j < Len(gen) THEN res[j + 1] ^^ gfMul(gen[j + 1], coef) ELSE res[j + 1]])

RECURSIVE Divide(_, _)
Divide(res, gen) == IF Len(res) < Len(gen) THEN res ELSE Divide(Cancel(res, gen), gen)

\* rsEncode: the remainder of data * x^ecLen by the generator of that degree.
RsEncode(data, gen) == Divide(data \o Zeros(Len(gen) - 1), gen)

----------------------------------------------------------------------------
(* The codewords.                                                          *)

\* EC codewords per block, and the groups of blocks: how many, of how much data.
EC_M == <<
  [ec |-> 10, groups |-> << <<1, 16>> >>],           [ec |-> 16, groups |-> << <<1, 28>> >>],
  [ec |-> 26, groups |-> << <<1, 44>> >>],           [ec |-> 18, groups |-> << <<2, 32>> >>],
  [ec |-> 24, groups |-> << <<2, 43>> >>],           [ec |-> 16, groups |-> << <<4, 27>> >>],
  [ec |-> 18, groups |-> << <<4, 31>> >>],           [ec |-> 22, groups |-> << <<2, 38>>, <<2, 39>> >>],
  [ec |-> 22, groups |-> << <<3, 36>>, <<2, 37>> >>], [ec |-> 26, groups |-> << <<4, 43>>, <<1, 44>> >>],
  [ec |-> 30, groups |-> << <<1, 50>>, <<4, 51>> >>], [ec |-> 22, groups |-> << <<6, 36>>, <<2, 37>> >>],
  [ec |-> 22, groups |-> << <<8, 37>>, <<1, 38>> >>], [ec |-> 24, groups |-> << <<4, 40>>, <<5, 41>> >>],
  [ec |-> 24, groups |-> << <<5, 41>>, <<5, 42>> >>] >>

\* How much data each block of a version takes.
BlockSizes(v) ==
  LET g == EC_M[v].groups
      of(k) == [i \in 1..g[k][1] |-> g[k][2]]
  IN IF Len(g) = 1 THEN Evaluated(of(1)) ELSE of(1) \o of(2)

RECURSIVE SumTo(_, _)
SumTo(s, n) == IF n = 0 THEN 0 ELSE s[n] + SumTo(s, n - 1)

dataCodewords(v) == SumTo(BlockSizes(v), Len(BlockSizes(v)))

\* countBits.
countBits(v) == IF v <= 9 THEN 8 ELSE 16

Fits(v, byteLen) == 4 + countBits(v) + byteLen * 8 <= dataCodewords(v) * 8

\* pickVersion, where it does not throw.
PickVersion(byteLen) ==
  CHOOSE v \in Versions : Fits(v, byteLen) /\ \A w \in 1..v - 1 : ~Fits(w, byteLen)

\* BitBuffer.put, and the bits of a sequence of bytes.
Put(value, len) == [i \in 1..len |-> Bit(value, len - i)]
BitsOf(bytes)   == [k \in 1..8 * Len(bytes) |-> Bit(bytes[((k - 1) \div 8) + 1], 7 - ((k - 1) % 8))]
Pack(bits) ==
  [k \in 1..(Len(bits) \div 8) |->
     LET b(j) == bits[8 * (k - 1) + j]
     IN b(1)*128 + b(2)*64 + b(3)*32 + b(4)*16 + b(5)*8 + b(6)*4 + b(7)*2 + b(8)]

\* The data codewords: mode, count, bytes, terminator, padding.
DataWords(bytes, v) ==
  LET total  == dataCodewords(v)
      body   == Put(4, 4) \o Put(Len(bytes), countBits(v)) \o BitsOf(bytes)
      room   == total * 8 - Len(body)
      ended  == body \o Zeros(IF room < 4 THEN room ELSE 4)
      whole  == ended \o Zeros((8 - (Len(ended) % 8)) % 8)
      words  == Evaluated(Pack(whole))
  IN words \o [i \in 1..total - Len(words) |-> IF i % 2 = 1 THEN 236 ELSE 17]

\* The blocks, each with its data and its EC codewords.
Blocks(words, v) ==
  LET sizes == BlockSizes(v)
      gen   == RsGenerator(EC_M[v].ec)
      data(b) == SubSeq(words, SumTo(sizes, b - 1) + 1, SumTo(sizes, b))
  IN Evaluated([b \in 1..Len(sizes) |-> [data |-> data(b), ec |-> RsEncode(data(b), gen)]])

\* Column i of every block in turn, for all i; the short blocks have no last column.
InterleaveBlocks(rows) ==
  LET n     == Len(rows)
      width == CHOOSE w \in {Len(rows[b]) : b \in 1..n} : \A b \in 1..n : Len(rows[b]) <= w
      cells == [k \in 1..width * n |-> <<((k - 1) % n) + 1, ((k - 1) \div n) + 1>>]
      taken == SelectSeq(cells, LAMBDA x : x[2] <= Len(rows[x[1]]))
  IN Evaluated([k \in 1..Len(taken) |-> rows[taken[k][1]][taken[k][2]]])

\* makeCodewords.
MakeCodewords(bytes, v) ==
  LET blocks == Blocks(DataWords(bytes, v), v)
  IN InterleaveBlocks([b \in 1..Len(blocks) |-> blocks[b].data])
     \o InterleaveBlocks([b \in 1..Len(blocks) |-> blocks[b].ec])

----------------------------------------------------------------------------
(* The matrix.                                                             *)

ALIGN == << {}, {6, 18}, {6, 22}, {6, 26}, {6, 30}, {6, 34}, {6, 22, 38}, {6, 24, 42}, {6, 26, 46},
            {6, 28, 50}, {6, 30, 54}, {6, 32, 58}, {6, 34, 62}, {6, 26, 46, 66}, {6, 26, 48, 70} >>

Size(v)   == v * 4 + 17
Abs(x)    == IF x < 0 THEN -x ELSE x
Larger(x, y) == IF x > y THEN x ELSE y
Ring(dr, dc) == Larger(Abs(dr), Abs(dc))
Dark(p)   == IF p THEN 1 ELSE 0

\* Mutant: no alignment pattern on the timing lines.
Centers_OffTimingLines(v) ==
  {p \in ALIGN[v] \X ALIGN[v] : p[1] # 6 /\ p[2] # 6}

\* The centres of the alignment patterns: all pairs but the three in finder corners.
Centers(v) ==
  LET last == Size(v) - 7 IN (ALIGN[v] \X ALIGN[v]) \ {<<6, 6>>, <<6, last>>, <<last, 6>>}

\* placeFunctionPatterns: what a module is once the patterns are placed.  A later
\* pattern draws over an earlier one, so the last is asked first.
FunctionModule(v, r, c) ==
  LET n == Size(v)
      finders == {<<0, 0>>, <<0, n - 7>>, <<n - 7, 0>>}
      near(d, p) == r - p[1] \in (0 - d)..d /\ c - p[2] \in (0 - d)..d
      boxed(p) == r - p[1] \in -1..7 /\ c - p[2] \in -1..7
      reserved == v >= 7 /\ \/ r < 6 /\ c \in n - 11..n - 9
                            \/ c < 6 /\ r \in n - 11..n - 9
      format == \/ r = 8 /\ (c < 9 \/ c >= n - 8)
                \/ c = 8 /\ (r < 9 \/ r >= n - 8)
  IN IF reserved THEN 0
     ELSE IF <<r, c>> = <<n - 8, 8>> THEN 1
     ELSE IF \E p \in Centers(v) : near(2, p)
          THEN LET p == CHOOSE p \in Centers(v) : near(2, p) IN Dark(Ring(r - p[1], c - p[2]) # 1)
     ELSE IF r = 6 /\ c \in 8..n - 9 THEN Dark(c % 2 = 0)
     ELSE IF c = 6 /\ r \in 8..n - 9 THEN Dark(r % 2 = 0)
     ELSE IF \E p \in finders : boxed(p)
          THEN LET p == CHOOSE p \in finders : boxed(p) IN Dark(Ring(r - p[1] - 3, c - p[2] - 3) \notin {2, 4})
     ELSE IF format THEN 0
     ELSE Free

\* One row of a matrix after the other.
Matrix(n, M(_, _)) ==
  LET rows == [r \in 1..n |-> Evaluated([c \in 1..n |-> M(r - 1, c - 1)])]
  IN Evaluated(rows)
At(g, r, c) == g[r + 1][c + 1]

\* The columns placeData starts from, right to left: the timing column is skipped.
RECURSIVE ColumnsFrom(_)
ColumnsFrom(col) ==
  IF col <= 0 THEN <<>>
  ELSE LET at == IF col = 6 THEN 5 ELSE col IN <<at>> \o ColumnsFrom(at - 2)

\* Mutant: the timing column is not skipped.
Walk_ThroughTiming(n) ==
  [k \in 1..n * (n - 1) |->
     LET pair == (k - 1) \div (2 * n)
         i == ((k - 1) % (2 * n)) \div 2
     IN <<IF pair % 2 = 0 THEN n - 1 - i ELSE i, n - 1 - 2 * pair - ((k - 1) % 2)>>]

\* The modules in the order placeData visits them: pairs of columns, up and down in turn.
Walk(n) ==
  LET cols == ColumnsFrom(n - 1) IN
  [k \in 1..2 * n * Len(cols) |->
     LET pair == (k - 1) \div (2 * n)
         i == ((k - 1) % (2 * n)) \div 2
     IN <<IF pair % 2 = 0 THEN n - 1 - i ELSE i, cols[pair + 1] - ((k - 1) % 2)>>]

\* placeData over the patterns: the bits of the codewords, and 0 when there are no more.
PlaceData(fn, codewords) ==
  LET bits == Evaluated(BitsOf(codewords))
      path == SelectSeq(Walk(Len(fn)), LAMBDA x : At(fn, x[1], x[2]) = Free)
      ones == {path[k] : k \in {j \in 1..Len(path) : j <= Len(bits) /\ bits[j] = 1}}
  IN Matrix(Len(fn), LAMBDA r, c : IF At(fn, r, c) # Free THEN At(fn, r, c) ELSE Dark(<<r, c>> \in ones))

\* MASKS.
Masked(m, r, c) ==
  CASE m = 0 -> (r + c) % 2 = 0
    [] m = 1 -> r % 2 = 0
    [] m = 2 -> c % 3 = 0
    [] m = 3 -> (r + c) % 3 = 0
    [] m = 4 -> ((r \div 2) + (c \div 3)) % 2 = 0
    [] m = 5 -> ((r * c) % 2) + ((r * c) % 3) = 0
    [] m = 6 -> (((r * c) % 2) + ((r * c) % 3)) % 2 = 0
    [] m = 7 -> (((r + c) % 2) + ((r * c) % 3)) % 2 = 0

\* The remainder loops of formatBits and versionBits, from bit i down to bit low.
RECURSIVE Remainder(_, _, _, _)
Remainder(rem, i, low, poly) ==
  IF i < low THEN rem
  ELSE Remainder(IF Bit(rem, i) = 1 THEN rem ^^ (poly * 2^(i - low)) ELSE rem, i - 1, low, poly)

\* formatBits: level M is 0.
formatBits(m) == (m * 1024 + Remainder(m * 1024, 14, 10, 1335)) ^^ 21522

versionBits(v) == v * 4096 + Remainder(v * 4096, 17, 12, 7973)

\* Where drawFormat puts the 15 bits, the most significant first: the copy around the
\* top-left finder, and the one split between the other two.
FormatCopy1 ==
  << <<8, 0>>, <<8, 1>>, <<8, 2>>, <<8, 3>>, <<8, 4>>, <<8, 5>>, <<8, 7>>, <<8, 8>>, <<7, 8>>,
     <<5, 8>>, <<4, 8>>, <<3, 8>>, <<2, 8>>, <<1, 8>>, <<0, 8>> >>
FormatCopy2(n) == [i \in 1..15 |-> IF i <= 8 THEN <<n - i, 8>> ELSE <<8, n - 16 + i>>]

\* drawFormat, for one module: both copies, and the dark module restored.
DrawFormat(n, m, x, old) ==
  LET places(s) == {i \in 1..15 : s[i] = x}
      both == places(FormatCopy1) \cup places(FormatCopy2(n))
  IN IF x = <<n - 8, 8>> THEN 1
     ELSE IF both # {} THEN Bit(formatBits(m), 15 - CHOOSE i \in both : TRUE)
     ELSE old

\* drawVersion, for one module.
DrawVersion(v, x, old) ==
  LET far == Size(v) - 11
      is == {i \in 0..17 : x \in {<<i \div 3, far + (i % 3)>>, <<far + (i % 3), i \div 3>>}}
  IN IF v >= 7 /\ is # {} THEN Bit(versionBits(v), CHOOSE i \in is : TRUE) ELSE old

\* tryMask: applyMask, drawFormat, drawVersion.
TryMask(v, g, m) ==
  Matrix(Size(v), LAMBDA r, c :
    IF At(g.fn, r, c) = Free THEN (IF Masked(m, r, c) THEN 1 - At(g.mod, r, c) ELSE At(g.mod, r, c))
    ELSE DrawVersion(v, <<r, c>>, DrawFormat(Size(v), m, <<r, c>>, At(g.fn, r, c))))

\* renderToTerminal: two rows of modules to a line, which says of every column which of
\* the two are black, with a quiet zone of four modules around.
RenderToTerminal(g) ==
  LET n == Len(g)
      black(r, c) == r \in 4..n + 3 /\ c \in 4..n + 3 /\ At(g, r - 4, c - 4) = 1
  IN Evaluated([line \in 1..(n + 9) \div 2 |->
       Evaluated([c \in 1..n + 8 |-> [top |-> black(2 * line - 2, c - 1),
                                       bot |-> black(2 * line - 1, c - 1)]])])

----------------------------------------------------------------------------
QrInit == qrPayload = <<>> /\ qrGrid = NoGrid /\ qrStage = "none"

\* encode, up to the masks.
EncodeBase(bytes) ==
  /\ qrStage = "none"
  /\ Fits(15, Len(bytes))
  /\ qrPayload' = bytes
  /\ LET v  == PickVersion(Len(bytes))
         fn == Matrix(Size(v), LAMBDA r, c : FunctionModule(v, r, c))
     IN qrGrid' = [version |-> v, fn |-> fn, mod |-> PlaceData(fn, MakeCodewords(bytes, v))]
  /\ qrStage' = "placed"

\* pickVersion throws.
EncodeRefused(bytes) ==
  /\ qrStage = "none"
  /\ \A v \in Versions : ~Fits(v, Len(bytes))
  /\ qrPayload' = bytes
  /\ qrStage' = "refused"
  /\ UNCHANGED qrGrid

\* The rest of encode, with any mask, and what `cc pair-qr' prints.
EncodeMask(m) ==
  /\ qrStage = "placed"
  /\ qrGrid' = RenderToTerminal(TryMask(qrGrid.version, qrGrid, m))
  /\ qrStage' = "drawn"
  /\ UNCHANGED qrPayload

QrNext ==
  \/ \E bytes \in Payloads : EncodeBase(bytes) \/ EncodeRefused(bytes)
  \/ \E m \in 0..7 : EncodeMask(m)

----------------------------------------------------------------------------
(* The reference: how ISO/IEC 18004 says such a code is read.              *)

\* Bytes that fit each version at level M.
IsoCapacity == <<14, 26, 42, 62, 84, 106, 122, 152, 180, 213, 251, 287, 331, 362, 412>>

\* How many patterns a row of alignment patterns has, and how far apart they are.
IsoAlignment(v) == IF v = 1 THEN 0 ELSE (v \div 7) + 2
IsoStep(v) ==
  LET k == IsoAlignment(v) IN ((v * 4 + k * 2 + 1) \div (2 * k - 2)) * 2
IsoAlignmentAt(v) ==
  {6} \cup {Size(v) - 7 - IsoStep(v) * j : j \in 0..IsoAlignment(v) - 2}

\* The modules that carry no data.
IsoPattern(v, r, c) ==
  LET n == Size(v)
      corner == (r < 9 /\ c < 9) \/ (r < 9 /\ c >= n - 8) \/ (r >= n - 8 /\ c < 9)
      align  == v > 1 /\ \E a, b \in IsoAlignmentAt(v) :
                  /\ r \in a - 2..a + 2 /\ c \in b - 2..b + 2
                  /\ <<a, b>> \notin {<<6, 6>>, <<6, n - 7>>, <<n - 7, 6>>}
      info   == v >= 7 /\ ((r < 6 /\ c >= n - 11) \/ (c < 6 /\ r >= n - 11))
  IN corner \/ r = 6 \/ c = 6 \/ align \/ info

\* How many modules are left for data.
IsoModules(v) ==
  LET k == IsoAlignment(v) IN
    (16 * v + 128) * v + 64
      - (IF v = 1 THEN 0 ELSE (25 * k - 10) * k - 55)
      - (IF v >= 7 THEN 36 ELSE 0)

\* Format information of level M for masks 0 to 7, version information of 7 to 15.
IsoFormat  == <<21522, 20773, 24188, 23371, 17913, 16590, 20375, 19104>>
IsoVersion == <<31892, 34236, 39577, 42195, 48118, 51042, 55367, 58893, 63784>>

\* The module at row r and column c of what is printed, from the corner of the quiet zone.
Seen(lines, r, c) ==
  LET cell == lines[(r \div 2) + 1][c + 1] IN Dark(IF r % 2 = 0 THEN cell.top ELSE cell.bot)

\* How many of 15 modules differ from a format word.
Errors(g, places, word) ==
  Cardinality({i \in 1..15 : At(g, places[i][1], places[i][2]) # Bit(word, 15 - i)})

\* Every finder has its rings, the timing lines alternate.
IsoMarks(g) ==
  LET n == Len(g) IN
  /\ \A p \in {<<0, 0>>, <<0, n - 7>>, <<n - 7, 0>>} : \A dr, dc \in 0..6 :
       At(g, p[1] + dr, p[2] + dc) = (IF Ring(dr - 3, dc - 3) = 2 THEN 0 ELSE 1)
  /\ \A i \in 8..n - 9 : At(g, 6, i) = 1 - (i % 2) /\ At(g, i, 6) = 1 - (i % 2)
  /\ At(g, n - 8, 8) = 1

\* Where the second copy belongs; the eighth of its bits is right of the gap.
IsoSecondCopy(n) == [i \in 1..15 |-> IF i <= 7 THEN <<n - i, 8>> ELSE <<8, n - 16 + i>>]

\* The data modules in reading order, two columns at a time from the right.
IsoPath(v) ==
  LET n == Size(v)
      right(p) == IF n - 1 - 2 * p <= 6 THEN n - 2 - 2 * p ELSE n - 1 - 2 * p
      cell(k) == LET p == k \div (2 * n)
                     i == (k % (2 * n)) \div 2
                 IN <<IF p % 2 = 0 THEN n - 1 - i ELSE i, right(p) - (k % 2)>>
  IN SelectSeq([k \in 1..n * (n - 1) |-> cell(k - 1)], LAMBDA x : ~IsoPattern(v, x[1], x[2]))

\* The value at 2^i of the polynomial whose coefficients are given.
RECURSIVE Syndrome(_, _)
Syndrome(s, i) ==
  IF Len(s) = 1 THEN s[1]
  ELSE LET h == Len(s) \div 2 IN
    gfMul(Syndrome(SubSeq(s, 1, h), i), EXP[((i * (Len(s) - h)) % 255) + 1])
      ^^ Syndrome(SubSeq(s, h + 1, Len(s)), i)

\* Block b of the interleaved codewords: its data, then its EC codewords.
IsoBlock(words, v, b) ==
  LET sizes == BlockSizes(v)
      n     == Len(sizes)
      short == sizes[1]
      at(i) == IF i <= short THEN (i - 1) * n + b
               ELSE short * n + Cardinality({j \in 1..b : sizes[j] > short})
      total == SumTo(sizes, n)
  IN [i \in 1..sizes[b] |-> words[at(i)]]
     \o [i \in 1..EC_M[v].ec |-> words[total + (i - 1) * n + b]]

\* What a reader gets from the matrix when the mask is m.
IsoRead(g, v, m) ==
  LET path   == IsoPath(v)
      bit(x) == IF Masked(m, x[1], x[2]) THEN 1 - At(g, x[1], x[2]) ELSE At(g, x[1], x[2])
      words  == Evaluated(Pack(Evaluated([k \in 1..Len(path) |-> bit(path[k])])))
      blocks == Evaluated([b \in 1..Len(BlockSizes(v)) |-> Evaluated(IsoBlock(words, v, b))])
      data[b \in 0..Len(blocks)] ==
        IF b = 0 THEN <<>> ELSE data[b - 1] \o SubSeq(blocks[b], 1, BlockSizes(v)[b])
  IN [sound |-> \A b \in 1..Len(blocks) : \A i \in 0..EC_M[v].ec - 1 : Syndrome(blocks[b], i) = 0,
      bits  |-> Evaluated(BitsOf(data[Len(blocks)]))]

\* The number that a stretch of bits spells.
RECURSIVE Spelt(_)
Spelt(bits) ==
  IF bits = <<>> THEN 0 ELSE 2 * Spelt(SubSeq(bits, 1, Len(bits) - 1)) + bits[Len(bits)]

----------------------------------------------------------------------------
(* Properties.                                                             *)

\* A payload gets the smallest version that holds it, none if none does, and a layout in
\* which the blocks of that version fill the matrix: every pattern is where the standard
\* has it, and fewer than eight modules are left over.
RightSize ==
  /\ qrStage = "refused" <=> qrStage # "none" /\ Len(qrPayload) > IsoCapacity[15]
  /\ qrStage = "placed" =>
       LET v == qrGrid.version
           total == dataCodewords(v) + Len(BlockSizes(v)) * EC_M[v].ec
       IN /\ Len(qrPayload) <= IsoCapacity[v]
          /\ v > 1 => Len(qrPayload) > IsoCapacity[v - 1]
          /\ IsoModules(v) - 8 * total \in 0..7
          /\ \A r, c \in 0..Size(v) - 1 :
               At(qrGrid.fn, r, c) = Free <=> ~IsoPattern(v, r, c)

\* Whatever the mask, a camera reads the payload off the terminal: the quiet zone is light,
\* the marks are in place, both copies of the format information name one mask and level M
\* (the second with a bit to correct), the version is announced twice, every block is a
\* codeword, and the bits spell the mode, the length and the bytes.
ScannerReads ==
  qrStage = "drawn" =>
    LET n == Len(qrGrid[1]) - 8
        g == Matrix(n, LAMBDA r, c : Seen(qrGrid, r + 4, c + 4))
        v == (n - 17) \div 4
        head == IF v <= 9 THEN 12 ELSE 20
    IN /\ \A r, c \in 0..n + 7 : {r, c} \subseteq 4..n + 3 \/ Seen(qrGrid, r, c) = 0
       /\ IsoMarks(g)
       /\ \E m \in 0..7 :
            /\ Errors(g, FormatCopy1, IsoFormat[m + 1]) = 0
            /\ Errors(g, IsoSecondCopy(n), IsoFormat[m + 1]) <= 1
            /\ LET got == IsoRead(g, v, m) IN
                 /\ got.sound
                 /\ Spelt(SubSeq(got.bits, 1, 4)) = 4
                 /\ Spelt(SubSeq(got.bits, 5, head)) = Len(qrPayload)
                 /\ SubSeq(got.bits, head + 1, head + 8 * Len(qrPayload)) = Evaluated(BitsOf(qrPayload))
       /\ v >= 7 => \A i \in 0..17 :
            /\ At(g, i \div 3, n - 11 + (i % 3)) = Bit(IsoVersion[v - 6], i)
            /\ At(g, n - 11 + (i % 3), i \div 3) = Bit(IsoVersion[v - 6], i)
=============================================================================

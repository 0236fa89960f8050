------------------------- MODULE GraphRunner_proofs -------------------------
(***************************************************************************)
(* For every set of buckets, batch size and engine configuration: a replay *)
(* runs on the rows and hidden rows of the call that asked for it, and the *)
(* step reads the rows of its own forwards.                                *)
(***************************************************************************)
EXTENDS GraphRunner, Trees_proofs, SequenceTheorems

\* The row at place r of a call with n rows to a request.
NameAt(call, n, r) == Row(call, ((r - 1) \div n) + 1, ((r - 1) % n) + 1)

\* ... and in a padded buffer with B requests.
PadName(call, n, B, r) == IF r <= B * n THEN NameAt(call, n, r) ELSE Pad

----------------------------------------------------------------------------
(***************************************************************************)
(* The invariant.                                                          *)
(***************************************************************************)
Pcs == {"idle", "running", "new", "cat", "accept", "extend", "extended", "extended_last",
        "draft", "level"}
Verifying == pc \in {"new", "cat", "accept"}
Drafts    == pc \in {"extend", "extended", "extended_last", "draft", "level"}
Ops       == {"copy", "hidden", "replay", "gather", "cat"}

\* Every buffer has its size.
Sized ==
    /\ DOMAIN stage = Runner /\ DOMAIN inputs = Runner /\ DOMAIN hidden = Runner
    /\ DOMAIN outputs = Runner
    /\ \A g \in Runner : /\ DOMAIN stage[g] = 1 .. MaxRows(g)
                         /\ DOMAIN inputs[g] = 1 .. MaxRows(g)
                         /\ DOMAIN hidden[g] = 1 .. MaxRows(g)
                         /\ DOMAIN outputs[g] = Buckets

\* The requests of a call have rows, the admitted ones those of a prompt.
Host ==
    /\ config \in Configs /\ pc \in Pcs
    /\ running \in Seq(Nat \ {0}) /\ new \in Seq(config.prompts)
    /\ alive \in Seq(Nat \ {0}) /\ level \in Nat /\ up \in [1 .. K -> 1 .. K]
    /\ Drafts => alive # << >> /\ config.depth > 0
    /\ pc \notin {"draft", "level"} => level = 0
    /\ ~Verifying => outs = << >>

\* The stream is a load, a replay and what reads its output, in this order, or hidden rows.
InOrder ==
    /\ \A j \in DOMAIN stream : stream[j].op \in Ops
    /\ \A j \in DOMAIN stream : stream[j].op = "copy" => j = 1
    /\ \A j, k \in DOMAIN stream :
           stream[j].op = "replay" =>
               /\ stream[k].op = "replay" => k = j
               /\ stream[k].op = "hidden" => k = j - 1
    /\ \A j \in DOMAIN stream : stream[j].op \in {"gather", "cat"} => j = Len(stream)

No(x) == \A j \in DOMAIN stream : stream[j].op # x

\* A replay in the stream is one the runner can make.
Legal ==
    \A j \in DOMAIN stream : stream[j].op = "replay" =>
        /\ stream[j].runner \in Runner /\ stream[j].batch \in Nat
        /\ Fits(stream[j].batch) /\ stream[j].bs = Bucket(stream[j].batch)

\* The rows a copy brings.
Brought(c) == IF c.rows = << >> THEN stage[c.runner] ELSE c.rows

\* The copy c brings the rows of the replay op.
Loads(c, op) ==
    /\ c.runner = op.runner
    /\ \A r \in 1 .. op.bs * R(op.runner) :
           /\ r \in DOMAIN Brought(c)
           /\ Brought(c)[r] = PadName(op.call, R(op.runner), op.batch, r)

\* A replay finds its rows in the static inputs, or the copy before it brings them.
InputsReady ==
    \A j \in DOMAIN stream : stream[j].op = "replay" =>
        IF stream[1].op = "copy" THEN Loads(stream[1], stream[j]) ELSE InputsAreIts(stream[j])

\* The copy c of hidden rows brings those of the replay op.
Feeds(c, op) ==
    /\ c.runner = op.runner /\ c.at = 0
    /\ \A b \in 1 .. op.batch, i \in 1 .. R(op.runner) :
           /\ (b - 1) * R(op.runner) + i \in DOMAIN Contents(c.from)
           /\ Belongs(Contents(c.from)[(b - 1) * R(op.runner) + i], op, b, i)

\* So with the hidden rows.
HiddenReady ==
    \A j \in DOMAIN stream : stream[j].op = "replay" =>
        IF j > 1 /\ stream[j - 1].op = "hidden" THEN Feeds(stream[j - 1], stream[j])
        ELSE HiddenAreIts(stream[j])

\* The output of a call is in the static outputs, or its replay is in the stream.
Serves(g, call, B) ==
    /\ \A j \in DOMAIN stream : stream[j].op = "replay" =>
           stream[j].runner = g /\ stream[j].call = call /\ stream[j].batch = B
    /\ No("replay") =>
           \A r \in 1 .. B * R(g) : outputs[g][Bucket(B)][r] = NameAt(call, R(g), r)

Captured(lens) == lens # << >> /\ Verify(lens[1]) \in Runner /\ CanRun(Verify(lens[1]), lens)

\* The output of a forward over lens.
Out(call, lens) ==
    IF lens = << >> THEN << >>
    ELSE IF Captured(lens) THEN <<View(Verify(lens[1]), Len(lens))>>
    ELSE <<Fresh(RowsOf(call, lens))>>

\* Nothing is enqueued when the host reads back.
Drained == pc \in {"idle", "running", "extend"} => stream = << >>

\* The outputs of the step's forwards are concatenated, or about to be.
Scored ==
    IF No("cat") THEN h = RowsOf(RunningCall, running) \o RowsOf(NewCall, new)
    ELSE \A j \in DOMAIN stream : stream[j].op = "cat" => stream[j].outs = outs

\* The outputs are those of the step's forwards.
Forwarded ==
    /\ outs = IF pc = "new" THEN Out(RunningCall, running)
              ELSE Out(RunningCall, running) \o Out(NewCall, new)
    /\ IF Captured(running) THEN Serves(Verify(running[1]), RunningCall, Len(running))
       ELSE No("copy") /\ No("replay")
    /\ pc = "accept" => Scored

\* From the first verify forward to the read back of its output. If both forwards are
\* captured, the second may have taken the output of the first.
InVerify ==
    Verifying =>
        /\ No("hidden") /\ No("gather")
        /\ pc # "accept" => No("cat")
        /\ ~Captured(new) => Forwarded

\* A captured extend.
Extends == Fits(Drafting) /\ \A b \in DOMAIN alive : alive[b] <= R(Extend)

\* The hidden rows of the first m requests are in the extend's static buffer.
Written(m) ==
    \A b \in 1 .. m : \A i \in 1 .. alive[b] :
        hidden[Extend][(b - 1) * R(Extend) + i] = Row(AuxRows, b, i)

InExtend ==
    pc = "extended" =>
        /\ Extends /\ Len(stream) <= Drafting /\ Written(Drafting - Len(stream))
        /\ \A j \in DOMAIN stream : stream[j] =
               HiddenCopy(Extend, (Drafting - Len(stream) + j - 1) * R(Extend), Aux(Drafting - Len(stream) + j))

Extended ==
    pc = "extended_last" =>
        /\ Extends /\ No("hidden") /\ No("gather") /\ No("cat")
        /\ Serves(Extend, ExtendCall, Drafting)

\* What feeds node i of request b in the next level.
Feed(b, i) == IF level = 0 THEN Row(ExtendCall, b, alive[b]) ELSE Row(LevelCall(level), b, up[i])

\* Rows that feed the next level.
Nourish(rows) ==
    \A b \in 1 .. Drafting, i \in 1 .. K :
        (b - 1) * K + i \in DOMAIN rows /\ rows[(b - 1) * K + i] = Feed(b, i)

\* The parents' rows.
ParentRow(r) == ((r - 1) \div K) * K + up[((r - 1) % K) + 1]

\* What the next level is fed is gathered from the output before it.
GatherOp ==
    IF level = 0 THEN Gather(View(Extend, Drafting), Spread([b \in DOMAIN alive |-> LastRow(b)]))
    ELSE Gather(View(Draft, Drafting), [r \in 1 .. Drafting * K |-> ParentRow(r)])

\* Gathered rows are there or on their way.
Nourished ==
    IF No("gather") THEN Nourish(gathered)
    ELSE \A j \in DOMAIN stream : stream[j].op = "gather" => stream[j] = GatherOp

InDraft ==
    pc = "draft" =>
        /\ No("cat")
        /\ ~Fits(Drafting) => stream = << >>
        /\ level = 0 => \/ /\ hid = Gathered /\ Extends
                           /\ Serves(Extend, ExtendCall, Drafting) /\ Nourished
                        \/ /\ stream = << >>
                           /\ \E rows : hid = Fresh(rows) /\ Nourish(rows)
        /\ level > 0 /\ Fits(Drafting) =>
               /\ Serves(Draft, LevelCall(level), Drafting)
               /\ IF K = 1 THEN hid = View(Draft, Drafting) /\ No("gather")
                  ELSE hid = Gathered /\ Nourished

InLevel ==
    pc = "level" =>
        /\ K > 1 /\ Fits(Drafting) /\ level > 0 /\ No("gather") /\ No("cat")
        /\ hid = View(Draft, Drafting)
        /\ Serves(Draft, LevelCall(level), Drafting)

Listed == \E X : stream \in Seq(X)

Streamed == Listed /\ InOrder /\ Legal /\ InputsReady /\ HiddenReady
Phases   == Drained /\ InVerify /\ InExtend /\ Extended /\ InDraft /\ InLevel
GInv     == Sized /\ Host /\ Streamed /\ Phases

----------------------------------------------------------------------------
(***************************************************************************)
(* Rows laid out.                                                          *)
(***************************************************************************)
\* A flat list is its lists joined.
LEMMA FlatJoin ==
    ASSUME NEW m \in Nat, NEW X, NEW pieces \in [1 .. m -> Seq(X)]
    PROVE  \E u : Joins(u, pieces, m) /\ Flat(pieces) = u[m]
<1>1. PICK u \in [0 .. m -> Seq(X)] : Joins(u, pieces, m)
  BY Joinable
<1>2. Len(pieces) = m
  OBVIOUS
<1> DEFINE all == CHOOSE f : f = [n \in 0 .. Len(pieces) |->
                                      IF n = 0 THEN << >> ELSE f[n - 1] \o pieces[n]]
<1>3. u = [n \in 0 .. m |-> IF n = 0 THEN << >> ELSE u[n - 1] \o pieces[n]]
  BY <1>1 DEF Joins
<1>4. all = [n \in 0 .. m |-> IF n = 0 THEN << >> ELSE all[n - 1] \o pieces[n]]
  BY <1>2, <1>3
<1>5. Flat(pieces) = all[m]
  BY <1>2 DEF Flat
<1>6. PICK g : g = all
  OBVIOUS
<1> HIDE DEF all
<1>7. Joins(g, pieces, m)
  BY <1>4, <1>6 DEF Joins
<1> QED BY <1>5, <1>6, <1>7

\* What precedes the rows of request k + 1, with n rows to a request.
LEMMA Places ==
    ASSUME NEW n \in Nat \ {0}, NEW k \in Nat, NEW i \in 1 .. n
    PROVE  /\ k * n \in Nat /\ (k + 1) * n = k * n + n
           /\ k * n + i \in Nat \ {0}
           /\ ((k * n + i) - 1) \div n = k
           /\ ((k * n + i) - 1) % n = i - 1
<1>1. k * n \in Nat /\ (k + 1) * n = k * n + n
  OBVIOUS
<1>2. PICK x \in Nat : x = (k * n + i) - 1
  BY <1>1
<1>3. PICK q \in Nat : q = x \div n
  BY <1>2
<1>4. PICK s \in 0 .. (n - 1) : s = x % n
  BY <1>2
<1>5. x = n * q + s
  BY <1>2, <1>3, <1>4
<1>6. q = k
  <2>1. n * q + s = n * k + (i - 1)
    BY <1>1, <1>2, <1>5
  <2>2. ASSUME NEW a \in Nat, NEW b \in Nat, a < b,
               NEW y \in 0 .. (n - 1), NEW z \in 0 .. (n - 1), n * a + y = n * b + z
        PROVE  FALSE
    <3>1. PICK d \in Nat : b = a + 1 + d
      <4>1. b - (a + 1) \in Nat /\ b = a + 1 + (b - (a + 1))
        BY <2>2
      <4> QED BY <4>1
    <3>2. n * b = n * a + n + n * d /\ n * d \in Nat /\ n * a \in Nat
      BY <3>1
    <3> QED BY <2>2, <3>2
  <2>3. s \in 0 .. (n - 1) /\ i - 1 \in 0 .. (n - 1)
    OBVIOUS
  <2>4. ~ (q < k)
    BY <2>1, <2>2, <2>3
  <2>5. ~ (k < q)
    BY <2>1, <2>2, <2>3
  <2> QED BY <2>4, <2>5
<1>7. s = i - 1
  BY <1>1, <1>2, <1>5, <1>6
<1> QED BY <1>1, <1>2, <1>3, <1>4, <1>6, <1>7

\* Every place is one of a request.
LEMMA PlacesCover ==
    ASSUME NEW n \in Nat \ {0}, NEW B \in Nat, NEW r \in 1 .. (B * n)
    PROVE  \E b \in 1 .. B : \E i \in 1 .. n :
               r = (b - 1) * n + i /\ ((r - 1) \div n) + 1 = b /\ ((r - 1) % n) + 1 = i
<1>1. B * n \in Nat
  OBVIOUS
<1>2. PICK x \in 0 .. (B * n - 1) : x = r - 1
  BY <1>1
<1>3. x \div n \in 0 .. (B - 1) /\ x % n \in 0 .. (n - 1)
  BY RowAndColumn
<1>4. PICK b \in 1 .. B : b = (x \div n) + 1
  BY <1>3
<1>5. PICK i \in 1 .. n : i = (x % n) + 1
  BY <1>3
<1>6. PICK q \in Nat : q = x \div n
  BY <1>3
<1>7. PICK s \in 0 .. (n - 1) : s = x % n
  BY <1>3
<1>8. x = n * q + s
  BY <1>2, <1>6, <1>7
<1>9. r = (b - 1) * n + i
  <2>1. b - 1 = q /\ i - 1 = s
    BY <1>4, <1>5, <1>6, <1>7
  <2>2. n * q = q * n
    OBVIOUS
  <2>3. n * q \in Nat
    OBVIOUS
  <2>4. (b - 1) * n = n * q
    BY <2>1, <2>2
  <2> QED BY <1>1, <1>2, <1>8, <2>1, <2>3, <2>4
<1> QED BY <1>2, <1>4, <1>5, <1>9

\* The name at a place.
LEMMA NameOf ==
    ASSUME NEW call, NEW n \in Nat \ {0}, NEW b \in Nat \ {0}, NEW i \in 1 .. n
    PROVE  NameAt(call, n, (b - 1) * n + i) = Row(call, b, i)
<1>1. b - 1 \in Nat
  OBVIOUS
<1>2. (((b - 1) * n + i) - 1) \div n = b - 1 /\ (((b - 1) * n + i) - 1) % n = i - 1
  BY <1>1, Places
<1>3. PICK k \in Nat : k = b - 1
  BY <1>1
<1> QED BY <1>2, <1>3 DEF NameAt

Names(call) == {Row(call, b, i) : b \in Nat, i \in Nat}

\* The rows of an even batch.
EvenRows(rows, call, B, n) ==
    /\ rows \in Seq(Names(call)) /\ Len(rows) = B * n
    /\ \A r \in 1 .. (B * n) : rows[r] = NameAt(call, n, r)

\* The rows of request b of a call.
Share(call, lens, b) == [i \in 1 .. lens[b] |-> Row(call, b, i)]

\* The rows of a call are the pieces, those of its requests, joined.
RowsJoined(pieces, call, lens, m) ==
    /\ \A b \in 1 .. m : pieces[b] = Share(call, lens, b)
    /\ \E u : Joins(u, pieces, m) /\ RowsOf(call, lens) = u[m]

\* The rows of a call can be taken apart.
LEMMA RowsJoin ==
    ASSUME NEW call, NEW m \in Nat, NEW lens \in [1 .. m -> Nat]
    PROVE  \E pieces \in [1 .. m -> Seq(Names(call))] : RowsJoined(pieces, call, lens, m)
<1>1. PICK pieces : pieces = [b \in 1 .. m |-> Share(call, lens, b)]
  OBVIOUS
<1>2. pieces \in [1 .. m -> Seq(Names(call))]
  <2> SUFFICES ASSUME NEW b \in 1 .. m PROVE Share(call, lens, b) \in Seq(Names(call))
    BY <1>1
  <2>1. PICK n \in Nat : n = lens[b]
    OBVIOUS
  <2>2. \A i \in 1 .. n : Row(call, b, i) \in Names(call)
    BY DEF Names
  <2> QED BY <2>1, <2>2 DEF Share
<1>3. RowsOf(call, lens) = Flat(pieces)
  <2>1. DOMAIN lens = 1 .. m
    OBVIOUS
  <2> QED BY <1>1, <2>1 DEF RowsOf, Share
<1>4. \E u : Joins(u, pieces, m) /\ Flat(pieces) = u[m]
  BY <1>2, FlatJoin
<1>5. RowsJoined(pieces, call, lens, m)
  BY <1>1, <1>3, <1>4 DEF RowsJoined
<1> QED BY <1>2, <1>5

\* The rows of a call are rows.
LEMMA RowsTyped ==
    ASSUME NEW call, NEW m \in Nat, NEW lens \in [1 .. m -> Nat]
    PROVE  RowsOf(call, lens) \in Seq(Names(call))
<1>1. PICK pieces \in [1 .. m -> Seq(Names(call))] : RowsJoined(pieces, call, lens, m)
  BY RowsJoin
<1>2. PICK u : Joins(u, pieces, m) /\ RowsOf(call, lens) = u[m]
  BY <1>1 DEF RowsJoined
<1>3. \A k \in 0 .. m : u[k] = IF k = 0 THEN << >> ELSE u[k - 1] \o pieces[k]
  BY <1>2 DEF Joins
<1> DEFINE G == {k \in 0 .. m : u[k] \in Seq(Names(call))}
<1>4. 0 \in G
  <2>1. 0 \in 0 .. m /\ << >> \in Seq(Names(call))
    OBVIOUS
  <2>2. u[0] = << >>
    BY <1>3, <2>1
  <2> QED BY <2>1, <2>2
<1>5. ASSUME NEW k \in 0 .. (m - 1), k \in G PROVE k + 1 \in G
  <2>1. k + 1 \in 0 .. m /\ k + 1 \in 1 .. m /\ k + 1 # 0 /\ (k + 1) - 1 = k
    OBVIOUS
  <2>2. PICK s \in Seq(Names(call)) : s = u[k]
    BY <1>5
  <2>3. PICK q \in Seq(Names(call)) : q = pieces[k + 1]
    BY <2>1
  <2>4. u[k + 1] = s \o q
    BY <1>3, <2>1, <2>2, <2>3
  <2>5. s \o q \in Seq(Names(call))
    OBVIOUS
  <2> QED BY <2>1, <2>4, <2>5
<1>6. \A k \in 0 .. m : k \in G
  <2> HIDE DEF G
  <2> QED BY <1>4, <1>5, Induct
<1>7. m \in G
  BY <1>6
<1> QED BY <1>2, <1>7

\* An even batch lies in its places.
LEMMA EvenLaid ==
    ASSUME NEW call, NEW B \in Nat, NEW n \in Nat \ {0}
    PROVE  EvenRows(RowsOf(call, All(B, n)), call, B, n)
<1>0. All(B, n) \in [1 .. B -> Nat] /\ \A b \in 1 .. B : All(B, n)[b] = n
  BY DEF All
<1>1. PICK lens \in [1 .. B -> Nat] : lens = All(B, n) /\ \A b \in 1 .. B : lens[b] = n
  BY <1>0
<1>2. PICK pieces \in [1 .. B -> Seq(Names(call))] : RowsJoined(pieces, call, lens, B)
  BY RowsJoin
<1>3. PICK u : Joins(u, pieces, B) /\ RowsOf(call, lens) = u[B]
  BY <1>2 DEF RowsJoined
<1>4. \A k \in 0 .. B : u[k] = IF k = 0 THEN << >> ELSE u[k - 1] \o pieces[k]
  BY <1>3 DEF Joins
<1> DEFINE G == {k \in 0 .. B : EvenRows(u[k], call, k, n)}
<1>5. 0 \in G
  <2>1. 0 * n = 0
    OBVIOUS
  <2>2. EvenRows(<< >>, call, 0, n)
    BY <2>1 DEF EvenRows
  <2>3. u[0] = << >>
    BY <1>4
  <2> QED BY <2>2, <2>3
<1>6. ASSUME NEW k \in 0 .. (B - 1), k \in G PROVE k + 1 \in G
  <2>1. k + 1 \in 0 .. B /\ k + 1 \in 1 .. B /\ k + 1 # 0 /\ (k + 1) - 1 = k /\ k \in Nat
    OBVIOUS
  <2>2. EvenRows(u[k], call, k, n)
    BY <1>6
  <2>3. PICK s \in Seq(Names(call)) : s = u[k]
    BY <2>2 DEF EvenRows
  <2>4. PICK q \in Seq(Names(call)) : q = pieces[k + 1]
    BY <2>1
  <2>5. u[k + 1] = s \o q
    BY <1>4, <2>1, <2>3, <2>4
  <2>6. Len(q) = n /\ \A i \in 1 .. n : q[i] = Row(call, k + 1, i)
    <3>1. q = Share(call, lens, k + 1)
      BY <1>2, <2>1, <2>4 DEF RowsJoined
    <3>2. lens[k + 1] = n
      BY <1>1, <2>1
    <3>3. q = [i \in 1 .. n |-> Row(call, k + 1, i)]
      BY <3>1, <3>2 DEF Share
    <3> QED BY <3>3
  <2>7. PICK t \in Nat : t = k * n
    BY <2>1
  <2>8. (k + 1) * n = t + n
    BY <2>1, <2>7
  <2>9. Len(s) = t /\ \A r \in 1 .. t : s[r] = NameAt(call, n, r)
    BY <2>2, <2>3, <2>7 DEF EvenRows
  <2>10. s \o q \in Seq(Names(call)) /\ Len(s \o q) = t + n
    <3>1. s \o q \in Seq(Names(call)) /\ Len(s \o q) = Len(s) + Len(q)
      OBVIOUS
    <3> QED BY <2>6, <2>9, <3>1
  <2>11. ASSUME NEW r \in 1 .. (t + n) PROVE (s \o q)[r] = NameAt(call, n, r)
    <3>1. CASE r <= t
      <4>1. r \in 1 .. Len(s) /\ r \in 1 .. t
        BY <2>9, <3>1
      <4>2. (s \o q)[r] = s[r]
        BY <4>1
      <4> QED BY <2>9, <4>1, <4>2
    <3>2. CASE ~(r <= t)
      <4>1. PICK i \in 1 .. n : i = r - t
        BY <3>2
      <4>2. r \in 1 .. (Len(s) + Len(q)) /\ ~(r <= Len(s))
        BY <2>6, <2>9, <3>2
      <4>3. (s \o q)[r] = q[r - Len(s)]
        BY <4>2
      <4>4. (s \o q)[r] = Row(call, k + 1, i)
        BY <2>6, <2>9, <4>1, <4>3
      <4>5. PICK b \in Nat \ {0} : b = k + 1 /\ b - 1 = k
        BY <2>1
      <4>6. NameAt(call, n, (b - 1) * n + i) = Row(call, b, i)
        BY NameOf
      <4>7. (b - 1) * n + i = r
        BY <2>7, <4>1, <4>5
      <4> QED BY <4>4, <4>5, <4>6, <4>7
    <3> QED BY <3>1, <3>2
  <2>12. EvenRows(s \o q, call, k + 1, n)
    BY <2>8, <2>10, <2>11 DEF EvenRows
  <2> QED BY <2>1, <2>5, <2>12
<1>7. \A k \in 0 .. B : k \in G
  <2> HIDE DEF G
  <2> QED BY <1>5, <1>6, Induct
<1>8. B \in G
  BY <1>7
<1> QED BY <1>1, <1>3, <1>8

----------------------------------------------------------------------------
(***************************************************************************)
(* Buckets and padding.                                                    *)
(***************************************************************************)
\* There is a largest bucket: of the sets of buckets above one, the smallest is empty.
LEMMA LargestBucket ==
    Max(Buckets) \in Buckets /\ \A b \in Buckets : b <= Max(Buckets)
<1> DEFINE Rel == StrictSubsetOrdering(Buckets)
           S == FiniteSubsetsOf(Buckets)
           Above(b) == {c \in Buckets : c > b}
           U == {Above(b) : b \in Buckets}
<1>1. IsWellFoundedOn(Rel, S)
  BY FS_StrictSubsetOrderingWellFounded
<1>2. U \subseteq S
  <2> SUFFICES ASSUME NEW b \in Buckets PROVE Above(b) \in S
    OBVIOUS
  <2>1. Above(b) \subseteq Buckets
    OBVIOUS
  <2>2. IsFiniteSet(Above(b))
    <3> HIDE DEF Above
    <3> QED BY <2>1, GraphAssumption, FS_Subset
  <2> QED BY <2>1, <2>2 DEF FiniteSubsetsOf
<1>3. U # {}
  BY GraphAssumption
<1>4. \E x \in U : \A y \in U : ~ (<<y, x>> \in Rel)
  <2> HIDE DEF Rel, S, U
  <2> QED BY <1>1, <1>2, <1>3, WFMin, Zenon
<1>5. PICK m \in Buckets : \A b \in Buckets : ~ (<<Above(b), Above(m)>> \in Rel)
  BY <1>4
<1>6. ASSUME NEW b \in Buckets PROVE b <= m
  <2> SUFFICES ASSUME b > m PROVE FALSE
    BY GraphAssumption
  <2>0. Buckets \subseteq Nat
    BY GraphAssumption
  <2>1. Above(b) \subseteq Above(m) /\ b \in Above(m) /\ b \notin Above(b)
    <3>1. ASSUME NEW c \in Buckets, c > b PROVE c > m
      <4>1. b \in Nat /\ m \in Nat /\ c \in Nat
        BY <2>0
      <4> QED BY <3>1, <4>1
    <3>2. ~ (b > b)
      BY <2>0
    <3> QED BY <3>1, <3>2
  <2>2. Above(b) \subseteq Buckets /\ Above(m) \subseteq Buckets
    OBVIOUS
  <2>3. <<Above(b), Above(m)>> \in Rel
    <3> HIDE DEF Above
    <3> QED BY <2>1, <2>2 DEF StrictSubsetOrdering
  <2> QED BY <1>5, <2>3
<1>7. \E x \in Buckets : \A y \in Buckets : x >= y
  BY <1>6, GraphAssumption
<1>8. Max(Buckets) \in Buckets /\ \A y \in Buckets : Max(Buckets) >= y
  <2>1. Max(Buckets) = CHOOSE x \in Buckets : \A y \in Buckets : x >= y
    BY DEF Max
  <2>2. PICK z : z = CHOOSE x \in Buckets : \A y \in Buckets : x >= y
    OBVIOUS
  <2>3. z \in Buckets /\ \A y \in Buckets : z >= y
    BY <1>7, <2>2
  <2> QED BY <2>1, <2>2, <2>3
<1> QED BY <1>8, GraphAssumption

\* A batch that fits has a bucket, which holds it.
LEMMA BucketHolds ==
    ASSUME NEW B \in Nat, Fits(B)
    PROVE  /\ Bucket(B) \in Buckets /\ Bucket(B) \in Nat \ {0} /\ B <= Bucket(B)
           /\ Bucket(B) <= Max(Buckets) /\ Max(Buckets) \in Nat
<1> DEFINE T == {b \in Buckets : b >= B}
<1>1. T \subseteq Nat /\ T # {}
  BY GraphAssumption DEF Fits
<1>2. PICK m \in T : \A k \in T : m <= k
  BY <1>1, NatLeast
<1>3. \E b \in Buckets : b >= B /\ \A c \in Buckets : c >= B => b <= c
  BY <1>2
<1>4. PICK b : b = Bucket(B)
  OBVIOUS
<1>5. b \in Buckets /\ b >= B
  BY <1>3, <1>4 DEF Bucket
<1> QED BY <1>4, <1>5, GraphAssumption, LargestBucket

\* Rows of n columns fit the buffer of the largest bucket.
LEMMA RowsFitBuffer ==
    ASSUME NEW B \in Nat, Fits(B), NEW n \in Nat \ {0}
    PROVE  /\ B * n \in Nat /\ Bucket(B) * n \in Nat \ {0} /\ Max(Buckets) * n \in Nat
           /\ B * n <= Bucket(B) * n /\ Bucket(B) * n <= Max(Buckets) * n
           /\ (Bucket(B) - B) * n \in Nat
           /\ B * n + ((Bucket(B) - B) * n) = Bucket(B) * n
<1>1. PICK b \in Nat \ {0} : b = Bucket(B)
  BY BucketHolds
<1>2. PICK m \in Nat : m = Max(Buckets)
  BY BucketHolds
<1>3. B <= b /\ b <= m
  BY <1>1, <1>2, BucketHolds
<1>4. PICK d \in Nat : d = b - B
  BY <1>3
<1>5. PICK e \in Nat : e = m - b
  BY <1>3
<1>6. B * n \in Nat /\ d * n \in Nat /\ e * n \in Nat /\ b * n \in Nat /\ m * n \in Nat
  OBVIOUS
<1>7. b = B + d /\ m = b + e
  BY <1>4, <1>5
<1>8. b * n = B * n + d * n
  BY <1>7
<1>9. m * n = b * n + e * n
  BY <1>7
<1>10. b * n # 0
  OBVIOUS
<1> QED BY <1>1, <1>2, <1>4, <1>6, <1>8, <1>9, <1>10

\* Every place of a batch is among its rows.
LEMMA PlaceWithin ==
    ASSUME NEW B \in Nat, NEW n \in Nat \ {0}, NEW b \in 1 .. B, NEW i \in 1 .. n
    PROVE  (b - 1) * n + i \in 1 .. (B * n)
<1>1. PICK k \in Nat : k = b - 1 /\ k < B
  OBVIOUS
<1>2. PICK d \in Nat : B = k + 1 + d
  <2>1. B - (k + 1) \in Nat /\ B = k + 1 + (B - (k + 1))
    BY <1>1
  <2> QED BY <2>1
<1>3. B * n = k * n + n + d * n /\ k * n \in Nat /\ d * n \in Nat
  BY <1>2
<1>4. k * n + i \in Nat /\ 1 <= k * n + i /\ k * n + i <= B * n /\ B * n \in Nat
  BY <1>3
<1>5. k * n + i \in 1 .. (B * n)
  BY <1>4
<1> QED BY <1>1, <1>5

\* ... and in the buffer, if the batch fits.
LEMMA PlaceFits ==
    ASSUME NEW B \in Nat, Fits(B), NEW n \in Nat \ {0}, NEW b \in 1 .. B, NEW i \in 1 .. n
    PROVE  (b - 1) * n + i \in 1 .. (Max(Buckets) * n)
<1>1. PICK p \in Nat : p = B * n
  OBVIOUS
<1>2. PICK m \in Nat : m = Max(Buckets) * n /\ p <= m
  <2>1. /\ B * n \in Nat /\ Bucket(B) * n \in Nat /\ Max(Buckets) * n \in Nat
        /\ B * n <= Bucket(B) * n /\ Bucket(B) * n <= Max(Buckets) * n
    BY RowsFitBuffer
  <2> QED BY <1>1, <2>1
<1>3. (b - 1) * n + i \in 1 .. p
  BY <1>1, PlaceWithin
<1>4. \A r \in 1 .. p : r \in 1 .. m
  BY <1>2
<1> QED BY <1>2, <1>3, <1>4

\* A padded batch: its rows, and pad rows up to its bucket.
PaddedRows(rows, call, B, n) ==
    /\ DOMAIN rows = 1 .. (Bucket(B) * n) /\ Len(rows) = Bucket(B) * n /\ rows # << >>
    /\ \A r \in 1 .. (Bucket(B) * n) : rows[r] = PadName(call, n, B, r)

\* Padding keeps the rows in their places.
LEMMA PaddedLaid ==
    ASSUME NEW g, NEW call, NEW B \in Nat, Fits(B), R(g) \in Nat \ {0}
    PROVE  PaddedRows(Padded(g, call, B, Bucket(B)), call, B, R(g))
<1>1. PICK n \in Nat \ {0} : n = R(g)
  OBVIOUS
<1>2. PICK p \in Nat : p = B * n
  BY RowsFitBuffer
<1>3. PICK d \in Nat : d = (Bucket(B) - B) * n
  BY RowsFitBuffer
<1>4. Bucket(B) * n = p + d /\ p + d # 0
  BY <1>2, <1>3, RowsFitBuffer
<1>5. PICK rows : rows = RowsOf(call, All(B, n))
  OBVIOUS
<1>6. EvenRows(rows, call, B, n)
  BY <1>5, EvenLaid
<1> DEFINE X == Names(call) \cup {Pad}
<1>7. PICK s \in Seq(X) : s = rows
  BY <1>6 DEF EvenRows
<1>8. PICK q \in Seq(X) : q = All(d, Pad)
  <2>1. Pad \in X
    OBVIOUS
  <2> HIDE DEF X
  <2>2. [i \in 1 .. d |-> Pad] \in Seq(X)
    BY <2>1
  <2> QED BY <2>2 DEF All
<1>9. Len(s) = p /\ \A r \in 1 .. p : s[r] = NameAt(call, n, r)
  BY <1>2, <1>6, <1>7 DEF EvenRows
<1>10. Len(q) = d /\ \A r \in 1 .. d : q[r] = Pad
  BY <1>8 DEF All
<1>11. Padded(g, call, B, Bucket(B)) = s \o q
  BY <1>1, <1>3, <1>5, <1>7, <1>8 DEF Padded
<1>12. s \o q \in Seq(X) /\ Len(s \o q) = p + d
  <2>1. s \o q \in Seq(X) /\ Len(s \o q) = Len(s) + Len(q)
    OBVIOUS
  <2> QED BY <1>9, <1>10, <2>1
<1>13. ASSUME NEW r \in 1 .. (p + d) PROVE (s \o q)[r] = PadName(call, n, B, r)
  <2>1. r \in 1 .. (Len(s) + Len(q))
    BY <1>9, <1>10
  <2>2. (s \o q)[r] = IF r <= Len(s) THEN s[r] ELSE q[r - Len(s)]
    BY <2>1
  <2>3. CASE r <= p
    BY <1>2, <1>9, <2>2, <2>3 DEF PadName
  <2>4. CASE ~(r <= p)
    <3>1. r - p \in 1 .. d
      BY <2>4
    <3> QED BY <1>2, <1>9, <1>10, <2>2, <2>4, <3>1 DEF PadName
  <2> QED BY <2>3, <2>4
<1>14. PICK t \in Seq(X) : t = s \o q
  BY <1>12
<1>15. DOMAIN t = 1 .. (p + d) /\ Len(t) = p + d /\ t # << >>
  BY <1>4, <1>12, <1>14
<1>16. \A r \in 1 .. (p + d) : t[r] = PadName(call, n, B, r)
  BY <1>13, <1>14
<1> QED BY <1>1, <1>4, <1>11, <1>14, <1>15, <1>16 DEF PaddedRows

----------------------------------------------------------------------------
(***************************************************************************)
(* What acceptance leaves.                                                 *)
(***************************************************************************)
\* A request that drafts has at least one row.
LEMMA DraftersHaveRows ==
    ASSUME NEW m \in Nat, NEW x, NEW rows \in [1 .. m -> 0 .. x]
    PROVE  Drafters(rows) \in Seq(Nat \ {0})
<1> DEFINE X == Seq(Nat \ {0})
           step == [k \in 1 .. m |-> [s \in X |-> IF rows[k] > 0 THEN Append(s, rows[k]) ELSE s]]
           all == CHOOSE f : f = [n \in 0 .. Len(rows) |->
                      IF n = 0 THEN << >>
                      ELSE IF rows[n] > 0 THEN Append(f[n - 1], rows[n]) ELSE f[n - 1]]
<1>0. \A k \in 1 .. m : rows[k] \in Nat
  <2> SUFFICES ASSUME NEW k \in 1 .. m PROVE rows[k] \in Nat
    OBVIOUS
  <2>1. rows[k] \in 0 .. x
    OBVIOUS
  <2> QED BY <2>1
<1>1. step \in [1 .. m -> [X -> X]]
  BY <1>0
<1>2. << >> \in X
  OBVIOUS
<1>3. PICK f \in [0 .. m -> X] : Iterates(f, m, << >>, step)
  <2> HIDE DEF step, X
  <2> QED BY <1>1, <1>2, Recursion
<1>4. ASSUME NEW k \in 0 .. m
      PROVE  f[k] = IF k = 0 THEN << >>
                    ELSE IF rows[k] > 0 THEN Append(f[k - 1], rows[k]) ELSE f[k - 1]
  <2>1. f[k] = IF k = 0 THEN << >> ELSE step[k][f[k - 1]]
    BY <1>3 DEF Iterates
  <2>2. k # 0 => k \in 1 .. m /\ k - 1 \in 0 .. m
    OBVIOUS
  <2>3. k # 0 => f[k - 1] \in X
    <3> HIDE DEF X
    <3> QED BY <1>3, <2>2
  <2>4. k # 0 => step[k][f[k - 1]] = IF rows[k] > 0 THEN Append(f[k - 1], rows[k]) ELSE f[k - 1]
    <3> HIDE DEF X
    <3> QED BY <2>2, <2>3
  <2> QED BY <2>1, <2>4, Zenon
<1>5. f = [n \in 0 .. m |-> IF n = 0 THEN << >>
                            ELSE IF rows[n] > 0 THEN Append(f[n - 1], rows[n]) ELSE f[n - 1]]
  BY <1>3, <1>4
<1>6. Len(rows) = m
  OBVIOUS
<1>7. all = [n \in 0 .. m |-> IF n = 0 THEN << >>
                              ELSE IF rows[n] > 0 THEN Append(all[n - 1], rows[n]) ELSE all[n - 1]]
  BY <1>5, <1>6
<1>8. Drafters(rows) = all[m]
  BY <1>6 DEF Drafters
<1>9. PICK g : g = all
  OBVIOUS
<1> HIDE DEF all
<1>10. g = [n \in 0 .. m |-> IF n = 0 THEN << >>
                             ELSE IF rows[n] > 0 THEN Append(g[n - 1], rows[n]) ELSE g[n - 1]]
  BY <1>7, <1>9
<1> DEFINE G == {k \in 0 .. m : g[k] \in X}
<1>11. 0 \in G
  <2>1. 0 \in 0 .. m
    OBVIOUS
  <2>2. g[0] = << >>
    BY <1>10, <2>1
  <2> QED BY <1>2, <2>1, <2>2
<1>12. ASSUME NEW k \in 0 .. (m - 1), k \in G PROVE k + 1 \in G
  <2>1. k + 1 \in 0 .. m /\ k + 1 \in 1 .. m /\ k + 1 # 0 /\ (k + 1) - 1 = k
    OBVIOUS
  <2>2. PICK s \in X : s = g[k]
    BY <1>12
  <2>3. g[k + 1] = IF rows[k + 1] > 0 THEN Append(s, rows[k + 1]) ELSE s
    BY <1>10, <2>1, <2>2
  <2>4. rows[k + 1] > 0 => rows[k + 1] \in Nat \ {0}
    BY <1>0, <2>1
  <2>5. rows[k + 1] > 0 => Append(s, rows[k + 1]) \in X
    BY <2>4
  <2> QED BY <2>1, <2>3, <2>5
<1>13. \A k \in 0 .. m : k \in G
  <2> HIDE DEF G
  <2> QED BY <1>11, <1>12, Induct
<1>14. m \in G
  BY <1>13
<1> QED BY <1>8, <1>9, <1>14

\* A flat list of one list is that list,
LEMMA FlatOfOne ==
    ASSUME NEW X, NEW s \in Seq(X)
    PROVE  Flat(<<s>>) = s
<1>1. <<s>> \in [1 .. 1 -> Seq(X)] /\ <<s>>[1] = s
  OBVIOUS
<1>2. PICK p \in [1 .. 1 -> Seq(X)] : p = <<s>> /\ p[1] = s
  BY <1>1
<1>3. PICK u : Joins(u, p, 1) /\ Flat(p) = u[1]
  BY FlatJoin
<1>4. 0 \in 0 .. 1 /\ 1 \in 0 .. 1 /\ 1 - 1 = 0 /\ 1 # 0
  OBVIOUS
<1>5. \A k \in 0 .. 1 : u[k] = IF k = 0 THEN << >> ELSE u[k - 1] \o p[k]
  BY <1>3 DEF Joins
<1>6. u[0] = << >> /\ u[1] = u[0] \o p[1]
  BY <1>4, <1>5
<1>7. << >> \o s = s
  OBVIOUS
<1> QED BY <1>2, <1>3, <1>6, <1>7

\* ... of two lists,
LEMMA FlatOfTwo ==
    ASSUME NEW X, NEW s \in Seq(X), NEW t \in Seq(X)
    PROVE  Flat(<<s, t>>) = s \o t
<1>1. <<s, t>> \in [1 .. 2 -> Seq(X)] /\ <<s, t>>[1] = s /\ <<s, t>>[2] = t
  OBVIOUS
<1>2. PICK p \in [1 .. 2 -> Seq(X)] : p = <<s, t>> /\ p[1] = s /\ p[2] = t
  BY <1>1
<1>3. PICK u : Joins(u, p, 2) /\ Flat(p) = u[2]
  <2>1. 2 \in Nat
    OBVIOUS
  <2> QED BY <2>1, FlatJoin
<1>4. 0 \in 0 .. 2 /\ 1 \in 0 .. 2 /\ 2 \in 0 .. 2 /\ 1 - 1 = 0 /\ 2 - 1 = 1 /\ 1 # 0 /\ 2 # 0
  OBVIOUS
<1>5. \A k \in 0 .. 2 : u[k] = IF k = 0 THEN << >> ELSE u[k - 1] \o p[k]
  BY <1>3 DEF Joins
<1>6. u[0] = << >> /\ u[1] = u[0] \o p[1] /\ u[2] = u[1] \o p[2]
  BY <1>4, <1>5
<1>7. << >> \o s = s
  OBVIOUS
<1> QED BY <1>2, <1>3, <1>6, <1>7

\* ... and of none.
LEMMA FlatOfNone == Flat(<< >>) = << >>
<1>1. << >> \in [1 .. 0 -> Seq({})]
  OBVIOUS
<1>2. PICK p \in [1 .. 0 -> Seq({})] : p = << >>
  BY <1>1
<1>3. PICK u : Joins(u, p, 0) /\ Flat(p) = u[0]
  BY FlatJoin
<1>4. u[0] = << >>
  BY <1>3 DEF Joins
<1> QED BY <1>2, <1>3, <1>4

----------------------------------------------------------------------------
(***************************************************************************)
(* The stream.                                                             *)
(***************************************************************************)
\* A runner has rows.
LEMMA RunnerRows ==
    ASSUME Host
    PROVE  /\ K \in Nat \ {0} /\ config.depth \in Nat
           /\ \A r \in RowCounts : r \in Nat \ {0}
           /\ \A g \in Runner : R(g) \in Nat \ {0}
           /\ config.depth > 0 => Draft \in Runner /\ Extend \in Runner
           /\ R(Draft) = K /\ R(Extend) = config.depth + 1
<1>1. config.depth \in Nat /\ config.topk \in Nat \ {0}
  BY GraphAssumption DEF Host
<1>2. PICK k \in Nat \ {0} : k = K
  BY <1>1 DEF K
<1>3. ASSUME NEW r \in RowCounts PROVE r \in Nat \ {0}
  <2>1. PICK d \in Nat : r = d * K + 1
    BY <1>1, <1>3 DEF RowCounts
  <2>2. d * k \in Nat
    OBVIOUS
  <2> QED BY <1>2, <2>1, <2>2
<1>4. R(Draft) = K /\ R(Extend) = config.depth + 1 /\ \A r : R(Verify(r)) = r
  BY DEF R, Draft, Extend, Verify
<1>5. ASSUME NEW g \in Runner PROVE R(g) \in Nat \ {0}
  <2>1. (\E r \in RowCounts : g = Verify(r)) \/ g = Draft \/ g = Extend
    BY <1>5 DEF Runner
  <2> QED BY <1>1, <1>2, <1>3, <1>4, <2>1
<1>6. config.depth > 0 => Draft \in Runner /\ Extend \in Runner
  BY <1>1 DEF Runner
<1> QED BY <1>1, <1>2, <1>3, <1>4, <1>5, <1>6

\* The rest of the stream once the device has taken its head.
LEMMA Taken ==
    ASSUME NEW CONSTANT x, Listed, Takes(x)
    PROVE  /\ Listed'
           /\ Len(stream) \in Nat \ {0} /\ DOMAIN stream = 1 .. Len(stream) /\ 1 \in DOMAIN stream
           /\ Len(stream') = Len(stream) - 1 /\ DOMAIN stream' = 1 .. (Len(stream) - 1)
           /\ Head(stream) = stream[1] /\ stream[1].op = x
           /\ \A j \in DOMAIN stream' : j + 1 \in DOMAIN stream /\ stream'[j] = stream[j + 1]
           /\ \A j \in DOMAIN stream : j # 1 => j - 1 \in DOMAIN stream' /\ stream'[j - 1] = stream[j]
<1>1. PICK X : stream \in Seq(X)
  BY DEF Listed
<1>2. PICK s \in Seq(X) : s = stream
  BY <1>1
<1>3. s # << >> /\ Head(s).op = x /\ stream' = Tail(s)
  BY <1>2 DEF Takes
<1>4. PICK t \in Seq(X) : t = Tail(s)
  BY <1>3
<1>5. Len(s) \in Nat \ {0} /\ DOMAIN s = 1 .. Len(s) /\ Head(s) = s[1]
  BY <1>3
<1>6. Len(t) = Len(s) - 1 /\ DOMAIN t = 1 .. (Len(s) - 1)
  BY <1>3, <1>4
<1>7. \A j \in 1 .. (Len(s) - 1) : t[j] = s[j + 1]
  BY <1>3, <1>4, <1>5
<1>8. stream' \in Seq(X)
  BY <1>3, <1>4
<1>9. Listed'
  BY <1>8 DEF Listed
<1>10. \A j \in DOMAIN t : j + 1 \in DOMAIN s /\ t[j] = s[j + 1]
  BY <1>5, <1>6, <1>7
<1>11. \A j \in DOMAIN s : j # 1 => j - 1 \in DOMAIN t /\ t[j - 1] = s[j]
  <2> SUFFICES ASSUME NEW j \in 1 .. Len(s), j # 1 PROVE j - 1 \in DOMAIN t /\ t[j - 1] = s[j]
    BY <1>5
  <2>1. j - 1 \in 1 .. (Len(s) - 1) /\ (j - 1) + 1 = j
    BY <1>5
  <2> QED BY <1>6, <1>7, <2>1
<1> QED BY <1>2, <1>3, <1>4, <1>5, <1>6, <1>9, <1>10, <1>11

\* Taking the head keeps the order of the rest.
LEMMA TakenInOrder ==
    ASSUME NEW CONSTANT x, Listed, InOrder, Takes(x)
    PROVE  InOrder' /\ No("copy")'
<1>1. /\ Len(stream) \in Nat \ {0} /\ Len(stream') = Len(stream) - 1
      /\ DOMAIN stream' = 1 .. (Len(stream) - 1)
      /\ \A j \in DOMAIN stream' : j + 1 \in DOMAIN stream /\ stream'[j] = stream[j + 1]
  BY Taken
<1>2. \A j \in DOMAIN stream' : j \in Nat \ {0}
  BY <1>1
<1>3. ASSUME NEW j \in DOMAIN stream' PROVE stream'[j].op # "copy" /\ stream'[j].op \in Ops
  <2>1. j + 1 \in DOMAIN stream /\ stream'[j] = stream[j + 1] /\ j + 1 # 1
    BY <1>1, <1>2
  <2> QED BY <2>1 DEF InOrder
<1>4. ASSUME NEW j \in DOMAIN stream', NEW k \in DOMAIN stream', stream'[j].op = "replay"
      PROVE  /\ stream'[k].op = "replay" => k = j
             /\ stream'[k].op = "hidden" => k = j - 1
  <2>1. /\ j + 1 \in DOMAIN stream /\ stream'[j] = stream[j + 1]
        /\ k + 1 \in DOMAIN stream /\ stream'[k] = stream[k + 1]
    BY <1>1
  <2>2. /\ stream[k + 1].op = "replay" => k + 1 = j + 1
        /\ stream[k + 1].op = "hidden" => k + 1 = (j + 1) - 1
    BY <1>4, <2>1 DEF InOrder
  <2>3. j \in Nat /\ k \in Nat
    BY <1>2
  <2> QED BY <2>1, <2>2, <2>3
<1>5. ASSUME NEW j \in DOMAIN stream', stream'[j].op \in {"gather", "cat"} PROVE j = Len(stream')
  <2>1. j + 1 = Len(stream)
    BY <1>1, <1>5 DEF InOrder
  <2> QED BY <1>1, <1>2, <2>1
<1> QED BY <1>3, <1>4, <1>5 DEF InOrder, No

\* Nothing new is in the rest.
LEMMA TakenNo ==
    ASSUME NEW CONSTANT x, NEW CONSTANT y, Listed, Takes(x)
    PROVE  /\ No(y) => No(y)'
           /\ x # y /\ No(y)' => No(y)
<1>1. No(y) => No(y)'
  BY Taken DEF No
<1>2. ASSUME x # y, No(y)', NEW j \in DOMAIN stream PROVE stream[j].op # y
  <2>1. CASE j = 1
    BY <1>2, <2>1, Taken
  <2>2. CASE j # 1
    <3>1. j - 1 \in DOMAIN stream' /\ stream'[j - 1] = stream[j]
      BY <2>2, Taken
    <3> QED BY <1>2, <3>1 DEF No
  <2> QED BY <2>1, <2>2
<1> QED BY <1>1, <1>2 DEF No

\* What is appended comes last.
LEMMA Appended ==
    ASSUME NEW o, Listed, stream' = Append(stream, o)
    PROVE  /\ Listed'
           /\ Len(stream) \in Nat /\ DOMAIN stream = 1 .. Len(stream)
           /\ Len(stream') = Len(stream) + 1 /\ DOMAIN stream' = 1 .. (Len(stream) + 1)
           /\ \A j \in DOMAIN stream : j \in DOMAIN stream' /\ stream'[j] = stream[j]
           /\ stream'[Len(stream) + 1] = o
<1>1. PICK X : stream \in Seq(X)
  BY DEF Listed
<1> DEFINE Y == X \cup {o}
<1>2. \A x \in X : x \in Y
  OBVIOUS
<1>3. o \in Y
  OBVIOUS
<1> HIDE DEF Y
<1>4. PICK s \in Seq(Y) : s = stream
  BY <1>1, <1>2
<1>5. PICK t \in Seq(Y) : t = Append(s, o)
  <2>1. Append(s, o) \in Seq(Y)
    BY <1>3
  <2> QED BY <2>1
<1>6. Len(t) = Len(s) + 1 /\ DOMAIN t = 1 .. (Len(s) + 1) /\ DOMAIN s = 1 .. Len(s) /\ Len(s) \in Nat
  BY <1>3, <1>5
<1>7. \A j \in 1 .. Len(s) : t[j] = s[j]
  BY <1>3, <1>5
<1>8. t[Len(s) + 1] = o
  BY <1>3, <1>5
<1>9. stream' \in Seq(Y)
  BY <1>4, <1>5
<1>10. Listed'
  BY <1>9 DEF Listed
<1> QED BY <1>4, <1>5, <1>6, <1>7, <1>8, <1>10

----------------------------------------------------------------------------
(***************************************************************************)
(* Loading and replaying.                                                  *)
(***************************************************************************)
ReplayOp(g, call, B) ==
    [op |-> "replay", runner |-> g, bs |-> Bucket(B), call |-> call, batch |-> B, up |-> up]

\* The stream after a call of the runner.
Loaded(c, op, o) ==
    /\ Listed' /\ stream'[1] = c
    /\ o = None => Len(stream') = 2 /\ stream'[2] = op
    /\ o # None => /\ Len(stream') = 3 /\ stream'[3] = op
                   /\ stream'[2] = HiddenCopy(op.runner, 0, o)

\* A call of the runner enqueues a copy that brings the rows of its replay.
LEMMA RunLoads ==
    ASSUME Sized, Host, NEW g \in Runner, NEW call, NEW B \in Nat, Fits(B), NEW o,
           Run(g, call, B, o), config' = config, NEW op, op = ReplayOp(g, call, B)
    PROVE  \E c : /\ c.op = "copy" /\ Loads(c, op)' /\ Loaded(c, op, o)
                  /\ DOMAIN stage' = Runner /\ \A f \in Runner : DOMAIN stage'[f] = 1 .. MaxRows(f)
<1> DEFINE rows == Padded(g, call, B, Bucket(B))
           c == [op |-> "copy", runner |-> g, rows |-> IF Len(rows) = MaxRows(g) THEN << >> ELSE rows]
<1>1. R(g) \in Nat \ {0}
  BY RunnerRows
<1>2. PICK t : t = rows
  OBVIOUS
<1>3. PaddedRows(t, call, B, R(g))
  BY <1>1, <1>2, PaddedLaid
<1>4. PICK n \in Nat \ {0} : n = Bucket(B) * R(g)
  BY <1>1, RowsFitBuffer
<1>5. PICK m \in Nat : m = MaxRows(g) /\ n <= m
  BY <1>1, <1>4, RowsFitBuffer DEF MaxRows
<1>6. DOMAIN t = 1 .. n /\ Len(t) = n /\ t # << >>
      /\ \A r \in 1 .. n : t[r] = PadName(call, R(g), B, r)
  BY <1>3, <1>4 DEF PaddedRows
<1>7. stage' = [stage EXCEPT ![g] = Overwrite(@, 0, t)]
  BY <1>2 DEF Run
<1>8. DOMAIN stage'[g] = 1 .. m /\ \A r \in 1 .. n : stage'[g][r] = t[r]
  <2>1. stage'[g] = Overwrite(stage[g], 0, t) /\ DOMAIN stage[g] = 1 .. m
    BY <1>5, <1>7 DEF Sized
  <2>2. \A r \in 1 .. n : r \in 1 .. m /\ r - 0 = r
    BY <1>5
  <2> QED BY <1>6, <2>1, <2>2 DEF Overwrite
<1>9. DOMAIN stage' = Runner /\ \A f \in Runner : DOMAIN stage'[f] = 1 .. MaxRows(f)
  <2>1. \A f \in Runner : f # g => stage'[f] = stage[f]
    BY <1>7 DEF Sized
  <2> QED BY <1>5, <1>7, <1>8, <2>1 DEF Sized
<1>10. PICK d : d = c
  OBVIOUS
<1>11. d.op = "copy" /\ d.runner = g /\ d.rows = IF Len(t) = MaxRows(g) THEN << >> ELSE t
  BY <1>2, <1>10
<1>0. op.runner = g /\ op.call = call /\ op.batch = B /\ op.bs * R(op.runner) = n
  BY <1>4 DEF ReplayOp
<1>12. Loads(d, op)'
  <2>1. Brought(d)' = IF d.rows = << >> THEN stage'[g] ELSE d.rows
    BY <1>11 DEF Brought
  <2>2. \A r \in 1 .. n : r \in DOMAIN Brought(d)' /\ Brought(d)'[r] = PadName(call, R(g), B, r)
    <3>1. CASE Len(t) = MaxRows(g)
      <4>1. Brought(d)' = stage'[g]
        BY <1>11, <2>1, <3>1
      <4>2. \A r \in 1 .. n : r \in 1 .. m
        BY <1>5
      <4> QED BY <1>6, <1>8, <4>1, <4>2
    <3>2. CASE Len(t) # MaxRows(g)
      BY <1>6, <1>11, <2>1, <3>2
    <3> QED BY <3>1, <3>2
  <2>3. R(g)' = R(g)
    BY DEF R
  <2> QED BY <1>0, <1>11, <2>2, <2>3 DEF Loads
<1>13. Loaded(d, op, o)
  <2>1. stream' = <<c>> \o (IF o = None THEN << >> ELSE <<HiddenCopy(g, 0, o)>>) \o <<op>>
    BY DEF Run, ReplayOp
  <2> HIDE DEF c
  <2>2. PICK k : k = HiddenCopy(g, 0, o)
    OBVIOUS
  <2>3. stream' = <<d>> \o (IF o = None THEN << >> ELSE <<k>>) \o <<op>>
    BY <1>10, <2>1, <2>2
  <2> DEFINE X == {d, k, op}
  <2>4. <<d>> \in Seq(X) /\ << >> \in Seq(X) /\ <<k>> \in Seq(X) /\ <<op>> \in Seq(X)
    OBVIOUS
  <2> HIDE DEF X
  <2>5. PICK q \in Seq(X) : q = IF o = None THEN << >> ELSE <<k>>
    BY <2>4
  <2>6. PICK p \in Seq(X) : p = <<d>> \o q
    BY <2>4, ConcatProperties
  <2>7. Len(<<d>>) = 1 /\ <<d>>[1] = d /\ Len(<<op>>) = 1 /\ <<op>>[1] = op
    OBVIOUS
  <2>8. Len(p) = 1 + Len(q) /\ Len(q) \in Nat /\ p[1] = d /\ (Len(q) = 1 => p[2] = q[1])
    BY <2>4, <2>6, <2>7, ConcatProperties
  <2>9. Len(q) = IF o = None THEN 0 ELSE 1
    BY <2>5
  <2>10. o # None => q[1] = k
    BY <2>5
  <2>11. PICK w \in Seq(X) : w = p \o <<op>>
    BY <2>4, ConcatProperties
  <2>12. Len(w) = Len(p) + 1 /\ w[Len(p) + 1] = op /\ \A i \in 1 .. Len(p) : w[i] = p[i]
    BY <2>4, <2>7, <2>11, ConcatProperties
  <2>13. stream' = w
    BY <2>3, <2>5, <2>6, <2>11
  <2>14. Listed'
    BY <2>13 DEF Listed
  <2> QED BY SMTT(30), <1>0, <2>2, <2>8, <2>9, <2>10, <2>12, <2>13, <2>14 DEF Loaded
<1> QED BY <1>9, <1>11, <1>12, <1>13

\* Everything a call of the runner enqueues is in order and ready.
LEMMA RunKeeps ==
    ASSUME Sized, Host, NEW g \in Runner, NEW call, NEW B \in Nat, Fits(B), NEW o,
           Run(g, call, B, o), config' = config, UNCHANGED <<inputs, hidden, outputs>>,
           NEW op, op = ReplayOp(g, call, B), NEW hc, hc = HiddenCopy(g, 0, o),
           o = None => HiddenAreIts(op)',
           o # None => Feeds(hc, op)'
    PROVE  /\ Sized' /\ Streamed'
           /\ stream = << >> /\ ~No("replay")'
           /\ \A j \in DOMAIN stream' : stream'[j].op = "replay" => stream'[j] = op
           /\ No("gather")' /\ No("cat")' /\ (o = None => No("hidden")')
<1>1. PICK c : /\ c.op = "copy" /\ Loads(c, op)' /\ Loaded(c, op, o)
               /\ DOMAIN stage' = Runner /\ \A f \in Runner : DOMAIN stage'[f] = 1 .. MaxRows(f)
  BY RunLoads
<1>3. op.op = "replay" /\ op.runner = g /\ op.batch = B /\ op.bs = Bucket(B)
  BY DEF ReplayOp
<1>4. Runner' = Runner /\ \A f : MaxRows(f)' = MaxRows(f)
  BY DEF Runner, RowCounts, K, Draft, Extend, MaxRows, Verify, R
<1>5. Sized'
  BY <1>1, <1>4 DEF Sized
<1>6. stream = << >>
  BY DEF Run, Planned
<1>7. CASE o = None
  <2>2. Listed' /\ Len(stream') = 2 /\ stream'[1] = c /\ stream'[2] = op
    BY <1>1, <1>7 DEF Loaded
  <2>3. DOMAIN stream' = 1 .. 2
    BY <2>2 DEF Listed
  <2>4. \A j \in DOMAIN stream' : (j = 1 /\ stream'[j] = c) \/ (j = 2 /\ stream'[j] = op)
    BY <2>2, <2>3
  <2>5. InOrder'
    BY <1>1, <1>3, <2>2, <2>3, <2>4 DEF InOrder, Ops
  <2>6. Legal'
    BY <1>1, <1>3, <1>4, <2>4 DEF Legal
  <2>7. InputsReady'
    BY <1>1, <1>3, <2>2, <2>3, <2>4 DEF InputsReady
  <2>8. HiddenReady'
    <3>1. HiddenAreIts(op)'
      BY <1>7
    <3>2. stream'[1].op # "hidden"
      BY <1>1, <2>2, <2>3
    <3> QED BY <1>1, <1>3, <2>2, <2>3, <2>4, <3>1, <3>2 DEF HiddenReady
  <2> QED BY <1>1, <1>3, <1>5, <1>6, <1>7, <2>2, <2>3, <2>4, <2>5, <2>6, <2>7, <2>8
          DEF Streamed, No
<1>8. CASE o # None
  <2>1. hc.op = "hidden"
    BY DEF HiddenCopy
  <2>2. Listed' /\ Len(stream') = 3 /\ stream'[1] = c /\ stream'[2] = hc /\ stream'[3] = op
    BY <1>1, <1>3, <1>8 DEF Loaded
  <2>3. DOMAIN stream' = 1 .. 3
    BY <2>2 DEF Listed
  <2>4. \A j \in DOMAIN stream' : \/ j = 1 /\ stream'[j] = c
                                  \/ j = 2 /\ stream'[j] = hc
                                  \/ j = 3 /\ stream'[j] = op
    BY <2>2, <2>3
  <2>5. InOrder'
    BY <1>1, <1>3, <2>1, <2>2, <2>3, <2>4 DEF InOrder, Ops
  <2>6. Legal'
    BY <1>1, <1>3, <1>4, <2>1, <2>4 DEF Legal
  <2>7. InputsReady'
    BY <1>1, <1>3, <2>1, <2>2, <2>3, <2>4 DEF InputsReady
  <2>8. HiddenReady'
    <3>1. Feeds(hc, op)'
      BY <1>8
    <3>2. \A j \in DOMAIN stream' : stream'[j].op = "replay" =>
              stream'[j] = op /\ j > 1 /\ stream'[j - 1] = hc
      BY <1>1, <1>3, <2>1, <2>2, <2>3, <2>4
    <3> QED BY <2>1, <3>1, <3>2 DEF HiddenReady
  <2> QED BY <1>1, <1>3, <1>5, <1>6, <1>8, <2>1, <2>2, <2>3, <2>4, <2>5, <2>6, <2>7, <2>8
          DEF Streamed, No
<1> QED BY <1>7, <1>8

----------------------------------------------------------------------------
(***************************************************************************)
(* The device's steps.                                                     *)
(***************************************************************************)
\* What no step of the device changes.
Untouched == UNCHANGED <<config, pc, running, new, outs, alive, level, up, hid, stage>>

\* The constants of a configuration.
SameConfig ==
    /\ Runner' = Runner /\ K' = K /\ RowCounts' = RowCounts
    /\ Draft' = Draft /\ Extend' = Extend /\ Drafting' = Drafting

\* The device changes no plan of the host's.
LEMMA DeviceKeepsHost ==
    ASSUME Host, Untouched
    PROVE  /\ Host' /\ SameConfig
           /\ \A g : MaxRows(g)' = MaxRows(g) /\ R(g)' = R(g)
           /\ \A lens : Captured(lens)' = Captured(lens)
           /\ \A call, lens : Out(call, lens)' = Out(call, lens)
           /\ Extends' = Extends
           /\ Verifying' = Verifying /\ Drafts' = Drafts
<1>1. SameConfig
  BY DEF Untouched, SameConfig, Runner, RowCounts, K, Draft, Extend, Drafting, Verify
<1>2. Host'
  BY <1>1 DEF Untouched, SameConfig, Host, Drafts, Verifying
<1>3. \A g : MaxRows(g)' = MaxRows(g) /\ R(g)' = R(g)
  BY DEF MaxRows, R
<1>4. \A lens : Captured(lens)' = Captured(lens)
  BY <1>1 DEF Captured, CanRun, SameConfig, Fits, R, Verify
<1>5. \A call, lens : Out(call, lens)' = Out(call, lens)
  BY <1>4 DEF Out, View, Fresh, RowsOf, Bucket, R, Verify
<1>6. Extends' = Extends
  BY <1>1 DEF Extends, Untouched, SameConfig, Fits, R
<1> QED BY <1>1, <1>2, <1>3, <1>4, <1>5, <1>6 DEF Untouched, Verifying, Drafts

\* The replays left can still be made.
LEMMA TakenLegal ==
    ASSUME NEW CONSTANT x, Host, Listed, Legal, Takes(x), Untouched
    PROVE  Legal'
<1>1. SameConfig
  BY DeviceKeepsHost
<1>2. ASSUME NEW j \in DOMAIN stream', stream'[j].op = "replay"
      PROVE  /\ stream'[j].runner \in Runner' /\ stream'[j].batch \in Nat
             /\ Fits(stream'[j].batch) /\ stream'[j].bs = Bucket(stream'[j].batch)
  <2>1. j + 1 \in DOMAIN stream /\ stream'[j] = stream[j + 1]
    BY Taken
  <2>2. PICK op : op = stream[j + 1]
    OBVIOUS
  <2>3. op.runner \in Runner /\ op.batch \in Nat /\ Fits(op.batch) /\ op.bs = Bucket(op.batch)
    BY <1>2, <2>1, <2>2 DEF Legal
  <2> QED BY <1>1, <2>1, <2>2, <2>3 DEF SameConfig
<1> QED BY <1>2 DEF Legal, Fits, Bucket

\* An output that is not written stays as served.
LEMMA TakenServes ==
    ASSUME NEW CONSTANT x, x # "replay", Host, Listed, Takes(x), Untouched, outputs' = outputs,
           NEW CONSTANT g, NEW CONSTANT call, NEW CONSTANT B, Serves(g, call, B)
    PROVE  Serves(g, call, B)'
<1>1. R(g)' = R(g) /\ Bucket(B)' = Bucket(B)
  BY DEF R, Bucket
<1>2. No("replay")' => No("replay")
  BY TakenNo
<1>3. ASSUME NEW j \in DOMAIN stream', stream'[j].op = "replay"
      PROVE  stream'[j].runner = g /\ stream'[j].call = call /\ stream'[j].batch = B
  <2>1. j + 1 \in DOMAIN stream /\ stream'[j] = stream[j + 1]
    BY Taken
  <2> QED BY <1>3, <2>1 DEF Serves
<1> QED BY <1>1, <1>2, <1>3 DEF Serves

\* When its replay runs, the output is there.
LEMMA ReplayServes ==
    ASSUME Sized, Host, Streamed, Replay,
           NEW CONSTANT g, NEW CONSTANT call, NEW CONSTANT B, Serves(g, call, B)
    PROVE  Serves(g, call, B)'
<1>1. /\ 1 \in DOMAIN stream /\ stream[1].op = "replay" /\ Head(stream) = stream[1]
      /\ DOMAIN stream' = 1 .. (Len(stream) - 1)
      /\ \A j \in DOMAIN stream' : j + 1 \in DOMAIN stream /\ stream'[j] = stream[j + 1]
  BY Taken DEF Replay, Streamed
<1>2. PICK op : op = stream[1]
  OBVIOUS
<1>3. op.runner = g /\ op.call = call /\ op.batch = B
  BY <1>1, <1>2 DEF Serves
<1>4. g \in Runner /\ B \in Nat /\ Fits(B) /\ op.bs = Bucket(B)
  BY <1>1, <1>2, <1>3 DEF Streamed, Legal
<1>5. PICK n \in Nat \ {0} : n = R(g)
  BY <1>4, RunnerRows
<1>6. PICK b \in Nat : b = B * n
  BY <1>4
<1>7. PICK c \in Nat : c = Bucket(B) * n /\ b <= c
  BY <1>4, <1>6, RowsFitBuffer
<1>8. InputsAreIts(op)
  <2>1. stream[1].op # "copy"
    BY <1>1
  <2> QED BY <1>1, <1>2, <2>1 DEF Streamed, InputsReady
<1>9. \A r \in 1 .. b : inputs[g][r] = NameAt(call, n, r)
  <2> SUFFICES ASSUME NEW r \in 1 .. b PROVE inputs[g][r] = NameAt(call, n, r)
    OBVIOUS
  <2>1. r \in 1 .. c /\ r <= b
    BY <1>7
  <2>2. op.batch * R(op.runner) = b /\ op.bs * R(op.runner) = c /\ R(op.runner) = n
    BY <1>3, <1>4, <1>5, <1>6, <1>7
  <2> QED BY <1>3, <1>8, <2>1, <2>2 DEF InputsAreIts, NameAt
<1>10. outputs'[g][Bucket(B)] = Leading(inputs[g], c)
  <2>1. outputs' = [outputs EXCEPT ![g][Bucket(B)] = Leading(inputs[g], c)]
    BY <1>1, <1>2, <1>3, <1>4, <1>5, <1>7 DEF Replay
  <2>2. g \in DOMAIN outputs /\ Bucket(B) \in DOMAIN outputs[g]
    BY <1>4, BucketHolds DEF Sized
  <2> QED BY <2>1, <2>2
<1>11. \A r \in 1 .. b : outputs'[g][Bucket(B)][r] = NameAt(call, n, r)
  BY <1>7, <1>9, <1>10 DEF Leading
<1>12. R(g)' = n
  BY <1>5 DEF R
<1>13. No("replay")'
  <2>1. ASSUME NEW j \in DOMAIN stream', stream'[j].op = "replay" PROVE FALSE
    <3>1. j + 1 \in DOMAIN stream /\ stream[j + 1].op = "replay" /\ j \in Nat \ {0}
      BY <1>1, <2>1
    <3>2. j + 1 = 1
      BY <1>1, <3>1 DEF Streamed, InOrder
    <3> QED BY <3>1, <3>2
  <2> QED BY <2>1 DEF No
<1>14. \A j \in DOMAIN stream' : stream'[j].op # "replay"
  BY <1>13 DEF No
<1>15. \A r \in 1 .. (B * R(g)') : outputs'[g][Bucket(B)'][r] = NameAt(call, R(g)', r)
  BY <1>6, <1>11, <1>12 DEF Bucket
<1> QED BY <1>14, <1>15 DEF Serves, NameAt, Row

\* A copy brings the rows of the replay behind it.
LEMMA CopyKeepsStream ==
    ASSUME Sized, Host, Streamed, Copy
    PROVE  Sized' /\ Streamed'
<1>1. Takes("copy") /\ Listed /\ InOrder /\ Untouched
      /\ hidden' = hidden /\ outputs' = outputs /\ gathered' = gathered
  BY DEF Copy, Streamed, host, batch, drafts, Untouched
<1>2. /\ 1 \in DOMAIN stream /\ stream[1].op = "copy" /\ Head(stream) = stream[1] /\ Listed'
      /\ DOMAIN stream' = 1 .. (Len(stream) - 1) /\ Len(stream) \in Nat \ {0}
      /\ \A j \in DOMAIN stream' : j + 1 \in DOMAIN stream /\ stream'[j] = stream[j + 1]
  BY <1>1, Taken
<1>3. InOrder' /\ No("copy")'
  BY <1>1, TakenInOrder
<1>4. Legal'
  BY <1>1, TakenLegal DEF Streamed
<1>5. PICK c : c = stream[1]
  OBVIOUS
<1>6. inputs' = [inputs EXCEPT ![c.runner] = Overwrite(@, 0, Brought(c))]
  BY <1>2, <1>5 DEF Copy, Brought
<1>7. SameConfig /\ \A g : MaxRows(g)' = MaxRows(g) /\ R(g)' = R(g)
  BY <1>1, DeviceKeepsHost
<1>8. \A g \in Runner : DOMAIN inputs'[g] = DOMAIN inputs[g]
  BY <1>6 DEF Sized, Overwrite
<1>9. Sized'
  BY <1>1, <1>6, <1>7, <1>8 DEF Sized, SameConfig, Untouched
<1>10. ASSUME NEW j \in DOMAIN stream', stream'[j].op = "replay"
       PROVE  stream'[1].op # "copy" /\ InputsAreIts(stream[j])'
  <2>1. j + 1 \in DOMAIN stream /\ stream'[j] = stream[j + 1] /\ 1 \in DOMAIN stream'
    BY <1>2, <1>10
  <2>2. PICK op : op = stream[j + 1]
    OBVIOUS
  <2>3. Loads(c, op)
    BY <1>2, <1>5, <1>10, <2>1, <2>2 DEF Streamed, InputsReady
  <2>4. op.runner \in Runner /\ op.batch \in Nat /\ Fits(op.batch) /\ op.bs = Bucket(op.batch)
    BY <1>10, <2>1, <2>2 DEF Streamed, Legal
  <2>5. PICK n \in Nat \ {0} : n = R(op.runner)
    BY <2>4, RunnerRows
  <2>6. PICK m \in Nat : m = op.bs * n /\ m <= MaxRows(op.runner) /\ MaxRows(op.runner) \in Nat
    BY <2>4, <2>5, RowsFitBuffer DEF MaxRows
  <2>7. ASSUME NEW r \in 1 .. m
        PROVE  inputs'[op.runner][r] = PadName(op.call, n, op.batch, r)
    <3>1. r \in DOMAIN Brought(c) /\ Brought(c)[r] = PadName(op.call, n, op.batch, r)
          /\ c.runner = op.runner
      BY <2>3, <2>5, <2>6 DEF Loads
    <3>2. r \in DOMAIN inputs[op.runner] /\ r - 0 = r
      BY <2>4, <2>6 DEF Sized
    <3>3. inputs'[op.runner] = Overwrite(inputs[op.runner], 0, Brought(c))
      BY <1>6, <2>4, <3>1 DEF Sized
    <3> QED BY <3>1, <3>2, <3>3 DEF Overwrite
  <2>8. R(op.runner)' = n
    BY <2>5 DEF R
  <2>9. InputsAreIts(op)'
    BY <2>6, <2>7, <2>8 DEF InputsAreIts, PadName, NameAt
  <2>10. InputsAreIts(stream[j])'
    BY <2>1, <2>2, <2>9 DEF InputsAreIts
  <2> QED BY <1>3, <2>1, <2>10 DEF No
<1>11. InputsReady'
  BY <1>10 DEF InputsReady
<1>12. \A o : Contents(o)' = Contents(o)
  BY <1>1 DEF Contents
<1>13. ASSUME NEW j \in DOMAIN stream', stream'[j].op = "replay"
       PROVE  IF j > 1 /\ stream'[j - 1].op = "hidden" THEN Feeds(stream[j - 1], stream[j])'
              ELSE HiddenAreIts(stream[j])'
  <2>1. j \in Nat \ {0} /\ j + 1 \in DOMAIN stream /\ stream'[j] = stream[j + 1]
    BY <1>2, <1>13
  <2>2. PICK op : op = stream[j + 1]
    OBVIOUS
  <2>3. IF stream[j].op = "hidden" THEN Feeds(stream[j], op) ELSE HiddenAreIts(op)
    BY <1>13, <2>1, <2>2 DEF Streamed, HiddenReady
  <2>4. R(op.runner)' = R(op.runner) /\ alive' = alive
    BY <1>1 DEF R, Untouched
  <2>5. CASE j = 1
    <3>1. HiddenAreIts(op)
      BY <1>2, <2>3, <2>5
    <3>2. HiddenAreIts(stream[j])'
      BY <1>1, <2>1, <2>2, <2>4, <3>1 DEF HiddenAreIts, Belongs
    <3>3. ~(j > 1)
      BY <2>5
    <3> QED BY <3>2, <3>3
  <2>6. CASE j # 1
    <3>1. j - 1 \in DOMAIN stream' /\ (j - 1) + 1 = j
      BY <1>2, <1>13, <2>1, <2>6
    <3>2. stream'[j - 1] = stream[j]
      BY <1>2, <3>1
    <3>3. PICK hc : hc = stream[j]
      OBVIOUS
    <3>4. Contents(hc.from)' = Contents(hc.from)
      BY <1>12
    <3>5. Feeds(hc, op) => Feeds(hc, op)'
      BY <1>1, <2>4, <3>4 DEF Feeds, Belongs
    <3>6. HiddenAreIts(op) => HiddenAreIts(op)'
      BY <1>1, <2>4 DEF HiddenAreIts, Belongs
    <3>7. Feeds(hc, op)' => Feeds(stream[j - 1], stream[j])'
      BY <2>1, <2>2, <3>2, <3>3
    <3>8. HiddenAreIts(op)' => HiddenAreIts(stream[j])'
      BY <2>1, <2>2 DEF HiddenAreIts
    <3>9. j > 1
      BY <2>1, <2>6
    <3>10. CASE stream[j].op = "hidden"
      BY <2>2, <2>3, <3>2, <3>3, <3>5, <3>7, <3>9, <3>10
    <3>11. CASE stream[j].op # "hidden"
      BY <2>2, <2>3, <3>2, <3>6, <3>8, <3>11
    <3> QED BY <3>10, <3>11
  <2> QED BY <2>5, <2>6
<1>14. HiddenReady'
  BY <1>13 DEF HiddenReady
<1> QED BY <1>2, <1>3, <1>4, <1>9, <1>11, <1>14 DEF Streamed

\* A copy of hidden rows brings those of the replay behind it.
LEMMA HiddenKeepsStream ==
    ASSUME Sized, Host, Streamed, CopyHidden
    PROVE  Sized' /\ Streamed'
<1>1. Takes("hidden") /\ Listed /\ InOrder /\ Untouched
      /\ inputs' = inputs /\ outputs' = outputs /\ gathered' = gathered
  BY DEF CopyHidden, Streamed, host, batch, drafts, Untouched
<1>2. /\ 1 \in DOMAIN stream /\ stream[1].op = "hidden" /\ Head(stream) = stream[1] /\ Listed'
      /\ DOMAIN stream' = 1 .. (Len(stream) - 1) /\ Len(stream) \in Nat \ {0}
      /\ \A j \in DOMAIN stream' : j + 1 \in DOMAIN stream /\ stream'[j] = stream[j + 1]
  BY <1>1, Taken
<1>3. InOrder' /\ No("copy")'
  BY <1>1, TakenInOrder
<1>4. Legal'
  BY <1>1, TakenLegal DEF Streamed
<1>5. PICK c : c = stream[1]
  OBVIOUS
<1>6. hidden' = [hidden EXCEPT ![c.runner] = Overwrite(@, c.at, Contents(c.from))]
  BY <1>2, <1>5 DEF CopyHidden
<1>7. SameConfig /\ \A g : MaxRows(g)' = MaxRows(g) /\ R(g)' = R(g)
  BY <1>1, DeviceKeepsHost
<1>8. \A g \in Runner : DOMAIN hidden'[g] = DOMAIN hidden[g]
  BY <1>6 DEF Sized, Overwrite
<1>9. Sized'
  BY <1>1, <1>6, <1>7, <1>8 DEF Sized, SameConfig, Untouched
<1>10. ASSUME NEW j \in DOMAIN stream', stream'[j].op = "replay"
       PROVE  /\ stream'[1].op # "copy" /\ InputsAreIts(stream[j])'
              /\ ~(j > 1) /\ HiddenAreIts(stream[j])'
  <2>1. j + 1 \in DOMAIN stream /\ stream'[j] = stream[j + 1] /\ j \in Nat \ {0} /\ 1 \in DOMAIN stream'
    BY <1>2, <1>10
  <2>2. PICK op : op = stream[j + 1]
    OBVIOUS
  <2>3. j = 1
    <3>1. 1 = (j + 1) - 1
      BY <1>1, <1>2, <1>10, <2>1 DEF InOrder
    <3> QED BY <2>1, <3>1
  <2>4. InputsAreIts(op)
    BY <1>2, <1>10, <2>1, <2>2 DEF Streamed, InputsReady
  <2>5. R(op.runner)' = R(op.runner) /\ alive' = alive
    BY <1>1 DEF R, Untouched
  <2>6. InputsAreIts(op)'
    BY <1>1, <2>4, <2>5 DEF InputsAreIts
  <2>7. Feeds(c, op)
    BY <1>2, <1>5, <1>10, <2>1, <2>2, <2>3 DEF Streamed, HiddenReady
  <2>8. op.runner \in Runner /\ op.batch \in Nat /\ Fits(op.batch)
    BY <1>10, <2>1, <2>2 DEF Streamed, Legal
  <2>9. PICK n \in Nat \ {0} : n = R(op.runner)
    BY <2>8, RunnerRows
  <2>10. PICK rows : rows = Contents(c.from)
    OBVIOUS
  <2>11. hidden'[op.runner] = Overwrite(hidden[op.runner], 0, rows)
    BY <1>6, <2>7, <2>8, <2>10 DEF Feeds, Sized
  <2>12. \A b \in 1 .. op.batch, i \in 1 .. n :
             /\ (b - 1) * n + i \in DOMAIN rows
             /\ Belongs(rows[(b - 1) * n + i], op, b, i)
    BY <2>7, <2>9, <2>10 DEF Feeds
  <2>13. ASSUME NEW b \in 1 .. op.batch, NEW i \in 1 .. n
         PROVE  Belongs(hidden'[op.runner][(b - 1) * n + i], op, b, i)
    <3>1. (b - 1) * n + i \in 1 .. MaxRows(op.runner)
      BY <2>8, <2>9, PlaceFits DEF MaxRows
    <3>2. PICK p \in 1 .. MaxRows(op.runner) : p = (b - 1) * n + i
      BY <3>1
    <3>3. p \in DOMAIN hidden[op.runner] /\ p - 0 = p
      <4>1. DOMAIN hidden[op.runner] = 1 .. MaxRows(op.runner)
        BY <2>8 DEF Sized
      <4> QED BY <4>1
    <3>4. hidden'[op.runner][p] = rows[p]
      BY <2>11, <2>12, <3>2, <3>3 DEF Overwrite
    <3> QED BY <2>12, <3>2, <3>4
  <2>14. HiddenAreIts(op)'
    <3>1. \A b \in 1 .. op.batch, i \in 1 .. n :
              Belongs(hidden[op.runner][(b - 1) * n + i], op, b, i)'
      BY <2>5, <2>13 DEF Belongs
    <3>2. R(op.runner)' = n
      BY <2>5, <2>9
    <3> QED BY <3>1, <3>2 DEF HiddenAreIts
  <2>15. InputsAreIts(stream[j])' /\ HiddenAreIts(stream[j])'
    <3>1. InputsAreIts(stream[j])'
      BY <2>1, <2>2, <2>6 DEF InputsAreIts
    <3>2. HiddenAreIts(stream[j])'
      BY <2>1, <2>2, <2>14 DEF HiddenAreIts
    <3> QED BY <3>1, <3>2
  <2> QED BY <1>3, <2>1, <2>3, <2>15 DEF No
<1>11. InputsReady'
  BY <1>10 DEF InputsReady
<1>12. HiddenReady'
  BY <1>10 DEF HiddenReady
<1> QED BY <1>2, <1>3, <1>4, <1>9, <1>11, <1>12 DEF Streamed

\* Behind a replay, or at the end, nothing is left to be ready.
LEMMA LastKeepsStream ==
    ASSUME NEW CONSTANT x \in {"replay", "gather", "cat"},
           Host, Listed, InOrder, Legal, Takes(x), Untouched
    PROVE  Streamed' /\ No("replay")' /\ (x # "replay" => stream' = << >>)
<1>1. /\ 1 \in DOMAIN stream /\ stream[1].op = x /\ Listed'
      /\ Len(stream) \in Nat \ {0} /\ Len(stream') = Len(stream) - 1
      /\ DOMAIN stream' = 1 .. (Len(stream) - 1)
      /\ \A j \in DOMAIN stream' : j + 1 \in DOMAIN stream /\ stream'[j] = stream[j + 1]
  BY Taken
<1>2. InOrder' /\ Legal'
  BY TakenInOrder, TakenLegal
<1>3. x # "replay" => stream' = << >>
  <2>1. x # "replay" => 1 = Len(stream)
    BY <1>1 DEF InOrder
  <2>2. Len(stream) = 1 => Len(stream') = 0
    BY <1>1
  <2>3. Len(stream') = 0 => stream' = << >>
    <3>1. PICK X : stream' \in Seq(X)
      BY <1>1 DEF Listed
    <3> QED BY <3>1, EmptySeq
  <2> QED BY <2>1, <2>2, <2>3
<1>4. ASSUME NEW j \in DOMAIN stream', stream'[j].op = "replay" PROVE FALSE
  <2>1. j + 1 \in DOMAIN stream /\ stream[j + 1].op = "replay" /\ j \in Nat \ {0}
    BY <1>1, <1>4
  <2>2. x # "replay" => j \in {}
    BY <1>1, <1>3, <1>4
  <2>3. x = "replay" => j + 1 = 1
    BY <1>1, <2>1 DEF InOrder
  <2> QED BY <2>1, <2>2, <2>3
<1>5. No("replay")'
  BY <1>4 DEF No
<1>6. InputsReady' /\ HiddenReady'
  BY <1>4 DEF InputsReady, HiddenReady
<1> QED BY <1>1, <1>2, <1>3, <1>5, <1>6 DEF Streamed

\* The phases of a step, while the device works.
LEMMA PhasesKept ==
    ASSUME Host, Phases, Untouched, stream # << >>,
           \A g, call, B : Serves(g, call, B) => Serves(g, call, B)',
           \A y : No(y) => No(y)',
           pc = "accept" /\ ~Captured(new) => Scored',
           pc = "draft" /\ hid = Gathered /\ Nourished => Nourished',
           InExtend'
    PROVE  Phases'
<1>1. /\ SameConfig
      /\ \A lens : Captured(lens)' = Captured(lens)
      /\ \A call, lens : Out(call, lens)' = Out(call, lens)
      /\ Extends' = Extends /\ Verifying' = Verifying
  BY DeviceKeepsHost
<1>2. pc' = pc /\ running' = running /\ new' = new /\ outs' = outs /\ level' = level /\ hid' = hid
      /\ alive' = alive /\ up' = up /\ config' = config
  BY DEF Untouched
<1>3. pc \notin {"idle", "running", "extend"}
  BY DEF Phases, Drained
<1>4. Drained'
  BY <1>2, <1>3 DEF Drained
<1>5. InVerify'
  <2> SUFFICES ASSUME Verifying PROVE InVerify'
    BY <1>1 DEF InVerify
  <2>1. InVerify
    BY DEF Phases
  <2>2. PICK a : a = running
    OBVIOUS
  <2>3. PICK b : b = new
    OBVIOUS
  <2>4. Captured(a)' = Captured(a) /\ Captured(b)' = Captured(b)
    BY <1>1
  <2>5. (Captured(running)' <=> Captured(running)) /\ (Captured(new)' <=> Captured(new))
    BY <1>2, <2>2, <2>3, <2>4 DEF Captured
  <2>6. No("hidden")' /\ No("gather")' /\ (pc' # "accept" => No("cat")')
    BY <1>2, <2>1 DEF InVerify
  <2>7. ASSUME ~Captured(new) PROVE Forwarded'
    <3>0. Forwarded
      BY <2>1, <2>7 DEF InVerify
    <3>1. outs' = IF pc' = "new" THEN Out(RunningCall, running)'
                  ELSE Out(RunningCall, running)' \o Out(NewCall, new)'
      <4>1. outs' = IF pc' = "new" THEN Out(RunningCall, a)'
                    ELSE Out(RunningCall, a)' \o Out(NewCall, b)'
        BY <1>1, <1>2, <2>2, <2>3, <3>0 DEF Forwarded, RunningCall, NewCall
      <4> QED BY <1>2, <2>2, <2>3, <4>1 DEF Out, Captured
    <3>2. ASSUME Captured(running) PROVE Serves(Verify(running[1]), RunningCall, Len(running))'
      <4>1. PICK g : g = Verify(running[1])
        OBVIOUS
      <4>2. PICK B : B = Len(running)
        OBVIOUS
      <4>3. Serves(g, RunningCall, B)
        BY <3>0, <3>2, <4>1, <4>2 DEF Forwarded
      <4>4. Serves(g, RunningCall, B)'
        BY <4>3
      <4> QED BY <1>2, <4>1, <4>2, <4>4 DEF Serves, Verify, RunningCall
    <3>3. ~Captured(running) => No("copy")' /\ No("replay")'
      BY <3>0 DEF Forwarded
    <3>4. pc' = "accept" => Scored'
      BY <1>2, <2>7
    <3> QED BY <2>5, <3>1, <3>2, <3>3, <3>4 DEF Forwarded
  <2> QED BY <2>5, <2>6, <2>7 DEF InVerify
<1>6. PICK B : B = Drafting /\ B = Drafting'
  BY <1>1 DEF SameConfig
<1>7. ASSUME Serves(Extend, ExtendCall, Drafting) PROVE Serves(Extend, ExtendCall, Drafting)'
  <2>1. PICK g : g = Extend /\ g = Extend'
    BY <1>1 DEF SameConfig
  <2>2. Serves(g, ExtendCall, B)
    BY <1>6, <1>7, <2>1
  <2>3. Serves(g, ExtendCall, B)'
    BY <2>2
  <2> QED BY <1>6, <2>1, <2>3 DEF Serves, ExtendCall
<1>8. ASSUME Serves(Draft, LevelCall(level), Drafting) PROVE Serves(Draft, LevelCall(level), Drafting)'
  <2>1. PICK g : g = Draft /\ g = Draft'
    BY <1>1 DEF SameConfig
  <2>2. PICK l : l = level /\ l = level'
    BY <1>2
  <2>3. Serves(g, LevelCall(l), B)
    BY <1>6, <1>8, <2>1, <2>2
  <2>4. Serves(g, LevelCall(l), B)'
    BY <2>3
  <2> QED BY <1>6, <2>1, <2>2, <2>4 DEF Serves, LevelCall
<1>9. View(Draft, Drafting)' = View(Draft, Drafting) /\ Fits(Drafting)' = Fits(Drafting)
  BY <1>1 DEF SameConfig, View, Bucket, R, Fits
<1>10. Extended'
  BY <1>1, <1>2, <1>7 DEF Extended, Phases
<1>11. InLevel'
  BY <1>1, <1>2, <1>8, <1>9 DEF InLevel, Phases, SameConfig
<1>12. InDraft'
  <2> SUFFICES ASSUME pc = "draft" PROVE InDraft'
    BY <1>2 DEF InDraft
  <2>1. InDraft
    BY DEF Phases
  <2>2. hid = Gathered /\ Nourished => Nourished'
    OBVIOUS
  <2>3. Gathered' = Gathered /\ Fits(Drafting) /\ No("cat")'
    BY <2>1 DEF InDraft, Gathered
  <2>4. level = 0 => hid' = Gathered' /\ Extends' /\ Serves(Extend, ExtendCall, Drafting)' /\ Nourished'
    BY <1>1, <1>2, <1>7, <2>1, <2>2, <2>3 DEF InDraft
  <2>5. level > 0 => /\ Serves(Draft, LevelCall(level), Drafting)'
                     /\ IF K = 1 THEN hid' = View(Draft, Drafting)' /\ No("gather")'
                        ELSE hid' = Gathered' /\ Nourished'
    BY <1>2, <1>8, <1>9, <2>1, <2>2, <2>3 DEF InDraft
  <2>6. K' = K
    BY <1>1 DEF SameConfig
  <2> QED BY <1>2, <1>9, <2>3, <2>4, <2>5, <2>6 DEF InDraft
<1> QED BY <1>4, <1>5, <1>10, <1>11, <1>12 DEF Phases

\* What is served and what is fed are functions of what the device has left alone.
LEMMA PlansKept ==
    ASSUME Host, Untouched
    PROVE  /\ GatherOp' = GatherOp
           /\ gathered' = gathered => Nourish(gathered)' = Nourish(gathered)
           /\ RowsOf(RunningCall, running)' = RowsOf(RunningCall, running)
           /\ RowsOf(NewCall, new)' = RowsOf(NewCall, new)
<1>1. /\ SameConfig /\ alive' = alive /\ level' = level /\ up' = up /\ config' = config
      /\ running' = running /\ new' = new
  BY DeviceKeepsHost DEF Untouched
<1>2. GatherOp' = GatherOp
  BY <1>1 DEF SameConfig, GatherOp, Gather, View, Bucket, R, Spread, LastRow, ParentRow, K, Extend, Draft, Drafting
<1>3. gathered' = gathered => Nourish(gathered)' = Nourish(gathered)
  BY <1>1 DEF Nourish, Feed, K, Drafting, ExtendCall, LevelCall
<1>4. RowsOf(RunningCall, running)' = RowsOf(RunningCall, running)
  BY <1>1 DEF RowsOf, RunningCall
<1>5. RowsOf(NewCall, new)' = RowsOf(NewCall, new)
  BY <1>1 DEF RowsOf, NewCall
<1> QED BY <1>2, <1>3, <1>4, <1>5

\* What is about to be read stays so until the device gets to it.
LEMMA ReadersWait ==
    ASSUME NEW CONSTANT x, x \notin {"gather", "cat"}, Host, Listed, Takes(x), Untouched,
           gathered' = gathered, h' = h
    PROVE  (Scored => Scored') /\ (Nourished => Nourished')
<1>1. (No("cat")' <=> No("cat")) /\ (No("gather")' <=> No("gather"))
  BY TakenNo
<1>2. \A j \in DOMAIN stream' : j + 1 \in DOMAIN stream /\ stream'[j] = stream[j + 1]
  BY Taken
<1>3. Scored => Scored'
  <2>1. outs' = outs
    BY DEF Untouched
  <2>2. ASSUME Scored, ~No("cat"), NEW j \in DOMAIN stream', stream'[j].op = "cat"
        PROVE  stream'[j].outs = outs
    BY <1>2, <2>2 DEF Scored
  <2>3. ASSUME Scored, No("cat") PROVE h' = RowsOf(RunningCall, running)' \o RowsOf(NewCall, new)'
    BY <2>3, PlansKept DEF Scored
  <2> QED BY <1>1, <2>1, <2>2, <2>3 DEF Scored
<1>4. Nourished => Nourished'
  <2>1. ASSUME Nourished, ~No("gather"), NEW j \in DOMAIN stream', stream'[j].op = "gather"
        PROVE  stream'[j] = GatherOp'
    BY <1>2, <2>1, PlansKept DEF Nourished
  <2>2. ASSUME Nourished, No("gather") PROVE Nourish(gathered)'
    BY <2>2, PlansKept DEF Nourished
  <2> QED BY <1>1, <2>1, <2>2 DEF Nourished
<1> QED BY <1>3, <1>4

\* A copy brings the call nearer.
LEMMA CopyKeeps ==
    ASSUME GInv, Copy
    PROVE  GInv'
<1>1. Sized /\ Host /\ Streamed /\ Phases /\ Listed
  BY DEF GInv, Streamed
<1>2. Takes("copy") /\ Untouched /\ outputs' = outputs /\ gathered' = gathered /\ h' = h
  BY DEF Copy, host, batch, drafts, Untouched
<1>3. stream # << >>
  BY <1>2 DEF Takes
<1>4. \A g, call, B : Serves(g, call, B) => Serves(g, call, B)'
  <2> SUFFICES ASSUME NEW CONSTANT g, NEW CONSTANT call, NEW CONSTANT B, Serves(g, call, B)
               PROVE  Serves(g, call, B)'
    OBVIOUS
  <2>1. "copy" # "replay"
    OBVIOUS
  <2> QED BY <1>1, <1>2, <2>1, TakenServes
<1>5. \A y : No(y) => No(y)'
  BY <1>1, <1>2, TakenNo
<1>6. (Scored => Scored') /\ (Nourished => Nourished')
  BY <1>1, <1>2, ReadersWait
<1>7. InExtend'
  <2>1. pc # "extended"
    BY <1>1, <1>2, Taken DEF Phases, InExtend, HiddenCopy
  <2> QED BY <1>2, <2>1 DEF InExtend, Untouched
<1>8. pc = "accept" /\ ~Captured(new) => Scored
  BY <1>1 DEF Phases, InVerify, Forwarded, Verifying
<1>9. Phases'
  BY <1>1, <1>2, <1>3, <1>4, <1>5, <1>6, <1>7, <1>8, PhasesKept
<1> QED BY <1>1, <1>2, <1>9, CopyKeepsStream, DeviceKeepsHost DEF GInv

\* So does the replay itself.
LEMMA ReplayKeeps ==
    ASSUME GInv, Replay
    PROVE  GInv'
<1>1. Sized /\ Host /\ Streamed /\ Phases /\ Listed /\ InOrder /\ Legal
  BY DEF GInv, Streamed
<1>2. Takes("replay") /\ Untouched /\ inputs' = inputs /\ hidden' = hidden
      /\ gathered' = gathered /\ h' = h
  BY DEF Replay, host, batch, drafts, Untouched
<1>3. stream # << >>
  BY <1>2 DEF Takes
<1>4. \A g, call, B : Serves(g, call, B) => Serves(g, call, B)'
  BY <1>1, ReplayServes
<1>5. \A y : No(y) => No(y)'
  BY <1>1, <1>2, TakenNo
<1>6. (Scored => Scored') /\ (Nourished => Nourished')
  BY <1>1, <1>2, ReadersWait
<1>7. InExtend'
  <2>1. pc # "extended"
    BY <1>1, <1>2, Taken DEF Phases, InExtend, HiddenCopy
  <2> QED BY <1>2, <2>1 DEF InExtend, Untouched
<1>8. pc = "accept" /\ ~Captured(new) => Scored
  BY <1>1 DEF Phases, InVerify, Forwarded, Verifying
<1>9. Phases'
  BY <1>1, <1>2, <1>3, <1>4, <1>5, <1>6, <1>7, <1>8, PhasesKept
<1>10. Streamed'
  <2>1. "replay" \in {"replay", "gather", "cat"}
    OBVIOUS
  <2> QED BY <1>1, <1>2, <2>1, LastKeepsStream
<1>11. /\ SameConfig /\ \A g : MaxRows(g)' = MaxRows(g)
  BY <1>1, <1>2, DeviceKeepsHost
<1>12. Sized'
  <2>1. PICK op : op = Head(stream)
    OBVIOUS
  <2>2. outputs' = [outputs EXCEPT ![op.runner][op.bs] = Leading(inputs[op.runner], op.bs * R(op.runner))]
    BY <2>1 DEF Replay
  <2>3. DOMAIN outputs' = Runner /\ \A g \in Runner : DOMAIN outputs'[g] = Buckets
    BY <1>1, <2>2 DEF Sized
  <2> QED BY <1>1, <1>2, <1>11, <2>3 DEF Sized, SameConfig, Untouched
<1> QED BY <1>1, <1>2, <1>9, <1>10, <1>12, DeviceKeepsHost DEF GInv

\* The next of the extend's hidden rows is written after those before it.
LEMMA ExtendFills ==
    ASSUME GInv, CopyHidden, pc = "extended"
    PROVE  InExtend'
<1>1. Sized /\ Host /\ Streamed /\ InExtend /\ Listed
  BY DEF GInv, Streamed, Phases
<1>2. Takes("hidden") /\ Untouched
  BY DEF CopyHidden, host, batch, drafts, Untouched
<1>3. /\ Len(stream) \in Nat \ {0} /\ Len(stream') = Len(stream) - 1 /\ 1 \in DOMAIN stream
      /\ Head(stream) = stream[1]
      /\ DOMAIN stream' = 1 .. (Len(stream) - 1)
      /\ \A j \in DOMAIN stream' : j + 1 \in DOMAIN stream /\ stream'[j] = stream[j + 1]
  BY <1>1, <1>2, Taken
<1>4. SameConfig /\ Extends' = Extends /\ alive' = alive
  BY <1>1, <1>2, DeviceKeepsHost DEF Untouched
<1>5. PICK D \in Nat : D = Drafting
  BY <1>1 DEF Host, Drafting
<1>6. PICK L \in Nat : L = Len(stream) /\ L # 0 /\ L <= D
  BY <1>1, <1>3, <1>5 DEF InExtend
<1>7. PICK k \in Nat : k = D - L /\ k + 1 = D - (L - 1) /\ k + 1 \in 1 .. D
  BY SMTT(30), <1>6
<1>8. PICK n \in Nat \ {0} : n = R(Extend) /\ Extend \in Runner
  BY <1>1, RunnerRows DEF Host, Drafts
<1>9. Extends /\ Fits(D) /\ \A b \in 1 .. D : alive[b] \in Nat /\ alive[b] <= n /\ b \in DOMAIN alive
  <2>1. Extends
    BY <1>1 DEF InExtend
  <2>2. PICK a \in Seq(Nat \ {0}) : a = alive
    BY <1>1 DEF Host
  <2>3. DOMAIN a = 1 .. D /\ \A b \in 1 .. D : a[b] \in Nat
    BY <1>5, <2>2 DEF Drafting
  <2> QED BY <1>5, <1>8, <2>1, <2>2, <2>3 DEF Extends
<1>10. \A j \in DOMAIN stream : stream[j] = HiddenCopy(Extend, (k + j - 1) * n, Aux(k + j))
  BY <1>1, <1>5, <1>6, <1>7, <1>8 DEF InExtend
<1>11. stream[1] = HiddenCopy(Extend, k * n, Aux(k + 1))
  <2>1. stream[1] = HiddenCopy(Extend, (k + 1 - 1) * n, Aux(k + 1))
    BY <1>3, <1>10
  <2>2. k + 1 - 1 = k
    OBVIOUS
  <2> QED BY <2>1, <2>2
<1>12. PICK rows : rows = [i \in 1 .. alive[k + 1] |-> Row(AuxRows, k + 1, i)]
  OBVIOUS
<1>13. hidden'[Extend] = Overwrite(hidden[Extend], k * n, rows)
  <2>1. Contents(Aux(k + 1)) = rows
    BY <1>12 DEF Contents, Aux, Fresh
  <2> QED BY <1>1, <1>3, <1>8, <1>11, <2>1 DEF CopyHidden, HiddenCopy, Sized
<1>14. Written(k)
  BY <1>1, <1>5, <1>6, <1>7 DEF InExtend
<1>15. ASSUME NEW b \in 1 .. (k + 1), NEW i \in 1 .. alive[b]
       PROVE  hidden'[Extend][(b - 1) * n + i] = Row(AuxRows, b, i)
  <2>1. b \in 1 .. D /\ i \in 1 .. n
    BY <1>7, <1>9
  <2>2. PICK p \in Nat : p = (b - 1) * n + i /\ p \in DOMAIN hidden[Extend]
    <3>1. (b - 1) * n + i \in 1 .. (Max(Buckets) * n)
      BY <1>9, <2>1, PlaceFits
    <3>2. DOMAIN hidden[Extend] = 1 .. (Max(Buckets) * n)
      BY <1>1, <1>8 DEF Sized, MaxRows
    <3> QED BY <3>1, <3>2
  <2>3. PICK at \in Nat : at = k * n
    OBVIOUS
  <2>4. hidden'[Extend][p] = IF p - at \in DOMAIN rows THEN rows[p - at] ELSE hidden[Extend][p]
    BY <1>13, <2>2, <2>3 DEF Overwrite
  <2>5. CASE b = k + 1
    <3>1. p - at = i
      <4>1. b - 1 = k
        BY <2>5
      <4> QED BY <2>2, <2>3, <4>1
    <3> QED BY <1>12, <2>2, <2>4, <2>5, <3>1
  <2>6. CASE b # k + 1
    <3>1. b \in 1 .. k
      BY <2>6
    <3>2. p <= at
      <4>1. PICK c \in Nat : c = b - 1
        BY <2>1
      <4>2. PICK d \in Nat : k = c + 1 + d
        <5>1. k - b \in Nat /\ k = (b - 1) + 1 + (k - b)
          BY <3>1
        <5> QED BY <4>1, <5>1
      <4>3. k * n = c * n + n + d * n /\ c * n \in Nat /\ d * n \in Nat
        BY <4>2
      <4> QED BY <2>1, <2>2, <2>3, <4>1, <4>3
    <3>3. p - at \notin DOMAIN rows
      BY <1>12, <2>2, <2>3, <3>2
    <3>4. hidden[Extend][p] = Row(AuxRows, b, i)
      BY <1>8, <1>14, <2>2, <3>1 DEF Written
    <3> QED BY <2>2, <2>4, <3>3, <3>4
  <2> QED BY <2>5, <2>6
<1>16. Extend' = Extend /\ R(Extend)' = n /\ Drafting' = D /\ \A b : Aux(b)' = Aux(b)
  BY <1>4, <1>5, <1>8 DEF SameConfig, R, Aux, Fresh
<1>17. Written(k + 1)'
  BY <1>4, <1>15, <1>16 DEF Written
<1>18. Drafting' - Len(stream') = k + 1 /\ Len(stream') <= Drafting'
  BY <1>3, <1>6, <1>7, <1>16
<1>19. ASSUME NEW j \in DOMAIN stream'
       PROVE  stream'[j] = HiddenCopy(Extend', (Drafting' - Len(stream') + j - 1) * R(Extend)',
                                      Aux(Drafting - Len(stream) + j)')
  <2>1. j \in Nat \ {0} /\ j + 1 \in DOMAIN stream /\ stream'[j] = stream[j + 1]
    BY <1>3
  <2>2. stream[j + 1] = HiddenCopy(Extend, (k + (j + 1) - 1) * n, Aux(k + (j + 1)))
    BY <1>10, <2>1
  <2>3. PICK w \in Nat : w = k + (j + 1) /\ Drafting' - Len(stream') + j = w
                         /\ k + (j + 1) - 1 = w - 1
    BY <1>18, <2>1
  <2>4. stream'[j] = HiddenCopy(Extend, (w - 1) * n, Aux(w))
    BY <2>1, <2>2, <2>3
  <2>5. Aux(Drafting - Len(stream) + j)' = Aux(w)
    BY <1>16, <2>3 DEF Aux
  <2>6. Drafting' - Len(stream') + j - 1 = w - 1
    BY <1>18, <2>1, <2>3
  <2> QED BY <1>16, <2>4, <2>5, <2>6, Zenon
<1>20. (Written(Drafting - Len(stream)))'
  BY <1>17, <1>18 DEF Written
<1> QED BY <1>4, <1>9, <1>18, <1>19, <1>20 DEF InExtend, HiddenCopy, Aux

\* So do hidden rows.
LEMMA HiddenKeeps ==
    ASSUME GInv, CopyHidden
    PROVE  GInv'
<1>1. Sized /\ Host /\ Streamed /\ Phases /\ Listed
  BY DEF GInv, Streamed
<1>2. Takes("hidden") /\ Untouched /\ outputs' = outputs /\ gathered' = gathered /\ h' = h
  BY DEF CopyHidden, host, batch, drafts, Untouched
<1>3. stream # << >>
  BY <1>2 DEF Takes
<1>4. \A g, call, B : Serves(g, call, B) => Serves(g, call, B)'
  <2> SUFFICES ASSUME NEW CONSTANT g, NEW CONSTANT call, NEW CONSTANT B, Serves(g, call, B)
               PROVE  Serves(g, call, B)'
    OBVIOUS
  <2>1. "hidden" # "replay"
    OBVIOUS
  <2> QED BY <1>1, <1>2, <2>1, TakenServes
<1>5. \A y : No(y) => No(y)'
  BY <1>1, <1>2, TakenNo
<1>6. (Scored => Scored') /\ (Nourished => Nourished')
  BY <1>1, <1>2, ReadersWait
<1>7. InExtend'
  <2>1. pc # "extended" => InExtend'
    BY <1>2 DEF InExtend, Untouched
  <2> QED BY <2>1, ExtendFills
<1>8. pc = "accept" /\ ~Captured(new) => Scored
  BY <1>1 DEF Phases, InVerify, Forwarded, Verifying
<1>9. Phases'
  BY <1>1, <1>2, <1>3, <1>4, <1>5, <1>6, <1>7, <1>8, PhasesKept
<1> QED BY <1>1, <1>2, <1>9, HiddenKeepsStream, DeviceKeepsHost DEF GInv

\* A view of a served output holds the rows of the call.
LEMMA ViewNames ==
    ASSUME Sized, Host, NEW g \in Runner, NEW call, NEW B \in Nat, Fits(B), Serves(g, call, B), No("replay")
    PROVE  /\ R(g) \in Nat \ {0} /\ B * R(g) \in Nat
           /\ Contents(View(g, B)) = [r \in 1 .. B * R(g) |-> NameAt(call, R(g), r)]
           /\ \A b \in 1 .. B, i \in 1 .. R(g) :
                  /\ (b - 1) * R(g) + i \in 1 .. (B * R(g))
                  /\ Contents(View(g, B))[(b - 1) * R(g) + i] = Row(call, b, i)
<1>1. PICK n \in Nat \ {0} : n = R(g)
  BY RunnerRows
<1>2. PICK rows : rows = Contents(View(g, B))
  OBVIOUS
<1>3. rows = Leading(outputs[g][Bucket(B)], B * n)
  BY <1>1, <1>2 DEF Contents, View
<1>4. \A r \in 1 .. B * n : outputs[g][Bucket(B)][r] = NameAt(call, n, r)
  BY <1>1 DEF Serves
<1>5. rows = [r \in 1 .. B * n |-> NameAt(call, n, r)]
  BY <1>3, <1>4 DEF Leading
<1>6. ASSUME NEW b \in 1 .. B, NEW i \in 1 .. n
      PROVE  (b - 1) * n + i \in 1 .. (B * n) /\ rows[(b - 1) * n + i] = Row(call, b, i)
  <2>1. (b - 1) * n + i \in 1 .. (B * n)
    BY PlaceWithin
  <2>2. b \in Nat \ {0}
    OBVIOUS
  <2>3. NameAt(call, n, (b - 1) * n + i) = Row(call, b, i)
    BY <2>2, NameOf
  <2> QED BY <1>5, <2>1, <2>3
<1>7. B * n \in Nat
  OBVIOUS
<1> QED BY <1>1, <1>2, <1>5, <1>6, <1>7

\* Gathering picks the rows that feed the next level.
LEMMA IndexKeeps ==
    ASSUME GInv, Index
    PROVE  GInv'
<1>1. Sized /\ Host /\ Streamed /\ Phases /\ Listed /\ InOrder /\ Legal
  BY DEF GInv, Streamed
<1>2. Takes("gather") /\ Untouched /\ UNCHANGED <<inputs, hidden, outputs, h>>
  BY DEF Index, host, batch, drafts, buffers, Untouched
<1>3. /\ 1 \in DOMAIN stream /\ Head(stream) = stream[1] /\ stream[1].op = "gather" /\ Listed'
      /\ \A j \in DOMAIN stream : j \in Nat
  BY <1>1, <1>2, Taken
<1>4. Streamed' /\ stream' = << >>
  <2>1. "gather" \in {"replay", "gather", "cat"} /\ "gather" # "replay"
    OBVIOUS
  <2> QED BY <1>1, <1>2, <2>1, LastKeepsStream
<1>5. No("replay") /\ ~No("gather") /\ stream # << >>
  <2>1. \A j \in DOMAIN stream : j = 1
    <3>1. 1 = Len(stream)
      BY <1>1, <1>3 DEF InOrder
    <3> QED BY <1>1, <1>2, <3>1, Taken
  <2> QED BY <1>2, <1>3, <2>1 DEF No, Takes
<1>6. pc = "draft" /\ hid = Gathered /\ Nourished
  <2>1. pc \notin {"idle", "running", "extend"}
    BY <1>1, <1>5 DEF Phases, Drained
  <2>2. ~Verifying
    BY <1>1, <1>5 DEF Phases, InVerify
  <2>3. pc # "extended"
    BY <1>1, <1>3 DEF Phases, InExtend, HiddenCopy
  <2>4. pc # "extended_last" /\ pc # "level"
    BY <1>1, <1>5 DEF Phases, Extended, InLevel
  <2>5. pc = "draft"
    BY <1>1, <2>1, <2>2, <2>3, <2>4 DEF Host, Pcs, Verifying
  <2>6. level = 0 \/ level > 0
    BY <1>1 DEF Host
  <2> QED BY <1>1, <1>5, <2>5, <2>6 DEF Phases, InDraft
<1>7. InDraft /\ Fits(Drafting) /\ stream[1] = GatherOp
  BY <1>1, <1>3, <1>5, <1>6 DEF Phases, InDraft, Nourished
<1>8. PICK D \in Nat : D = Drafting
  BY <1>1 DEF Host, Drafting
<1>9. PICK k \in Nat \ {0} : k = K
  BY <1>1, RunnerRows
<1>10. PICK n \in Nat \ {0} : n = R(Extend)
  BY <1>1, <1>6, RunnerRows DEF Host, Drafts
<1>11. Draft \in Runner /\ Extend \in Runner /\ R(Draft) = k
  BY <1>1, <1>6, <1>9, RunnerRows DEF Host, Drafts
<1>12. ASSUME NEW b \in 1 .. D, NEW i \in 1 .. k
       PROVE  (b - 1) * k + i \in DOMAIN gathered' /\ gathered'[(b - 1) * k + i] = Feed(b, i)
  <2>1. PICK p \in Nat : /\ p = (b - 1) * k + i /\ p \in 1 .. (D * k)
                         /\ ((p - 1) \div k) + 1 = b /\ ((p - 1) % k) + 1 = i
    <3>1. (b - 1) * k + i \in 1 .. (D * k)
      BY <1>8, PlaceWithin
    <3>2. b - 1 \in Nat
      OBVIOUS
    <3>3. /\ (((b - 1) * k + i) - 1) \div k = b - 1
          /\ (((b - 1) * k + i) - 1) % k = i - 1
      BY <3>2, Places
    <3> QED BY <3>1, <3>3
  <2>2. CASE level = 0
    <3>1. PICK a \in Seq(Nat \ {0}) : a = alive
      BY <1>1 DEF Host
    <3>2. a[b] \in 1 .. n /\ DOMAIN a = 1 .. D
      <4>1. DOMAIN a = 1 .. D /\ a[b] \in Nat \ {0}
        BY <1>8, <3>1 DEF Drafting
      <4>2. a[b] <= n
        BY <1>5, <1>7, <1>6, <1>10, <2>2, <3>1, <4>1 DEF InDraft, Extends
      <4> QED BY <4>1, <4>2
    <3>3. Serves(Extend, ExtendCall, D)
      BY <1>5, <1>6, <1>7, <1>8, <2>2 DEF InDraft
    <3>4. PICK rows : rows = Contents(View(Extend, D))
      OBVIOUS
    <3>5. rows[(b - 1) * n + a[b]] = Row(ExtendCall, b, a[b])
      <4>1. PICK g \in Runner : g = Extend
        BY <1>11
      <4>2. PICK c : c = ExtendCall
        OBVIOUS
      <4>3. Serves(g, c, D) /\ Fits(D)
        BY <1>7, <1>8, <3>3, <4>1, <4>2
      <4>4. \A d \in 1 .. D, j \in 1 .. R(g) : Contents(View(g, D))[(d - 1) * R(g) + j] = Row(c, d, j)
        BY <1>1, <1>5, <4>3, ViewNames
      <4> QED BY <1>10, <3>2, <3>4, <4>1, <4>2, <4>4
    <3>6. PICK lasts : lasts = [c \in 1 .. D |-> (c - 1) * n + a[c]]
      OBVIOUS
    <3>7. [c \in DOMAIN alive |-> LastRow(c)] = lasts
      BY <1>10, <3>1, <3>2, <3>6 DEF LastRow
    <3>8. Len(lasts) = D
      BY <3>6
    <3>9. PICK index : index = [r \in 1 .. D * k |-> lasts[((r - 1) \div k) + 1]]
      OBVIOUS
    <3>10. stream[1] = Gather(View(Extend, D), index)
      <4>1. Spread(lasts) = index
        BY <1>9, <3>8, <3>9 DEF Spread
      <4> QED BY <1>7, <1>8, <2>2, <3>7, <4>1 DEF GatherOp
    <3>11. gathered' = [r \in DOMAIN index |-> rows[index[r]]]
      BY <1>3, <3>4, <3>10 DEF Index, Gather
    <3>12. p \in DOMAIN index /\ index[p] = (b - 1) * n + a[b]
      BY <2>1, <3>6, <3>9
    <3>13. Feed(b, i) = Row(ExtendCall, b, a[b])
      BY <2>2, <3>1 DEF Feed
    <3> QED BY <2>1, <3>5, <3>11, <3>12, <3>13
  <2>3. CASE level # 0
    <3>0. level > 0
      BY <1>1, <2>3 DEF Host
    <3>1. Serves(Draft, LevelCall(level), D)
      BY <1>7, <1>6, <1>8, <3>0 DEF InDraft
    <3>2. PICK rows : rows = Contents(View(Draft, D))
      OBVIOUS
    <3>3. PICK u \in 1 .. k : u = up[i]
      BY <1>1, <1>9 DEF Host
    <3>4. PICK c : c = LevelCall(level)
      OBVIOUS
    <3>5. rows[(b - 1) * k + u] = Row(c, b, u)
      <4>1. PICK g \in Runner : g = Draft
        BY <1>11
      <4>2. Serves(g, c, D) /\ Fits(D)
        BY <1>7, <1>8, <3>1, <3>4, <4>1
      <4>3. \A d \in 1 .. D, j \in 1 .. R(g) : Contents(View(g, D))[(d - 1) * R(g) + j] = Row(c, d, j)
        BY <1>1, <1>5, <4>2, ViewNames
      <4> QED BY <1>11, <3>2, <4>1, <4>3
    <3>6. PICK index : index = [r \in 1 .. D * k |-> ParentRow(r)]
      OBVIOUS
    <3>7. stream[1] = Gather(View(Draft, D), index)
      BY <1>7, <1>8, <1>9, <2>3, <3>6 DEF GatherOp
    <3>8. gathered' = [r \in DOMAIN index |-> rows[index[r]]]
      BY <1>3, <3>2, <3>7 DEF Index, Gather
    <3>9. p \in DOMAIN index /\ index[p] = (b - 1) * k + u
      <4>1. ParentRow(p) = ((p - 1) \div k) * k + up[((p - 1) % k) + 1]
        BY <1>9 DEF ParentRow
      <4>2. ((p - 1) \div k) = b - 1
        <5>1. PICK q \in Int : q = (p - 1) \div k
          BY <2>1
        <5> QED BY <2>1, <5>1
      <4> QED BY <2>1, <3>3, <3>6, <4>1, <4>2
    <3>10. Feed(b, i) = Row(c, b, u)
      BY <2>3, <3>3, <3>4 DEF Feed
    <3> QED BY <2>1, <3>5, <3>8, <3>9, <3>10
  <2> QED BY <2>2, <2>3
<1>13. Nourish(gathered)'
  <2>1. \A b, i : Feed(b, i)' = Feed(b, i)
    BY <1>2 DEF Untouched, Feed, ExtendCall, LevelCall
  <2>2. Drafting' = D /\ K' = k
    BY <1>2, <1>8, <1>9 DEF Untouched, Drafting, K
  <2> QED BY <1>12, <2>1, <2>2 DEF Nourish
<1>14. No("gather")'
  BY <1>4 DEF No
<1>15. Phases'
  <2>1. \A g, call, B : Serves(g, call, B) => Serves(g, call, B)'
    <3> SUFFICES ASSUME NEW CONSTANT g, NEW CONSTANT call, NEW CONSTANT B, Serves(g, call, B)
                 PROVE  Serves(g, call, B)'
      OBVIOUS
    <3>1. "gather" # "replay" /\ outputs' = outputs
      BY <1>2
    <3> QED BY <1>1, <1>2, <3>1, TakenServes
  <2>2. \A y : No(y) => No(y)'
    BY <1>1, <1>2, TakenNo
  <2>3. Nourished'
    BY <1>13, <1>14 DEF Nourished
  <2>4. InExtend'
    BY <1>2, <1>6 DEF InExtend, Untouched
  <2> QED BY <1>1, <1>2, <1>5, <1>6, <2>1, <2>2, <2>3, <2>4, PhasesKept
<1>16. Sized'
  BY <1>1, <1>2, DeviceKeepsHost DEF Sized, SameConfig, Untouched
<1> QED BY <1>1, <1>2, <1>4, <1>15, <1>16, DeviceKeepsHost DEF GInv

----------------------------------------------------------------------------
(***************************************************************************)
(* What acceptance reads.                                                  *)
(***************************************************************************)
\* The row counts of engine c's runners.
CountsOf(c) == {d * c.topk + 1 : d \in IF c.budget > 0 /\ c.topk = 1 THEN 1 .. c.depth ELSE {c.depth}}

\* No admitted prompt is as long as a verify runner's row count: of admitted requests
\* only the first is looked at, so one such prompt takes a batch of others with it.
PromptsApart == \A c \in Configs : c.prompts \cap CountsOf(c) = {}

\* Then a forward over admitted requests is never captured.
LEMMA NewIsPlain ==
    ASSUME Host, PromptsApart
    PROVE  ~Captured(new)
<1> SUFFICES ASSUME new # << >>, Verify(new[1]) \in Runner PROVE FALSE
  BY DEF Captured
<1>1. config \in Configs /\ new \in Seq(config.prompts)
  BY DEF Host
<1>2. new[1] \in config.prompts
  BY <1>1
<1>3. RowCounts = CountsOf(config)
  BY DEF RowCounts, CountsOf, K
<1>4. new[1] \notin RowCounts
  BY <1>1, <1>2, <1>3 DEF PromptsApart
<1>5. Verify(new[1]) # Draft /\ Verify(new[1]) # Extend /\ \A r : Verify(new[1]) = Verify(r) => new[1] = r
  BY DEF Verify, Draft, Extend
<1> QED BY <1>4, <1>5 DEF Runner

\* A batch that a verify runner takes is an even one.
LEMMA CapturedEven ==
    ASSUME Host, NEW lens, NEW X, X \subseteq Nat, lens \in Seq(X), Captured(lens)
    PROVE  /\ Verify(lens[1]) \in Runner /\ R(Verify(lens[1])) = lens[1]
           /\ Len(lens) \in Nat /\ Fits(Len(lens))
           /\ lens = All(Len(lens), R(Verify(lens[1])))
<1>1. R(Verify(lens[1])) = lens[1]
  BY DEF R, Verify
<1>2. \A i \in DOMAIN lens : lens[i] = lens[1]
  BY <1>1 DEF Captured, CanRun
<1>3. lens = [i \in 1 .. Len(lens) |-> lens[1]]
  BY <1>2
<1> QED BY <1>1, <1>3 DEF Captured, CanRun, All

\* The rows of no request.
LEMMA NoRows ==
    ASSUME NEW call
    PROVE  RowsOf(call, << >>) = << >>
<1>1. [b \in DOMAIN << >> |-> [i \in 1 .. << >>[b] |-> Row(call, b, i)]] = << >>
  OBVIOUS
<1> QED BY <1>1, FlatOfNone DEF RowsOf

\* Once its replay is done, the output of the first forward holds its rows.
LEMMA RunningServed ==
    ASSUME Sized, Host, Captured(running), No("replay"),
           Serves(Verify(running[1]), RunningCall, Len(running))
    PROVE  Contents(View(Verify(running[1]), Len(running))) = RowsOf(RunningCall, running)
<1>1. running \in Seq(Nat)
  BY DEF Host
<1>2. PICK g : g = Verify(running[1])
  OBVIOUS
<1>3. PICK B : B = Len(running)
  OBVIOUS
<1>4. g \in Runner /\ B \in Nat /\ Fits(B) /\ running = All(B, R(g))
  BY <1>1, <1>2, <1>3, CapturedEven
<1>5. PICK n \in Nat \ {0} : n = R(g)
  BY <1>4, RunnerRows
<1>6. PICK rows : rows = RowsOf(RunningCall, running)
  OBVIOUS
<1>7. EvenRows(rows, RunningCall, B, n)
  BY <1>4, <1>5, <1>6, EvenLaid
<1>8. Serves(g, RunningCall, B)
  BY <1>2, <1>3
<1>9. PICK c : c = RunningCall
  OBVIOUS
<1>10. Contents(View(g, B)) = [r \in 1 .. B * n |-> NameAt(c, n, r)]
  BY <1>4, <1>5, <1>8, <1>9, ViewNames
<1>11. PICK m \in Nat : m = B * n
  BY <1>4
<1>12. rows = [r \in 1 .. m |-> NameAt(c, n, r)]
  <2>1. rows \in Seq(Names(c)) /\ Len(rows) = m /\ \A r \in 1 .. m : rows[r] = NameAt(c, n, r)
    BY <1>7, <1>9, <1>11 DEF EvenRows
  <2> QED BY <2>1
<1> QED BY <1>2, <1>3, <1>6, <1>10, <1>11, <1>12

\* Concatenated, the outputs are the rows of the two forwards.
LEMMA OutputsJoined ==
    ASSUME Sized, Host, Forwarded, ~Captured(new), No("replay"), pc = "accept"
    PROVE  Flat([i \in DOMAIN outs |-> Contents(outs[i])]) =
               RowsOf(RunningCall, running) \o RowsOf(NewCall, new)
<1> DEFINE X == Names(RunningCall) \cup Names(NewCall)
<1>1. running \in Seq(Nat) /\ new \in Seq(Nat)
  <2>1. config.prompts \subseteq Nat
    BY GraphAssumption DEF Host
  <2> QED BY <2>1 DEF Host
<1>2. PICK p \in Seq(X) : p = RowsOf(RunningCall, running)
  <2>1. Len(running) \in Nat /\ running \in [1 .. Len(running) -> Nat]
    BY <1>1
  <2>2. RowsOf(RunningCall, running) \in Seq(Names(RunningCall))
    BY <2>1, RowsTyped
  <2> QED BY <2>2
<1>3. PICK q \in Seq(X) : q = RowsOf(NewCall, new)
  <2>1. Len(new) \in Nat /\ new \in [1 .. Len(new) -> Nat]
    BY <1>1
  <2>2. RowsOf(NewCall, new) \in Seq(Names(NewCall))
    BY <2>1, RowsTyped
  <2> QED BY <2>2
<1> HIDE DEF X
<1>4. \A rows : Contents(Fresh(rows)) = rows
  BY DEF Contents, Fresh
<1>5. running = << >> => p = << >>
  BY <1>2, NoRows
<1>6. new = << >> => q = << >>
  BY <1>3, NoRows
<1>7. PICK a : a = Out(RunningCall, running)
  OBVIOUS
<1>8. PICK b : b = Out(NewCall, new)
  OBVIOUS
<1>9. outs = a \o b
  BY <1>7, <1>8 DEF Forwarded
<1>10. running = << >> => a = << >>
  BY <1>7 DEF Out
<1>11. new = << >> => b = << >>
  BY <1>8 DEF Out
<1>12. running # << >> => \E x : a = <<x>> /\ Contents(x) = p
  <2>1. CASE Captured(running)
    <3>1. Serves(Verify(running[1]), RunningCall, Len(running))
      BY <2>1 DEF Forwarded
    <3>2. Contents(View(Verify(running[1]), Len(running))) = p
      BY <1>2, <2>1, <3>1, RunningServed
    <3>3. running # << >> => a = <<View(Verify(running[1]), Len(running))>>
      BY <1>7, <2>1 DEF Out
    <3> QED BY <3>2, <3>3
  <2>2. CASE ~Captured(running)
    BY <1>2, <1>4, <1>7, <2>2 DEF Out
  <2> QED BY <2>1, <2>2
<1>13. new # << >> => \E y : b = <<y>> /\ Contents(y) = q
  <2>1. new # << >> => b = <<Fresh(RowsOf(NewCall, new))>>
    BY <1>8 DEF Out
  <2> QED BY <1>3, <1>4, <2>1
<1>14. PICK f : f = [i \in DOMAIN outs |-> Contents(outs[i])]
  OBVIOUS
<1>15. CASE running = << >> /\ new = << >>
  <2>1. outs = << >>
    BY <1>9, <1>10, <1>11, <1>15
  <2>2. f = << >>
    BY <1>14, <2>1
  <2>3. p \o q = << >>
    BY <1>5, <1>6, <1>15
  <2> QED BY <1>2, <1>3, <1>14, <2>2, <2>3, FlatOfNone
<1>16. CASE running # << >> /\ new = << >>
  <2>1. PICK x : a = <<x>> /\ Contents(x) = p
    BY <1>12, <1>16
  <2>2. outs = <<x>>
    BY <1>9, <1>11, <1>16, <2>1
  <2>3. f = <<p>>
    BY <1>14, <2>1, <2>2
  <2>4. p \o q = p
    BY <1>6, <1>16
  <2> QED BY <1>2, <1>3, <1>14, <2>3, <2>4, FlatOfOne
<1>17. CASE running = << >> /\ new # << >>
  <2>1. PICK y : b = <<y>> /\ Contents(y) = q
    BY <1>13, <1>17
  <2>2. outs = <<y>>
    BY <1>9, <1>10, <1>17, <2>1
  <2>3. f = <<q>>
    BY <1>14, <2>1, <2>2
  <2>4. p \o q = q
    BY <1>5, <1>17
  <2> QED BY <1>2, <1>3, <1>14, <2>3, <2>4, FlatOfOne
<1>18. CASE running # << >> /\ new # << >>
  <2>1. PICK x : a = <<x>> /\ Contents(x) = p
    BY <1>12, <1>18
  <2>2. PICK y : b = <<y>> /\ Contents(y) = q
    BY <1>13, <1>18
  <2>3. DOMAIN outs = 1 .. 2 /\ outs[1] = x /\ outs[2] = y
    <3>1. <<x>> \in Seq({x, y}) /\ Len(<<x>>) = 1 /\ <<x>>[1] = x
      OBVIOUS
    <3>2. <<y>> \in Seq({x, y}) /\ Len(<<y>>) = 1 /\ <<y>>[1] = y
      OBVIOUS
    <3>3. PICK s \in Seq({x, y}) : s = <<x>> \o <<y>>
      BY <3>1, <3>2, ConcatProperties
    <3>4. Len(s) = 2 /\ s[1] = x /\ s[2] = y
      BY <3>1, <3>2, <3>3, ConcatProperties
    <3> QED BY <1>9, <2>1, <2>2, <3>3, <3>4
  <2>4. f = <<p, q>>
    BY <1>14, <2>1, <2>2, <2>3
  <2> QED BY <1>2, <1>3, <1>14, <2>4, FlatOfTwo
<1> QED BY <1>15, <1>16, <1>17, <1>18

\* The device concatenates them.
LEMMA ConcatenateKeeps ==
    ASSUME GInv, Concatenate
    PROVE  GInv'
<1>1. Sized /\ Host /\ Streamed /\ Phases /\ Listed /\ InOrder /\ Legal
  BY DEF GInv, Streamed
<1>2. Takes("cat") /\ Untouched /\ UNCHANGED <<inputs, hidden, outputs, gathered>>
  BY DEF Concatenate, host, batch, drafts, buffers, Untouched
<1>3. /\ 1 \in DOMAIN stream /\ Head(stream) = stream[1] /\ stream[1].op = "cat" /\ Listed'
      /\ \A j \in DOMAIN stream : j \in Nat
  BY <1>1, <1>2, Taken
<1>4. Streamed' /\ stream' = << >>
  <2>1. "cat" \in {"replay", "gather", "cat"} /\ "cat" # "replay"
    OBVIOUS
  <2> QED BY <1>1, <1>2, <2>1, LastKeepsStream
<1>5. No("replay") /\ ~No("cat") /\ stream # << >>
  <2>1. \A j \in DOMAIN stream : j = 1
    <3>1. 1 = Len(stream)
      BY <1>1, <1>3 DEF InOrder
    <3> QED BY <1>1, <1>2, <3>1, Taken
  <2> QED BY <1>2, <1>3, <2>1 DEF No, Takes
<1>6. pc = "accept" /\ InVerify
  <2>1. pc \notin {"idle", "running", "extend"}
    BY <1>1, <1>5 DEF Phases, Drained
  <2>2. pc \notin {"new", "cat"}
    BY <1>1, <1>5 DEF Phases, InVerify, Verifying
  <2>3. pc # "extended"
    BY <1>1, <1>3 DEF Phases, InExtend, HiddenCopy
  <2>4. pc \notin {"extended_last", "level", "draft"}
    BY <1>1, <1>5 DEF Phases, Extended, InLevel, InDraft
  <2> QED BY <1>1, <2>1, <2>2, <2>3, <2>4 DEF Host, Pcs, Phases
<1>7. ASSUME ~Captured(new) PROVE Scored'
  <2>1. Forwarded
    BY <1>6, <1>7 DEF InVerify, Verifying
  <2>2. stream[1].outs = outs
    BY <1>3, <1>5, <1>6, <2>1 DEF Forwarded, Scored
  <2>3. h' = Flat([i \in DOMAIN outs |-> Contents(outs[i])])
    BY <1>3, <2>2 DEF Concatenate
  <2>4. h' = RowsOf(RunningCall, running) \o RowsOf(NewCall, new)
    BY <1>1, <1>5, <1>6, <1>7, <2>1, <2>3, OutputsJoined
  <2>5. No("cat")'
    BY <1>4 DEF No
  <2>6. h' = RowsOf(RunningCall, running)' \o RowsOf(NewCall, new)'
    BY <1>1, <1>2, <2>4, PlansKept
  <2> QED BY <2>5, <2>6 DEF Scored
<1>10. Phases'
  <2>1. \A g, call, B : Serves(g, call, B) => Serves(g, call, B)'
    <3> SUFFICES ASSUME NEW CONSTANT g, NEW CONSTANT call, NEW CONSTANT B, Serves(g, call, B)
                 PROVE  Serves(g, call, B)'
      OBVIOUS
    <3>1. "cat" # "replay" /\ outputs' = outputs
      BY <1>2
    <3> QED BY <1>1, <1>2, <3>1, TakenServes
  <2>2. \A y : No(y) => No(y)'
    BY <1>1, <1>2, TakenNo
  <2>3. InExtend'
    BY <1>2, <1>6 DEF InExtend, Untouched
  <2>4. pc # "draft"
    BY <1>6
  <2> QED BY <1>1, <1>2, <1>5, <1>7, <2>1, <2>2, <2>3, <2>4, PhasesKept
<1>11. Sized'
  BY <1>1, <1>2, DeviceKeepsHost DEF Sized, SameConfig, Untouched
<1> QED BY <1>1, <1>2, <1>4, <1>10, <1>11, DeviceKeepsHost DEF GInv

----------------------------------------------------------------------------
(***************************************************************************)
(* The host's steps.                                                       *)
(***************************************************************************)
\* A configuration's runners stay.
LEMMA FixedConfig ==
    ASSUME config' = config
    PROVE  /\ Runner' = Runner /\ K' = K /\ RowCounts' = RowCounts /\ Draft' = Draft /\ Extend' = Extend
           /\ \A g : MaxRows(g)' = MaxRows(g) /\ R(g)' = R(g)
  BY DEF Runner, RowCounts, K, Draft, Extend, Verify, MaxRows, R

\* With nothing enqueued there is nothing to be ready.
LEMMA EmptyStream ==
    ASSUME stream' = << >>
    PROVE  Streamed' /\ \A y : No(y)'
<1>1. << >> \in Seq({}) /\ DOMAIN << >> = {}
  OBVIOUS
<1>2. Listed'
  BY <1>1 DEF Listed
<1>3. InOrder' /\ Legal' /\ InputsReady' /\ HiddenReady'
  BY <1>1 DEF InOrder, Legal, InputsReady, HiddenReady
<1> QED BY <1>1, <1>2, <1>3 DEF Streamed, No

\* The device's buffers stay as they are.
Idle == UNCHANGED <<config, inputs, hidden, outputs, gathered>>

\* An output is served as long as neither it nor the stream changes.
LEMMA StillServes ==
    ASSUME Idle, stream' = stream
    PROVE  \A g, call, B : Serves(g, call, B) => Serves(g, call, B)'
<1> SUFFICES ASSUME NEW CONSTANT g, NEW CONSTANT call, NEW CONSTANT B, Serves(g, call, B)
             PROVE  Serves(g, call, B)'
  OBVIOUS
<1>1. R(g)' = R(g) /\ Bucket(B)' = Bucket(B) /\ (No("replay")' <=> No("replay"))
  BY DEF R, Bucket, No
<1>2. outputs' = outputs
  BY DEF Idle
<1> QED BY <1>1, <1>2 DEF Serves

\* What is ready stays ready.
LEMMA StillReady ==
    ASSUME Idle, UNCHANGED <<stage, alive>>
    PROVE  /\ \A c, op : Loads(c, op) => Loads(c, op)'
           /\ \A op : InputsAreIts(op) => InputsAreIts(op)'
           /\ \A c, op : Feeds(c, op) => Feeds(c, op)'
           /\ \A op : HiddenAreIts(op) => HiddenAreIts(op)'
<1>1. config' = config /\ inputs' = inputs /\ hidden' = hidden /\ outputs' = outputs
      /\ gathered' = gathered
  BY DEF Idle
<1>2. \A g : R(g)' = R(g)
  BY <1>1, FixedConfig
<1>3. \A o : Contents(o)' = Contents(o)
  BY <1>1 DEF Contents
<1>4. ASSUME NEW CONSTANT c, NEW CONSTANT op
      PROVE  /\ Loads(c, op) => Loads(c, op)'
             /\ InputsAreIts(op) => InputsAreIts(op)'
             /\ Feeds(c, op) => Feeds(c, op)'
             /\ HiddenAreIts(op) => HiddenAreIts(op)'
  <2>1. R(op.runner)' = R(op.runner) /\ Contents(c.from)' = Contents(c.from)
    BY <1>2, <1>3
  <2>2. Loads(c, op) => Loads(c, op)'
    BY <2>1 DEF Loads, Brought, PadName, NameAt
  <2>3. InputsAreIts(op) => InputsAreIts(op)'
    BY <1>1, <2>1 DEF InputsAreIts
  <2>4. Feeds(c, op) => Feeds(c, op)'
    BY <2>1 DEF Feeds, Belongs
  <2>5. HiddenAreIts(op) => HiddenAreIts(op)'
    BY <1>1, <2>1 DEF HiddenAreIts, Belongs
  <2> QED BY <2>2, <2>3, <2>4, <2>5
<1> QED BY <1>4

\* So does a stream nothing is added to.
LEMMA StreamStays ==
    ASSUME Streamed, Idle, UNCHANGED <<stage, alive, stream>>
    PROVE  Streamed'
<1>1. Runner' = Runner
  BY FixedConfig DEF Idle
<1>2. Listed' /\ InOrder' /\ Legal'
  BY <1>1 DEF Streamed, Listed, InOrder, Legal, Fits, Bucket
<1>3. InputsReady'
  <2> SUFFICES ASSUME NEW j \in DOMAIN stream', stream'[j].op = "replay"
               PROVE  IF stream'[1].op = "copy" THEN Loads(stream[1], stream[j])'
                      ELSE InputsAreIts(stream[j])'
    BY DEF InputsReady
  <2>1. PICK c : c = stream[1]
    OBVIOUS
  <2>2. PICK op : op = stream[j]
    OBVIOUS
  <2>3. IF c.op = "copy" THEN Loads(c, op) ELSE InputsAreIts(op)
    BY <2>1, <2>2 DEF Streamed, InputsReady
  <2>4. IF c.op = "copy" THEN Loads(c, op)' ELSE InputsAreIts(op)'
    BY <2>3, StillReady
  <2> QED BY <2>1, <2>2, <2>4 DEF Loads, Brought, InputsAreIts
<1>4. HiddenReady'
  <2> SUFFICES ASSUME NEW j \in DOMAIN stream', stream'[j].op = "replay"
               PROVE  IF j > 1 /\ stream'[j - 1].op = "hidden" THEN Feeds(stream[j - 1], stream[j])'
                      ELSE HiddenAreIts(stream[j])'
    BY DEF HiddenReady
  <2>1. PICK c : c = stream[j - 1]
    OBVIOUS
  <2>2. PICK op : op = stream[j]
    OBVIOUS
  <2>3. IF j > 1 /\ c.op = "hidden" THEN Feeds(c, op) ELSE HiddenAreIts(op)
    BY <2>1, <2>2 DEF Streamed, HiddenReady
  <2>4. IF j > 1 /\ c.op = "hidden" THEN Feeds(c, op)' ELSE HiddenAreIts(op)'
    BY <2>3, StillReady
  <2> QED BY <2>1, <2>2, <2>4 DEF Feeds, HiddenAreIts
<1> QED BY <1>2, <1>3, <1>4 DEF Streamed

\* What is enqueued to read an output waits behind its replay.
LEMMA ReaderEnqueued ==
    ASSUME Streamed, NEW CONSTANT x \in {"gather", "cat"}, NEW o, o.op = x, stream' = Append(stream, o),
           No("gather"), No("cat"), Idle, UNCHANGED <<stage, alive>>
    PROVE  /\ Streamed'
           /\ \A y : y # x => (No(y)' <=> No(y))
           /\ ~No(x)' /\ \A j \in DOMAIN stream' : stream'[j].op = x => stream'[j] = o
           /\ \A g, call, B : Serves(g, call, B) => Serves(g, call, B)'
<1>1. /\ Listed' /\ Len(stream) \in Nat /\ DOMAIN stream = 1 .. Len(stream)
      /\ Len(stream') = Len(stream) + 1 /\ DOMAIN stream' = 1 .. (Len(stream) + 1)
      /\ \A j \in DOMAIN stream : j \in DOMAIN stream' /\ stream'[j] = stream[j]
      /\ stream'[Len(stream) + 1] = o
  BY Appended DEF Streamed
<1>2. PICK n \in Nat : n = Len(stream)
  BY <1>1
<1>3. ASSUME NEW j \in DOMAIN stream'
      PROVE  \/ j \in DOMAIN stream /\ stream'[j] = stream[j] /\ j # n + 1
             \/ j = n + 1 /\ stream'[j] = o
  BY <1>1, <1>2
<1>4. o.op \notin {"copy", "hidden", "replay"} /\ x \in Ops
  BY DEF Ops
<1>5. \A j \in DOMAIN stream : stream[j].op \notin {"gather", "cat"}
  BY DEF No
<1>6. InOrder'
  <2>1. InOrder
    BY DEF Streamed
  <2>2. \A j \in DOMAIN stream' : stream'[j].op \in Ops
    BY <1>3, <1>4, <2>1 DEF InOrder
  <2>3. \A j \in DOMAIN stream' : stream'[j].op = "copy" => j = 1
    BY <1>3, <1>4, <2>1 DEF InOrder
  <2>4. \A j, k \in DOMAIN stream' : stream'[j].op = "replay" =>
            /\ stream'[k].op = "replay" => k = j
            /\ stream'[k].op = "hidden" => k = j - 1
    <3> SUFFICES ASSUME NEW j \in DOMAIN stream', NEW k \in DOMAIN stream', stream'[j].op = "replay",
                        stream'[k].op \in {"replay", "hidden"}
                 PROVE  /\ stream'[k].op = "replay" => k = j
                        /\ stream'[k].op = "hidden" => k = j - 1
      OBVIOUS
    <3>1. j \in DOMAIN stream /\ stream'[j] = stream[j] /\ k \in DOMAIN stream /\ stream'[k] = stream[k]
      BY <1>3, <1>4
    <3> QED BY <2>1, <3>1 DEF InOrder
  <2>5. \A j \in DOMAIN stream' : stream'[j].op \in {"gather", "cat"} => j = Len(stream')
    BY <1>1, <1>2, <1>3, <1>5
  <2> QED BY <2>2, <2>3, <2>4, <2>5 DEF InOrder
<1>7. config' = config /\ inputs' = inputs /\ hidden' = hidden /\ outputs' = outputs
      /\ gathered' = gathered
  BY DEF Idle
<1>8. Runner' = Runner /\ \A g : R(g)' = R(g)
  BY <1>7, FixedConfig
<1>9. ASSUME NEW j \in DOMAIN stream', stream'[j].op = "replay"
      PROVE  /\ j \in DOMAIN stream /\ stream'[j] = stream[j] /\ stream'[1] = stream[1]
             /\ j > 1 => j - 1 \in DOMAIN stream /\ stream'[j - 1] = stream[j - 1]
  <2>1. j \in DOMAIN stream /\ stream'[j] = stream[j]
    BY <1>3, <1>4, <1>9
  <2>2. 1 \in DOMAIN stream /\ (j > 1 => j - 1 \in DOMAIN stream)
    BY <1>1, <2>1
  <2> QED BY <1>1, <2>1, <2>2
<1>10. Legal'
  <2> SUFFICES ASSUME NEW j \in DOMAIN stream', stream'[j].op = "replay"
               PROVE  /\ stream'[j].runner \in Runner' /\ stream'[j].batch \in Nat
                      /\ Fits(stream'[j].batch) /\ stream'[j].bs = Bucket(stream'[j].batch)
    BY DEF Legal, Fits, Bucket
  <2> QED BY <1>8, <1>9 DEF Legal, Streamed
<1>11. InputsReady'
  <2> SUFFICES ASSUME NEW j \in DOMAIN stream', stream'[j].op = "replay"
               PROVE  IF stream'[1].op = "copy" THEN Loads(stream[1], stream[j])'
                      ELSE InputsAreIts(stream[j])'
    BY DEF InputsReady
  <2>1. j \in DOMAIN stream /\ stream'[j] = stream[j] /\ stream'[1] = stream[1]
    BY <1>9
  <2>2. IF stream[1].op = "copy" THEN Loads(stream[1], stream[j]) ELSE InputsAreIts(stream[j])
    BY <2>1 DEF Streamed, InputsReady
  <2>3. PICK c : c = stream[1]
    OBVIOUS
  <2>4. PICK op : op = stream[j]
    OBVIOUS
  <2>6. Loads(c, op) => Loads(c, op)'
    BY StillReady
  <2>7. InputsAreIts(op) => InputsAreIts(op)'
    BY StillReady
  <2>8. Loads(c, op)' => Loads(stream[1], stream[j])'
    BY <2>1, <2>3, <2>4 DEF Loads, Brought
  <2>9. InputsAreIts(op)' => InputsAreIts(stream[j])'
    BY <2>1, <2>4 DEF InputsAreIts
  <2> QED BY <2>1, <2>2, <2>3, <2>4, <2>6, <2>7, <2>8, <2>9
<1>12. HiddenReady'
  <2> SUFFICES ASSUME NEW j \in DOMAIN stream', stream'[j].op = "replay"
               PROVE  IF j > 1 /\ stream'[j - 1].op = "hidden" THEN Feeds(stream[j - 1], stream[j])'
                      ELSE HiddenAreIts(stream[j])'
    BY DEF HiddenReady
  <2>1. /\ j \in DOMAIN stream /\ stream'[j] = stream[j]
        /\ j > 1 => j - 1 \in DOMAIN stream /\ stream'[j - 1] = stream[j - 1]
    BY <1>9
  <2>2. IF j > 1 /\ stream[j - 1].op = "hidden" THEN Feeds(stream[j - 1], stream[j])
        ELSE HiddenAreIts(stream[j])
    BY <2>1 DEF Streamed, HiddenReady
  <2>3. PICK c : c = stream[j - 1]
    OBVIOUS
  <2>4. PICK op : op = stream[j]
    OBVIOUS
  <2>6. Feeds(c, op) => Feeds(c, op)'
    BY StillReady
  <2>7. HiddenAreIts(op) => HiddenAreIts(op)'
    BY StillReady
  <2>8. j > 1 /\ Feeds(c, op)' => Feeds(stream[j - 1], stream[j])'
    BY <2>1, <2>3, <2>4
  <2>9. HiddenAreIts(op)' => HiddenAreIts(stream[j])'
    BY <2>1, <2>4 DEF HiddenAreIts
  <2>10. CASE j > 1 /\ stream[j - 1].op = "hidden"
    BY <2>1, <2>2, <2>3, <2>4, <2>6, <2>8, <2>10
  <2>11. CASE ~(j > 1 /\ stream[j - 1].op = "hidden")
    <3>1. ~(j > 1 /\ stream'[j - 1].op = "hidden")
      BY <2>1, <2>11
    <3>2. HiddenAreIts(stream[j])'
      BY <2>2, <2>4, <2>7, <2>9, <2>11
    <3> QED BY <3>1, <3>2
  <2> QED BY <2>10, <2>11
<1>13. \A y : y # x => (No(y)' <=> No(y))
  <2> SUFFICES ASSUME NEW y, y # x PROVE No(y)' <=> No(y)
    OBVIOUS
  <2>1. No(y)' => No(y)
    BY <1>1 DEF No
  <2>2. No(y) => No(y)'
    BY <1>3 DEF No
  <2> QED BY <2>1, <2>2
<1>14. ~No(x)'
  <2>1. n + 1 \in DOMAIN stream' /\ stream'[n + 1] = o
    BY <1>1, <1>2
  <2> QED BY <2>1 DEF No
<1>15. \A j \in DOMAIN stream' : stream'[j].op = x => stream'[j] = o
  BY <1>3, <1>5
<1>16. \A g, call, B : Serves(g, call, B) => Serves(g, call, B)'
  <2> SUFFICES ASSUME NEW CONSTANT g, NEW CONSTANT call, NEW CONSTANT B, Serves(g, call, B)
               PROVE  Serves(g, call, B)'
    OBVIOUS
  <2>1. No("replay")' => No("replay")
    <3>1. "replay" # x
      OBVIOUS
    <3> QED BY <1>13, <3>1
  <2>2. R(g)' = R(g) /\ Bucket(B)' = Bucket(B)
    BY DEF R, Bucket
  <2>3. \A j \in DOMAIN stream' : stream'[j].op = "replay" =>
            stream'[j].runner = g /\ stream'[j].call = call /\ stream'[j].batch = B
    BY <1>9 DEF Serves
  <2> QED BY <1>7, <2>1, <2>2, <2>3 DEF Serves
<1> QED BY <1>1, <1>6, <1>10, <1>11, <1>12, <1>13, <1>14, <1>15, <1>16 DEF Streamed

\* A step begins with buffers of the same size and nothing enqueued.
LEMMA BeginKeeps ==
    ASSUME GInv, BeginStep
    PROVE  GInv'
<1>1. Host /\ pc = "idle" /\ stream' = << >> /\ pc' = "running"
      /\ config' = config /\ outs' = outs /\ alive' = alive /\ level' = level /\ up' = up
  BY DEF GInv, BeginStep, drafts
<1>2. /\ Runner' = Runner /\ K' = K /\ \A g : MaxRows(g)' = MaxRows(g) /\ R(g)' = R(g)
  BY <1>1, FixedConfig
<1>3. Streamed'
  BY <1>1, EmptyStream
<1>4. Sized'
  BY <1>2 DEF BeginStep, Sized, Clear, ClearOutputs, All
<1>5. PICK r \in TreeRows, b \in 0 .. MaxBatch : running' = All(b, r)
  BY DEF BeginStep
<1>6. running' \in Seq(Nat \ {0})
  <2>1. r \in Nat \ {0}
    BY <1>1, RunnerRows DEF TreeRows
  <2>2. b \in Nat
    BY <1>5, GraphAssumption
  <2>3. [i \in 1 .. b |-> r] \in Seq(Nat \ {0})
    BY <2>1, <2>2
  <2> QED BY <1>5, <2>3 DEF All
<1>7. new' \in Seq(config.prompts)
  <2>1. PICK a \in 0 .. (MaxBatch - Len(running')) : new' \in [1 .. a -> config.prompts]
    BY DEF BeginStep
  <2>2. a \in Nat
    BY <2>1, <1>6, GraphAssumption
  <2>3. PICK s \in [1 .. a -> config.prompts] : s = new'
    BY <2>1
  <2>4. s \in Seq(config.prompts)
    BY <2>2
  <2> QED BY <2>3, <2>4
<1>8. Host'
  BY <1>1, <1>2, <1>6, <1>7 DEF Host, Pcs, Drafts, Verifying
<1>9. Phases'
  BY <1>1 DEF Phases, Drained, InVerify, Verifying, InExtend, Extended, InDraft, InLevel
<1> QED BY <1>3, <1>4, <1>8, <1>9 DEF GInv

\* A verify forward needs no hidden rows.
LEMMA VerifyNeedsNone ==
    ASSUME NEW op, op.call \in {RunningCall, NewCall}
    PROVE  HiddenAreIts(op)'
<1>1. op.call # ExtendCall /\ op.call # LevelCall(1) /\ op.call[1] # "level"
  BY DEF RunningCall, NewCall, ExtendCall, LevelCall
<1>2. \A row, b, i : Belongs(row, op, b, i)'
  BY <1>1 DEF Belongs, ExtendCall, LevelCall
<1> QED BY <1>2 DEF HiddenAreIts

\* A call enqueued on an empty stream is served.
LEMMA RunServes ==
    ASSUME NEW op, NEW CONSTANT g, NEW CONSTANT call, NEW CONSTANT B,
           op.runner = g, op.call = call, op.batch = B, ~No("replay")',
           \A j \in DOMAIN stream' : stream'[j].op = "replay" => stream'[j] = op
    PROVE  Serves(g, call, B)'
  BY DEF Serves

\* The running requests' forward.
LEMMA VerifyRunningKeeps ==
    ASSUME GInv, VerifyRunning
    PROVE  GInv'
<1>1. /\ Sized /\ Host /\ pc = "running" /\ stream = << >> /\ pc' = "new" /\ outs = << >>
      /\ running' = running /\ new' = new /\ Idle /\ h' = h
      /\ alive' = alive /\ level' = level /\ up' = up
  BY DEF GInv, Phases, Drained, Host, Verifying, VerifyRunning, drafts, device, buffers, Idle
<1>2. config' = config /\ inputs' = inputs /\ hidden' = hidden /\ outputs' = outputs
  BY <1>1 DEF Idle
<1>3. /\ Runner' = Runner /\ K' = K /\ \A g : MaxRows(g)' = MaxRows(g) /\ R(g)' = R(g)
  BY <1>2, FixedConfig
<1>4. Host'
  BY <1>1, <1>2, <1>3 DEF Host, Pcs, Drafts, Verifying
<1>5. PICK lens : lens = running
  OBVIOUS
<1>6. PICK c : c = RunningCall
  OBVIOUS
<1>7. Captured(running)' <=> Captured(lens)
  BY <1>1, <1>3, <1>5 DEF Captured, CanRun, Fits
<1>8. Out(RunningCall, running)' = Out(c, lens)
  BY <1>1, <1>5, <1>6, <1>7 DEF Out, View, Verify, Bucket, R, Fresh, RowsOf, RunningCall
<1>9. Forward(c, lens)
  BY <1>5, <1>6 DEF VerifyRunning
<1>10. lens \in Seq(Nat)
  BY <1>1, <1>5 DEF Host
<1>11. CASE Captured(lens)
  <2>1. PICK g \in Runner : g = Verify(lens[1])
    BY <1>11 DEF Captured
  <2>2. PICK B \in Nat : B = Len(lens) /\ Fits(B)
    BY <1>1, <1>10, <1>11, CapturedEven
  <2>3. Run(g, c, B, None) /\ outs' = Append(outs, View(g, B))
    BY <1>9, <1>11, <2>1, <2>2 DEF Forward, Captured
  <2>4. PICK o : o = None
    OBVIOUS
  <2>5. PICK op : op = ReplayOp(g, c, B)
    OBVIOUS
  <2>6. PICK hc : hc = HiddenCopy(g, 0, o)
    OBVIOUS
  <2>7. op.runner = g /\ op.call = c /\ op.batch = B
    BY <2>5 DEF ReplayOp
  <2>8. HiddenAreIts(op)'
    BY <1>6, <2>7, VerifyNeedsNone
  <2>9. /\ Sized' /\ Streamed' /\ ~No("replay")'
        /\ \A j \in DOMAIN stream' : stream'[j].op = "replay" => stream'[j] = op
        /\ No("gather")' /\ No("cat")' /\ No("hidden")'
    BY <1>1, <1>2, <2>2, <2>3, <2>4, <2>5, <2>6, <2>8, RunKeeps
  <2>10. Serves(g, c, B)'
    BY <2>7, <2>9, RunServes
  <2>11. Serves(Verify(running[1]), RunningCall, Len(running))'
    BY <1>1, <1>5, <1>6, <2>1, <2>2, <2>10 DEF Serves, Verify, RunningCall
  <2>12. outs' = Out(RunningCall, running)'
    <3>1. Append(<< >>, View(g, B)) = <<View(g, B)>>
      OBVIOUS
    <3>2. lens # << >>
      BY <1>11 DEF Captured
    <3> QED BY <1>1, <1>8, <1>11, <2>1, <2>2, <2>3, <3>1, <3>2 DEF Out
  <2>13. Phases'
    BY <1>1, <1>7, <1>11, <2>9, <2>11, <2>12
       DEF Phases, Drained, InVerify, Forwarded, Verifying, InExtend, Extended, InDraft, InLevel
  <2> QED BY <1>4, <2>9, <2>13 DEF GInv
<1>12. CASE ~Captured(lens)
  <2>1. UNCHANGED <<stage, stream>> /\ outs' = Out(c, lens)
    <3>1. Append(<< >>, Fresh(RowsOf(c, lens))) = <<Fresh(RowsOf(c, lens))>>
      OBVIOUS
    <3> QED BY <1>1, <1>9, <1>12, <3>1 DEF Forward, Captured, Out
  <2>2. Sized'
    BY <1>1, <1>2, <1>3, <2>1 DEF Sized
  <2>3. Streamed' /\ \A y : No(y)'
    BY <1>1, <2>1, EmptyStream
  <2>4. Phases'
    BY <1>1, <1>7, <1>8, <1>12, <2>1, <2>3
       DEF Phases, Drained, InVerify, Forwarded, Verifying, InExtend, Extended, InDraft, InLevel
  <2> QED BY <1>4, <2>2, <2>3, <2>4 DEF GInv
<1> QED BY <1>11, <1>12

\* What holds of the running requests' forward, after it.
LEMMA RunningForwarded ==
    ASSUME Host, InVerify, UNCHANGED <<config, running, new>>,
           \A g, call, B : Serves(g, call, B) => Serves(g, call, B)',
           \A y \in {"copy", "replay"} : No(y) => No(y)'
    PROVE  /\ Out(RunningCall, running)' = Out(RunningCall, running)
           /\ Out(NewCall, new)' = Out(NewCall, new)
           /\ Captured(new)' <=> Captured(new)
           /\ Verifying /\ ~Captured(new) =>
                  IF Captured(running)' THEN Serves(Verify(running[1]), RunningCall, Len(running))'
                  ELSE No("copy")' /\ No("replay")'
<1>1. Runner' = Runner /\ \A g : R(g)' = R(g)
  BY FixedConfig
<1>2. Captured(running)' <=> Captured(running)
  BY <1>1 DEF Captured, CanRun, Fits
<1>3. Captured(new)' <=> Captured(new)
  BY <1>1 DEF Captured, CanRun, Fits
<1>4. Out(RunningCall, running)' = Out(RunningCall, running)
  BY <1>2 DEF Out, View, Verify, Bucket, R, Fresh, RowsOf, RunningCall
<1>5. Out(NewCall, new)' = Out(NewCall, new)
  BY <1>3 DEF Out, View, Verify, Bucket, R, Fresh, RowsOf, NewCall
<1>6. ASSUME Verifying, ~Captured(new), Captured(running)
      PROVE  Serves(Verify(running[1]), RunningCall, Len(running))'
  <2>1. PICK g : g = Verify(running[1])
    OBVIOUS
  <2>2. PICK B : B = Len(running)
    OBVIOUS
  <2>3. Serves(g, RunningCall, B)
    BY <1>6, <2>1, <2>2 DEF InVerify, Forwarded
  <2>4. Serves(g, RunningCall, B)'
    BY <2>3
  <2> QED BY <2>1, <2>2, <2>4 DEF Serves, Verify, RunningCall
<1>7. ASSUME Verifying, ~Captured(new), ~Captured(running) PROVE No("copy")' /\ No("replay")'
  BY <1>7 DEF InVerify, Forwarded
<1> QED BY <1>2, <1>3, <1>4, <1>5, <1>6, <1>7

\* The admitted requests' forward.
LEMMA VerifyNewKeeps ==
    ASSUME GInv, VerifyNew
    PROVE  GInv'
<1>1. /\ Sized /\ Host /\ Streamed /\ InVerify /\ pc = "new" /\ pc' = "cat" /\ Verifying
      /\ running' = running /\ new' = new /\ Idle /\ h' = h
      /\ alive' = alive /\ level' = level /\ up' = up
  BY DEF GInv, Phases, Verifying, VerifyNew, drafts, device, buffers, Idle
<1>2. config' = config /\ inputs' = inputs /\ hidden' = hidden /\ outputs' = outputs
      /\ gathered' = gathered
  BY <1>1 DEF Idle
<1>3. /\ Runner' = Runner /\ K' = K /\ \A g : MaxRows(g)' = MaxRows(g) /\ R(g)' = R(g)
  BY <1>2, FixedConfig
<1>4. Host'
  BY <1>1, <1>2, <1>3 DEF Host, Pcs, Drafts, Verifying
<1>5. Captured(new)' <=> Captured(new)
  BY <1>1, <1>3 DEF Captured, CanRun, Fits
<1>6. CASE Captured(new)
  <2>1. PICK lens : lens = new
    OBVIOUS
  <2>2. PICK g \in Runner : g = Verify(lens[1])
    BY <1>6, <2>1 DEF Captured
  <2>3. lens \in Seq(config.prompts) /\ config.prompts \subseteq Nat
    BY <1>1, <2>1, GraphAssumption DEF Host
  <2>4. PICK B \in Nat : B = Len(lens) /\ Fits(B)
    BY <1>1, <1>6, <2>1, <2>3, CapturedEven
  <2>5. PICK c : c = NewCall
    OBVIOUS
  <2>6. Run(g, c, B, None)
    BY <1>6, <2>1, <2>2, <2>4, <2>5 DEF VerifyNew, Forward, Captured
  <2>7. PICK o : o = None
    OBVIOUS
  <2>8. PICK op : op = ReplayOp(g, c, B)
    OBVIOUS
  <2>9. PICK hc : hc = HiddenCopy(g, 0, o)
    OBVIOUS
  <2>10. HiddenAreIts(op)'
    BY <2>5, <2>8, VerifyNeedsNone DEF ReplayOp
  <2>11. Sized' /\ Streamed' /\ No("gather")' /\ No("cat")' /\ No("hidden")'
    BY <1>1, <1>2, <2>4, <2>6, <2>7, <2>8, <2>9, <2>10, RunKeeps
  <2>12. Phases'
    BY <1>1, <1>5, <1>6, <2>11 DEF Phases, Drained, InVerify, InExtend, Extended, InDraft, InLevel
  <2> QED BY <1>4, <2>11, <2>12 DEF GInv
<1>7. CASE ~Captured(new)
  <2>1. /\ stage' = stage /\ stream' = stream
        /\ outs' = IF new = << >> THEN outs ELSE Append(outs, Fresh(RowsOf(NewCall, new)))
    BY <1>7 DEF VerifyNew, Forward, Captured
  <2>2. outs = Out(RunningCall, running)
    BY <1>1, <1>7 DEF InVerify, Forwarded
  <2>3. outs' = Out(RunningCall, running) \o Out(NewCall, new)
    <3>1. PICK y : y = Fresh(RowsOf(NewCall, new))
      OBVIOUS
    <3>2. PICK X : outs \in Seq(X) /\ y \in X
      <4>1. PICK x : outs = << >> \/ outs = <<x>>
        BY <2>2 DEF Out
      <4>2. << >> \in Seq({x, y}) /\ <<x>> \in Seq({x, y}) /\ y \in {x, y}
        OBVIOUS
      <4> QED BY <4>1, <4>2
    <3>3. Append(outs, y) = outs \o <<y>>
      BY <3>2, AppendIsConcat
    <3>4. outs \o << >> = outs
      BY <3>2
    <3>5. Out(NewCall, new) = IF new = << >> THEN << >> ELSE <<y>>
      BY <1>7, <3>1 DEF Out
    <3> QED BY <2>1, <2>2, <3>1, <3>3, <3>4, <3>5
  <2>4. Sized'
    BY <1>1, <1>2, <1>3, <2>1 DEF Sized
  <2>5. \A y : No(y)' <=> No(y)
    BY <2>1 DEF No
  <2>6. \A g, call, B : Serves(g, call, B) => Serves(g, call, B)'
    BY <1>1, <2>1, StillServes
  <2>7. Streamed'
    BY <1>1, <2>1, StreamStays
  <2>8. InVerify'
    <3>1. /\ Out(RunningCall, running)' = Out(RunningCall, running)
          /\ Out(NewCall, new)' = Out(NewCall, new)
          /\ IF Captured(running)' THEN Serves(Verify(running[1]), RunningCall, Len(running))'
             ELSE No("copy")' /\ No("replay")'
      BY <1>1, <1>2, <1>7, <2>5, <2>6, RunningForwarded
    <3>2. No("hidden")' /\ No("gather")' /\ No("cat")'
      BY <1>1, <2>5 DEF InVerify
    <3>3. pc' # "new" /\ pc' # "accept"
      BY <1>1
    <3> QED BY <2>3, <3>1, <3>2, <3>3 DEF InVerify, Forwarded
  <2>9. Phases'
    BY <1>1, <2>8 DEF Phases, Drained, InExtend, Extended, InDraft, InLevel
  <2> QED BY <1>4, <2>4, <2>7, <2>9 DEF GInv
<1> QED BY <1>6, <1>7

\* The outputs are concatenated behind the forwards.
LEMMA CatKeeps ==
    ASSUME GInv, Cat
    PROVE  GInv'
<1>1. /\ Sized /\ Host /\ Streamed /\ InVerify /\ pc = "cat" /\ pc' = "accept" /\ Verifying
      /\ running' = running /\ new' = new /\ outs' = outs /\ Idle /\ stage' = stage
      /\ alive' = alive /\ level' = level /\ up' = up
  BY DEF GInv, Phases, Verifying, Cat, batch, drafts, device, buffers, Idle
<1>2. config' = config /\ inputs' = inputs /\ hidden' = hidden /\ outputs' = outputs
  BY <1>1 DEF Idle
<1>3. /\ Runner' = Runner /\ K' = K /\ \A g : MaxRows(g)' = MaxRows(g) /\ R(g)' = R(g)
  BY <1>2, FixedConfig
<1>4. Host'
  BY <1>1, <1>2, <1>3 DEF Host, Pcs, Drafts, Verifying
<1>5. Sized'
  BY <1>1, <1>2, <1>3 DEF Sized
<1>6. PICK o : o = [op |-> "cat", outs |-> outs]
  OBVIOUS
<1>7. o.op = "cat" /\ o.outs = outs /\ stream' = Append(stream, o)
  BY <1>6 DEF Cat
<1>8. No("hidden") /\ No("gather") /\ No("cat")
  BY <1>1 DEF InVerify
<1>9. PICK x : x = "cat"
  OBVIOUS
<1>10. /\ Streamed'
       /\ \A y : y # x => (No(y)' <=> No(y))
       /\ ~No(x)' /\ \A j \in DOMAIN stream' : stream'[j].op = x => stream'[j] = o
       /\ \A g, call, B : Serves(g, call, B) => Serves(g, call, B)'
  BY <1>1, <1>7, <1>8, <1>9, ReaderEnqueued
<1>11. InVerify'
  <2>1. /\ Out(RunningCall, running)' = Out(RunningCall, running)
        /\ Out(NewCall, new)' = Out(NewCall, new)
        /\ Captured(new)' <=> Captured(new)
        /\ ~Captured(new) =>
               IF Captured(running)' THEN Serves(Verify(running[1]), RunningCall, Len(running))'
               ELSE No("copy")' /\ No("replay")'
    BY <1>1, <1>2, <1>9, <1>10, RunningForwarded
  <2>2. No("hidden")' /\ No("gather")' /\ ~No("cat")'
    BY <1>8, <1>9, <1>10
  <2>3. Scored'
    BY <1>1, <1>7, <1>9, <1>10, <2>2 DEF Scored
  <2>4. ~Captured(new) => outs' = Out(RunningCall, running) \o Out(NewCall, new)
    BY <1>1 DEF InVerify, Forwarded
  <2> QED BY <1>1, <2>1, <2>2, <2>3, <2>4 DEF InVerify, Forwarded
<1>12. Phases'
  BY <1>1, <1>11 DEF Phases, Drained, InExtend, Extended, InDraft, InLevel
<1> QED BY <1>4, <1>5, <1>10, <1>12 DEF GInv

\* Acceptance leaves requests with rows.
LEMMA AcceptKeeps ==
    ASSUME GInv, Accept
    PROVE  GInv'
<1>1. /\ Sized /\ Host /\ pc = "accept" /\ stream' = << >> /\ config' = config
      /\ running' = << >> /\ new' = << >> /\ outs' = << >> /\ level' = level /\ up' = up
      /\ UNCHANGED <<stage, inputs, hidden, outputs>>
      /\ pc' = IF alive' = << >> THEN "idle" ELSE "extend"
  BY DEF GInv, Accept, buffers
<1>2. /\ Runner' = Runner /\ K' = K /\ \A g : MaxRows(g)' = MaxRows(g) /\ R(g)' = R(g)
  BY <1>1, FixedConfig
<1>3. alive' \in Seq(Nat \ {0}) /\ (alive' # << >> => config.depth # 0)
  <2>1. PICK rows \in [1 .. Len(running \o new) -> 0 .. Max(Range(running \o new))] :
             alive' = IF config.depth = 0 THEN << >> ELSE Drafters(rows)
    BY DEF Accept
  <2>2. Len(running \o new) \in Nat
    <3>1. running \in Seq(Nat) /\ new \in Seq(Nat)
      <4>1. config.prompts \subseteq Nat
        BY <1>1, GraphAssumption DEF Host
      <4> QED BY <1>1, <4>1 DEF Host
    <3>2. running \o new \in Seq(Nat)
      BY <3>1
    <3> QED BY <3>2
  <2>3. PICK m \in Nat : m = Len(running \o new)
    BY <2>2
  <2>4. PICK x : x = Max(Range(running \o new))
    OBVIOUS
  <2>5. rows \in [1 .. m -> 0 .. x]
    BY <2>1, <2>3, <2>4
  <2>6. Drafters(rows) \in Seq(Nat \ {0})
    BY <2>5, DraftersHaveRows
  <2> QED BY <2>1, <2>6
<1>4. config.depth \in Nat /\ level = 0
  BY <1>1, RunnerRows DEF Host
<1>5. Host'
  BY <1>1, <1>2, <1>3, <1>4 DEF Host, Pcs, Drafts, Verifying
<1>6. Sized'
  BY <1>1, <1>2 DEF Sized
<1>7. Streamed'
  BY <1>1, EmptyStream
<1>8. Phases'
  BY <1>1 DEF Phases, Drained, InVerify, Verifying, InExtend, Extended, InDraft, InLevel
<1> QED BY <1>5, <1>6, <1>7, <1>8 DEF GInv

\* One row is kept of every request.
OneEach(kept, D) == DOMAIN kept = 1 .. D /\ Len(kept) = D

\* Every row of a request in a level is the one kept of it.
Fills(rows, kept, D) ==
    \A b \in 1 .. D, i \in 1 .. K :
        (b - 1) * K + i \in DOMAIN rows /\ rows[(b - 1) * K + i] = kept[b]

\* What is kept is spread over the level.
LEMMA SpreadFills ==
    ASSUME K \in Nat \ {0}, NEW D \in Nat, NEW kept, OneEach(kept, D)
    PROVE  Fills(Spread(kept), kept, D)
<1>1. PICK k \in Nat \ {0} : k = K
  OBVIOUS
<1>2. Spread(kept) = [r \in 1 .. D * k |-> kept[((r - 1) \div k) + 1]]
  BY <1>1 DEF Spread, OneEach
<1>3. ASSUME NEW b \in 1 .. D, NEW i \in 1 .. k
      PROVE  (b - 1) * k + i \in DOMAIN Spread(kept) /\ Spread(kept)[(b - 1) * k + i] = kept[b]
  <2>1. PICK p \in Nat : p = (b - 1) * k + i /\ p \in 1 .. (D * k) /\ ((p - 1) \div k) + 1 = b
    <3>1. (b - 1) * k + i \in 1 .. (D * k)
      BY PlaceWithin
    <3>2. b - 1 \in Nat
      OBVIOUS
    <3>3. (((b - 1) * k + i) - 1) \div k = b - 1
      BY <3>2, Places
    <3> QED BY <3>1, <3>3
  <2> QED BY <1>2, <2>1
<1> QED BY <1>1, <1>3 DEF Fills

\* The drafter begins on the verified rows of every request.
LEMMA BeginExtendKeeps ==
    ASSUME GInv, BeginExtend
    PROVE  GInv'
<1>1. /\ Sized /\ Host /\ pc = "extend" /\ stream = << >> /\ Idle
      /\ running' = running /\ new' = new /\ outs' = outs /\ stage' = stage
      /\ alive' = alive /\ level' = level /\ up' = up /\ level = 0 /\ outs = << >>
  BY DEF GInv, Phases, Drained, Host, Verifying, BeginExtend, batch, device, buffers, Idle
<1>2. config' = config /\ inputs' = inputs /\ hidden' = hidden /\ outputs' = outputs
  BY <1>1 DEF Idle
<1>3. /\ Runner' = Runner /\ K' = K /\ Extend' = Extend
      /\ \A g : MaxRows(g)' = MaxRows(g) /\ R(g)' = R(g)
  BY <1>2, FixedConfig
<1>4. Sized'
  BY <1>1, <1>2, <1>3 DEF Sized
<1>5. PICK D \in Nat : D = Drafting /\ DOMAIN alive = 1 .. D
  BY <1>1 DEF Host, Drafting
<1>6. pc' \in {"extended", "draft"}
  BY DEF BeginExtend
<1>7. Host'
  BY <1>1, <1>2, <1>3, <1>6 DEF Host, Pcs, Drafts, Verifying
<1>8. CASE Extends
  <2>1. pc' = "extended" /\ stream' = ExtendHidden
    BY <1>8 DEF BeginExtend, Extends
  <2>2. PICK s : s = ExtendHidden
    OBVIOUS
  <2>3. s = [b \in 1 .. D |-> HiddenCopy(Extend, (b - 1) * R(Extend), Aux(b))]
    BY <1>5, <2>2 DEF ExtendHidden
  <2>4. PICK X : s \in Seq(X)
    <3> DEFINE X == {s[b] : b \in 1 .. D}
    <3>1. s = [b \in 1 .. D |-> s[b]]
      BY <2>3
    <3>2. \A b \in 1 .. D : s[b] \in X
      OBVIOUS
    <3> HIDE DEF X
    <3>3. s \in [1 .. D -> X]
      BY <3>1, <3>2
    <3> QED BY <3>3
  <2>5. Len(s) = D /\ DOMAIN s = 1 .. D
    BY <2>3, <2>4
  <2>6. \A j \in DOMAIN stream' : stream'[j].op = "hidden"
    BY <2>1, <2>2, <2>3, <2>5 DEF HiddenCopy
  <2>7. Listed'
    BY <2>1, <2>2, <2>4 DEF Listed
  <2>8. Streamed'
    BY <2>6, <2>7 DEF Streamed, InOrder, Ops, Legal, InputsReady, HiddenReady
  <2>9. InExtend'
    <3>1. Drafting' = D /\ Len(stream') = D /\ \A b : Aux(b)' = Aux(b)
      BY <1>1, <1>5, <2>1, <2>2, <2>5 DEF Drafting, Aux
    <3>2. Extends'
      BY <1>1, <1>3, <1>8, <3>1, <1>5 DEF Extends, Fits
    <3>3. D - D = 0
      BY <1>5
    <3>4. Written(Drafting - Len(stream))'
      BY <3>1, <3>3 DEF Written
    <3>5. ASSUME NEW j \in DOMAIN stream'
          PROVE  stream'[j] = HiddenCopy(Extend', (Drafting' - Len(stream') + j - 1) * R(Extend)',
                                         Aux(Drafting - Len(stream) + j)')
      <4>1. j \in 1 .. D /\ stream'[j] = HiddenCopy(Extend, (j - 1) * R(Extend), Aux(j))
        BY <2>1, <2>2, <2>3, <2>5
      <4>2. Drafting' - Len(stream') + j = j /\ Drafting' - Len(stream') + j - 1 = j - 1
        BY <1>5, <3>1, <4>1
      <4>3. Aux(Drafting - Len(stream) + j)' = Aux(j)
        BY <1>1, <4>2 DEF Aux
      <4>4. R(Extend)' = R(Extend)
        BY <1>3 DEF R
      <4> QED BY <1>3, <4>1, <4>2, <4>3, <4>4, Zenon
    <3> QED BY <3>1, <3>2, <3>4, <3>5 DEF InExtend
  <2>10. Phases'
    BY <2>1, <2>9 DEF Phases, Drained, InVerify, Verifying, Extended, InDraft, InLevel
  <2> QED BY <1>4, <1>7, <2>8, <2>10 DEF GInv
<1>9. CASE ~Extends
  <2>1. PICK rows : rows = Spread([b \in DOMAIN alive |-> Row(ExtendCall, b, alive[b])])
    OBVIOUS
  <2>2. pc' = "draft" /\ stream' = stream /\ hid' = Fresh(rows)
    BY <1>9, <2>1 DEF BeginExtend, Extends
  <2>3. Streamed' /\ stream' = << >> /\ \A y : No(y)'
    BY <1>1, <2>2, EmptyStream
  <2>4. PICK kept : kept = [b \in 1 .. D |-> Row(ExtendCall, b, alive[b])]
    OBVIOUS
  <2>5. OneEach(kept, D) /\ rows = Spread(kept)
    BY <1>5, <2>1, <2>4 DEF OneEach
  <2>6. PICK k \in Nat \ {0} : k = K
    BY <1>1, RunnerRows
  <2>7. \A b \in 1 .. D, i \in 1 .. k :
            (b - 1) * k + i \in DOMAIN rows /\ rows[(b - 1) * k + i] = kept[b]
    <3>1. Fills(Spread(kept), kept, D)
      BY <2>5, <2>6, SpreadFills
    <3> QED BY <2>5, <2>6, <3>1 DEF Fills
  <2>8. Nourish(rows)'
    <3>1. \A b, i : Feed(b, i)' = Row(ExtendCall, b, alive[b])
      BY <1>1 DEF Feed, ExtendCall
    <3>2. Drafting' = D /\ K' = k
      BY <1>1, <1>3, <1>5, <2>6 DEF Drafting
    <3> QED BY <2>4, <2>7, <3>1, <3>2 DEF Nourish
  <2>9. PICK r : r = rows
    OBVIOUS
  <2>10. hid' = Fresh(r) /\ Nourish(r)'
    BY <2>2, <2>8, <2>9 DEF Nourish
  <2>11. InDraft'
    BY <1>1, <2>3, <2>10 DEF InDraft, Fresh
  <2>12. Phases'
    BY <2>2, <2>11 DEF Phases, Drained, InVerify, Verifying, Extended, InExtend, InLevel
  <2> QED BY <1>4, <1>7, <2>3, <2>12 DEF GInv
<1> QED BY <1>8, <1>9

\* The extend runs on the rows written before it.
LEMMA RunExtendKeeps ==
    ASSUME GInv, RunExtend
    PROVE  GInv'
<1>1. /\ Sized /\ Host /\ InExtend /\ pc = "extended" /\ pc' = "extended_last" /\ Idle
      /\ running' = running /\ new' = new /\ outs' = outs /\ outs = << >>
      /\ alive' = alive /\ level' = level /\ up' = up
      /\ Run(Extend, ExtendCall, Drafting, None)
  BY DEF GInv, Phases, Host, Verifying, RunExtend, batch, drafts, device, buffers, Idle
<1>2. config' = config /\ inputs' = inputs /\ hidden' = hidden /\ outputs' = outputs
  BY <1>1 DEF Idle
<1>3. /\ Runner' = Runner /\ K' = K /\ Extend' = Extend
      /\ \A g : MaxRows(g)' = MaxRows(g) /\ R(g)' = R(g)
  BY <1>2, FixedConfig
<1>4. Host'
  BY <1>1, <1>2, <1>3 DEF Host, Pcs, Drafts, Verifying
<1>5. PICK D \in Nat : D = Drafting /\ Fits(D)
  BY <1>1 DEF Host, Drafting, InExtend, Extends
<1>6. PICK g \in Runner : g = Extend
  BY <1>1, RunnerRows DEF Host, Drafts
<1>7. PICK c : c = ExtendCall
  OBVIOUS
<1>8. PICK o : o = None
  OBVIOUS
<1>9. PICK op : op = ReplayOp(g, c, D)
  OBVIOUS
<1>10. PICK hc : hc = HiddenCopy(g, 0, o)
  OBVIOUS
<1>11. op.runner = g /\ op.call = c /\ op.batch = D
  BY <1>9 DEF ReplayOp
<1>12. Written(D)
  <2>1. stream = << >>
    BY <1>1 DEF Run, Planned
  <2>2. Drafting - Len(stream) = D
    BY <1>5, <2>1
  <2> QED BY <1>1, <2>2 DEF InExtend
<1>13. HiddenAreIts(op)'
  <2>1. ASSUME NEW b \in 1 .. D, NEW i \in 1 .. R(g)
        PROVE  Belongs(hidden[g][(b - 1) * R(g) + i], op, b, i)'
    <3>1. alive[b] \in Nat
      <4>1. PICK a \in Seq(Nat \ {0}) : a = alive
        BY <1>1 DEF Host
      <4> QED BY <1>5, <4>1 DEF Drafting
    <3>2. i <= alive[b] => hidden[g][(b - 1) * R(g) + i] = Row(AuxRows, b, i)
      BY <1>6, <1>12, <3>1 DEF Written
    <3>3. R(g)' = R(g)
      BY <1>3
    <3>4. PICK x : x = hidden[g][(b - 1) * R(g) + i]
      OBVIOUS
    <3>0. op.call = ExtendCall /\ op.call # LevelCall(1) /\ op.call[1] # "level"
      BY <1>7, <1>11 DEF ExtendCall, LevelCall
    <3>5. Belongs(x, op, b, i)'
      BY <1>1, <3>0, <3>2, <3>4 DEF Belongs, ExtendCall, LevelCall
    <3>6. x = hidden[g][(b - 1) * R(g) + i]'
      BY <1>2, <3>3, <3>4
    <3> QED BY <3>5, <3>6 DEF Belongs
  <2>2. R(g)' = R(g)
    BY <1>3
  <2> QED BY <1>11, <2>1, <2>2 DEF HiddenAreIts
<1>14. Run(g, c, D, o)
  BY <1>1, <1>5, <1>6, <1>7, <1>8
<1>15. /\ Sized' /\ Streamed' /\ ~No("replay")'
       /\ \A j \in DOMAIN stream' : stream'[j].op = "replay" => stream'[j] = op
       /\ No("gather")' /\ No("cat")' /\ No("hidden")'
  BY <1>1, <1>2, <1>5, <1>8, <1>9, <1>10, <1>13, <1>14, RunKeeps
<1>16. Serves(g, c, D)'
  BY <1>11, <1>15, RunServes
<1>17. Extended'
  <2>1. Drafting' = D
    BY <1>1, <1>5 DEF Drafting
  <2>2. Extends'
    BY <1>1, <1>3, <1>5, <2>1 DEF InExtend, Extends, Fits
  <2>3. Serves(Extend, ExtendCall, Drafting)'
    BY <1>3, <1>6, <1>7, <1>16, <2>1 DEF Serves, ExtendCall
  <2> QED BY <1>15, <2>2, <2>3 DEF Extended
<1>18. Phases'
  BY <1>1, <1>17 DEF Phases, Drained, InVerify, Verifying, InExtend, InDraft, InLevel
<1> QED BY <1>4, <1>15, <1>18 DEF GInv

\* The last row of every request is gathered behind the extend.
LEMMA KeepLastKeeps ==
    ASSUME GInv, KeepLast
    PROVE  GInv'
<1>1. /\ Sized /\ Host /\ Streamed /\ Extended /\ pc = "extended_last" /\ pc' = "draft" /\ Idle
      /\ running' = running /\ new' = new /\ outs' = outs /\ outs = << >> /\ stage' = stage
      /\ alive' = alive /\ level' = level /\ up' = up /\ level = 0 /\ hid' = Gathered
  BY DEF GInv, Phases, Host, Verifying, KeepLast, batch, device, buffers, Idle
<1>2. config' = config /\ inputs' = inputs /\ hidden' = hidden /\ outputs' = outputs
  BY <1>1 DEF Idle
<1>3. /\ Runner' = Runner /\ K' = K /\ Extend' = Extend
      /\ \A g : MaxRows(g)' = MaxRows(g) /\ R(g)' = R(g)
  BY <1>2, FixedConfig
<1>4. Host'
  BY <1>1, <1>2, <1>3 DEF Host, Pcs, Drafts, Verifying
<1>5. Sized'
  BY <1>1, <1>2, <1>3 DEF Sized
<1>6. PICK o : o = GatherOp
  OBVIOUS
<1>7. o.op = "gather" /\ stream' = Append(stream, o)
  BY <1>1, <1>6 DEF KeepLast, GatherOp, Gather
<1>8. Extends /\ No("gather") /\ No("cat") /\ Serves(Extend, ExtendCall, Drafting)
  BY <1>1 DEF Extended
<1>9. PICK x : x = "gather"
  OBVIOUS
<1>10. /\ Streamed'
       /\ \A y : y # x => (No(y)' <=> No(y))
       /\ ~No(x)' /\ \A j \in DOMAIN stream' : stream'[j].op = x => stream'[j] = o
       /\ \A g, call, B : Serves(g, call, B) => Serves(g, call, B)'
  BY <1>1, <1>7, <1>8, <1>9, ReaderEnqueued
<1>11. Nourished'
  <2>1. GatherOp' = o
    BY <1>1, <1>2, <1>6 DEF GatherOp, Gather, View, Bucket, R, Spread, LastRow, ParentRow, K, Extend,
       Draft, Drafting
  <2> QED BY <1>9, <1>10, <2>1 DEF Nourished
<1>12. Serves(Extend, ExtendCall, Drafting)' /\ Extends'
  <2>1. PICK g : g = Extend
    OBVIOUS
  <2>2. PICK D : D = Drafting
    OBVIOUS
  <2>3. PICK c : c = ExtendCall
    OBVIOUS
  <2>4. Serves(g, c, D)'
    BY <1>8, <1>10, <2>1, <2>2, <2>3
  <2>5. Serves(Extend, ExtendCall, Drafting)'
    BY <1>1, <1>3, <2>1, <2>2, <2>3, <2>4 DEF Serves, ExtendCall, Drafting
  <2> QED BY <1>1, <1>3, <1>8, <2>5 DEF Extends, Fits, Drafting
<1>13. InDraft'
  <2>1. No("cat")' /\ hid' = Gathered' /\ Fits(Drafting)'
    BY <1>1, <1>8, <1>9, <1>10, <1>12 DEF Gathered, Extends
  <2> QED BY <1>1, <1>11, <1>12, <2>1 DEF InDraft
<1>14. Phases'
  BY <1>1, <1>13 DEF Phases, Drained, InVerify, Verifying, InExtend, Extended, InLevel
<1> QED BY <1>4, <1>5, <1>10, <1>14 DEF GInv

\* The drafter has what the next level is fed.
LEMMA FeedReady ==
    ASSUME Sized, Host, InDraft, pc = "draft", stream = << >>, Fits(Drafting)
    PROVE  Nourish(Contents(hid)) /\ hid # None
<1>1. \A y : No(y)
  BY DEF No
<1>2. PICK k \in Nat \ {0} : k = K
  BY RunnerRows
<1>3. PICK D \in Nat \ {0} : D = Drafting
  <2>1. PICK a \in Seq(Nat \ {0}) : a = alive
    BY DEF Host
  <2>2. a # << >>
    BY <2>1 DEF Host, Drafts
  <2>3. Len(a) \in Nat \ {0}
    BY <2>2
  <2> QED BY <2>1, <2>3 DEF Drafting
<1>4. ASSUME hid = Gathered, Nourished PROVE Nourish(Contents(hid)) /\ hid # None
  <2>1. Nourish(gathered)
    BY <1>1, <1>4 DEF Nourished
  <2>2. Contents(Gathered) = gathered /\ Gathered # None
    BY DEF Contents, Gathered, None, Fresh
  <2> QED BY <1>4, <2>1, <2>2
<1>5. ASSUME NEW rows, hid = Fresh(rows), Nourish(rows) PROVE Nourish(Contents(hid)) /\ hid # None
  <2>1. Contents(Fresh(rows)) = rows
    BY DEF Contents, Fresh
  <2>2. rows # << >>
    <3>1. 1 \in 1 .. D /\ 1 \in 1 .. k
      OBVIOUS
    <3>2. (1 - 1) * k + 1 \in DOMAIN rows
      BY <1>2, <1>3, <1>5, <3>1 DEF Nourish
    <3> QED BY <3>2
  <2>3. Fresh(rows) # None
    BY <2>2 DEF Fresh, None
  <2> QED BY <1>5, <2>1, <2>3
<1>6. CASE level = 0
  BY <1>4, <1>5, <1>6 DEF InDraft
<1>7. CASE level > 0
  <2>1. CASE K # 1
    BY <1>4, <1>7, <2>1 DEF InDraft
  <2>2. CASE K = 1
    <3>1. PICK g \in Runner : g = Draft /\ R(g) = 1
      BY <2>2, RunnerRows DEF Host, Drafts
    <3>2. PICK c : c = LevelCall(level)
      OBVIOUS
    <3>3. hid = View(g, D) /\ Serves(g, c, D)
      BY <1>3, <1>7, <2>2, <3>1, <3>2 DEF InDraft
    <3>4. PICK rows : rows = Contents(hid)
      OBVIOUS
    <3>5. /\ \A b \in 1 .. D, i \in 1 .. R(g) :
                 /\ (b - 1) * R(g) + i \in 1 .. (D * R(g))
                 /\ rows[(b - 1) * R(g) + i] = Row(c, b, i)
          /\ rows = [r \in 1 .. D * R(g) |-> NameAt(c, R(g), r)]
      <4>1. Fits(D) /\ No("replay") /\ Serves(g, c, D)
        BY <1>1, <1>3, <3>3
      <4>2. /\ Contents(View(g, D)) = [r \in 1 .. D * R(g) |-> NameAt(c, R(g), r)]
            /\ \A b \in 1 .. D, i \in 1 .. R(g) :
                  /\ (b - 1) * R(g) + i \in 1 .. (D * R(g))
                  /\ Contents(View(g, D))[(b - 1) * R(g) + i] = Row(c, b, i)
        BY <4>1, ViewNames
      <4> QED BY <3>3, <3>4, <4>2
    <3>6. up[1] = 1
      <4>1. up[1] \in 1 .. 1
        BY <2>2 DEF Host
      <4> QED BY <4>1
    <3>7. \A b \in 1 .. D, i \in 1 .. 1 : Feed(b, i) = Row(c, b, i)
      BY <1>7, <3>2, <3>6 DEF Feed
    <3>8. Nourish(rows)
      <4>1. \A b \in 1 .. D, i \in 1 .. 1 :
                (b - 1) * 1 + i \in DOMAIN rows /\ rows[(b - 1) * 1 + i] = Row(c, b, i)
        BY <3>1, <3>5
      <4>2. Drafting = D /\ K = 1
        BY <1>3, <2>2
      <4>3. \A b \in 1 .. Drafting, i \in 1 .. K :
                (b - 1) * K + i \in DOMAIN rows /\ rows[(b - 1) * K + i] = Feed(b, i)
        BY <3>7, <4>1, <4>2
      <4> QED BY <4>3 DEF Nourish
    <3>9. View(g, D) # None
      BY DEF View, None, Fresh
    <3> QED BY <3>3, <3>4, <3>8, <3>9
  <2> QED BY <2>1, <2>2
<1> QED BY <1>6, <1>7 DEF Host

\* A level's forward is fed the rows its nodes hang off.
LEMMA DraftLevelKeeps ==
    ASSUME GInv, DraftLevel
    PROVE  GInv'
<1>1. /\ Sized /\ Host /\ Streamed /\ InDraft /\ pc = "draft" /\ Idle
      /\ running' = running /\ new' = new /\ outs' = outs /\ outs = << >>
      /\ alive' = alive /\ level' = level + 1 /\ level \in Nat /\ up' = up
  BY DEF GInv, Phases, Host, Verifying, DraftLevel, batch, device, buffers, Idle
<1>2. config' = config /\ inputs' = inputs /\ hidden' = hidden /\ outputs' = outputs
      /\ gathered' = gathered
  BY <1>1 DEF Idle
<1>3. /\ Runner' = Runner /\ K' = K /\ Draft' = Draft
      /\ \A g : MaxRows(g)' = MaxRows(g) /\ R(g)' = R(g)
  BY <1>2, FixedConfig
<1>4. pc' = IF K > 1 /\ Fits(Drafting) THEN "level" ELSE "draft"
  BY DEF DraftLevel
<1>5. Host'
  BY <1>1, <1>2, <1>3, <1>4 DEF Host, Pcs, Drafts, Verifying
<1>6. PICK D \in Nat : D = Drafting /\ Drafting' = D
  BY <1>1 DEF Host, Drafting
<1>7. PICK l \in Nat : l = level /\ level' = l + 1
  BY <1>1
<1>8. CASE Fits(Drafting)
  <2>1. Run(Draft, LevelCall(level'), Drafting, hid) /\ hid' = View(Draft, Drafting)
    BY <1>8 DEF DraftLevel
  <2>2. PICK g \in Runner : g = Draft
    BY <1>1, RunnerRows DEF Host, Drafts
  <2>3. PICK c : c = LevelCall(l + 1)
    OBVIOUS
  <2>4. PICK o : o = hid
    OBVIOUS
  <2>5. PICK op : op = ReplayOp(g, c, D)
    OBVIOUS
  <2>6. PICK hc : hc = HiddenCopy(g, 0, o)
    OBVIOUS
  <2>7. op.runner = g /\ op.call = c /\ op.batch = D /\ op.up = up
    BY <2>5 DEF ReplayOp
  <2>8. hc.runner = g /\ hc.at = 0 /\ hc.from = o
    BY <2>6 DEF HiddenCopy
  <2>9. Run(g, c, D, o)
    BY <1>6, <1>7, <2>1, <2>2, <2>3, <2>4
  <2>10. stream = << >>
    BY <2>9 DEF Run, Planned
  <2>11. PICK k \in Nat \ {0} : k = K /\ R(g) = k
    BY <1>1, <2>2, RunnerRows
  <2>12. PICK rows : rows = Contents(o)
    OBVIOUS
  <2>13. o # None /\ \A b \in 1 .. D, i \in 1 .. k :
             (b - 1) * k + i \in DOMAIN rows /\ rows[(b - 1) * k + i] = Feed(b, i)
    BY <1>1, <1>6, <1>8, <2>4, <2>10, <2>11, <2>12, FeedReady DEF Nourish
  <2>14. ASSUME NEW b \in 1 .. D, NEW i \in 1 .. k
         PROVE  Belongs(rows[(b - 1) * k + i], op, b, i)'
    <3>1. PICK row : row = rows[(b - 1) * k + i] /\ row = Feed(b, i)
      BY <2>13
    <3>2. op.call[1] = "level" /\ op.call[2] = l + 1 /\ op.call # ExtendCall
          /\ (op.call = LevelCall(1) <=> l = 0)
      BY <2>3, <2>7 DEF LevelCall, ExtendCall
    <3>3. Belongs(row, op, b, i)'
      <4>1. CASE l = 0
        <5>1. row = Row(ExtendCall, b, alive[b])
          BY <1>7, <3>1, <4>1 DEF Feed
        <5>2. op.call # ExtendCall /\ op.call = LevelCall(1) /\ ~(op.call[2] > 1)
          BY <3>2, <4>1
        <5> QED BY <1>1, <5>1, <5>2 DEF Belongs, ExtendCall, LevelCall
      <4>2. CASE l # 0
        <5>1. row = Row(LevelCall(l), b, up[i])
          BY <1>7, <3>1, <4>2 DEF Feed
        <5>2. op.call # ExtendCall /\ op.call # LevelCall(1) /\ op.call[1] = "level"
              /\ op.call[2] > 1 /\ op.call[2] - 1 = l
          BY <3>2, <4>2
        <5> QED BY <2>7, <5>1, <5>2 DEF Belongs, ExtendCall, LevelCall
      <4> QED BY <4>1, <4>2
    <3> QED BY <3>1, <3>3 DEF Belongs
  <2>15. Feeds(hc, op)'
    <3>1. Contents(o)' = rows
      BY <1>2, <2>12 DEF Contents
    <3>2. R(g)' = k
      BY <1>3, <2>11
    <3> QED BY <2>7, <2>8, <2>13, <2>14, <3>1, <3>2 DEF Feeds
  <2>16. /\ Sized' /\ Streamed' /\ ~No("replay")'
         /\ \A j \in DOMAIN stream' : stream'[j].op = "replay" => stream'[j] = op
         /\ No("gather")' /\ No("cat")'
    BY <1>1, <1>2, <1>6, <1>8, <2>5, <2>6, <2>9, <2>13, <2>15, RunKeeps
  <2>17. Serves(g, c, D)'
    BY <2>7, <2>16, RunServes
  <2>18. Serves(Draft, LevelCall(level), Drafting)'
    BY <1>3, <1>6, <1>7, <2>2, <2>3, <2>17 DEF Serves, LevelCall
  <2>19. hid' = View(Draft, Drafting)' /\ Fits(Drafting)' /\ level' > 0 /\ level' # 0
    BY <1>1, <1>2, <1>3, <1>6, <1>7, <1>8, <2>1 DEF View, Bucket, R, Fits
  <2>20. InDraft'
    BY <1>3, <1>4, <1>8, <2>11, <2>16, <2>18, <2>19 DEF InDraft
  <2>21. InLevel'
    BY <1>3, <1>4, <1>8, <2>16, <2>18, <2>19 DEF InLevel
  <2>22. Phases'
    BY <1>4, <2>20, <2>21 DEF Phases, Drained, InVerify, Verifying, InExtend, Extended
  <2> QED BY <1>5, <2>16, <2>22 DEF GInv
<1>9. CASE ~Fits(Drafting)
  <2>1. stage' = stage /\ stream' = << >> /\ pc' = "draft"
    BY <1>1, <1>4, <1>9 DEF DraftLevel, InDraft
  <2>2. Sized'
    BY <1>1, <1>2, <1>3, <2>1 DEF Sized
  <2>3. Streamed' /\ \A y : No(y)'
    BY <2>1, EmptyStream
  <2>4. InDraft'
    <3>1. ~Fits(Drafting)' /\ level' # 0
      BY <1>6, <1>7, <1>9 DEF Fits
    <3> QED BY <2>1, <2>3, <3>1 DEF InDraft
  <2>5. Phases'
    BY <2>1, <2>4 DEF Phases, Drained, InVerify, Verifying, InExtend, Extended, InLevel
  <2> QED BY <1>5, <2>2, <2>3, <2>5 DEF GInv
<1> QED BY <1>8, <1>9

\* The parents' rows are gathered behind the level.
LEMMA KeepParentsKeeps ==
    ASSUME GInv, KeepParents
    PROVE  GInv'
<1>1. /\ Sized /\ Host /\ Streamed /\ InLevel /\ pc = "level" /\ pc' = "draft" /\ Idle
      /\ running' = running /\ new' = new /\ outs' = outs /\ outs = << >> /\ stage' = stage
      /\ alive' = alive /\ level' = level /\ up' \in [1 .. K -> 1 .. K] /\ hid' = Gathered
  BY DEF GInv, Phases, Host, Verifying, KeepParents, batch, device, buffers, Idle
<1>2. config' = config /\ inputs' = inputs /\ hidden' = hidden /\ outputs' = outputs
  BY <1>1 DEF Idle
<1>3. /\ Runner' = Runner /\ K' = K /\ Draft' = Draft
      /\ \A g : MaxRows(g)' = MaxRows(g) /\ R(g)' = R(g)
  BY <1>2, FixedConfig
<1>4. Host'
  BY <1>1, <1>2, <1>3 DEF Host, Pcs, Drafts, Verifying
<1>5. Sized'
  BY <1>1, <1>2, <1>3 DEF Sized
<1>6. K > 1 /\ Fits(Drafting) /\ level > 0 /\ No("gather") /\ No("cat") /\ hid = View(Draft, Drafting)
      /\ Serves(Draft, LevelCall(level), Drafting)
  BY <1>1 DEF InLevel
<1>7. PICK o : o = Gather(hid, [r \in 1 .. Drafting * K |-> ((r - 1) \div K) * K + up'[((r - 1) % K) + 1]])
  OBVIOUS
<1>8. o.op = "gather" /\ stream' = Append(stream, o)
  BY <1>7 DEF KeepParents, Gather
<1>9. PICK x : x = "gather"
  OBVIOUS
<1>10. /\ Streamed'
       /\ \A y : y # x => (No(y)' <=> No(y))
       /\ ~No(x)' /\ \A j \in DOMAIN stream' : stream'[j].op = x => stream'[j] = o
       /\ \A g, call, B : Serves(g, call, B) => Serves(g, call, B)'
  BY <1>1, <1>6, <1>8, <1>9, ReaderEnqueued
<1>11. PICK D : D = Drafting /\ Drafting' = D
  BY <1>1 DEF Drafting
<1>12. level' # 0 /\ level # 0 /\ level' > 0
  BY <1>1, <1>6 DEF Host
<1>13. Nourished'
  <2>1. View(Draft, Drafting)' = hid
    BY <1>3, <1>6, <1>11 DEF View, Bucket, R
  <2>2. GatherOp' = o
    BY <1>3, <1>7, <1>11, <1>12, <2>1 DEF GatherOp, ParentRow, Gather
  <2> QED BY <1>9, <1>10, <2>2 DEF Nourished
<1>14. Serves(Draft, LevelCall(level), Drafting)'
  <2>1. PICK g : g = Draft
    OBVIOUS
  <2>2. PICK c : c = LevelCall(level)
    OBVIOUS
  <2>3. Serves(g, c, D)'
    BY <1>6, <1>10, <1>11, <2>1, <2>2
  <2> QED BY <1>1, <1>3, <1>11, <2>1, <2>2, <2>3 DEF Serves, LevelCall
<1>15. InDraft'
  <2>1. No("cat")' /\ hid' = Gathered' /\ Fits(Drafting)' /\ K' # 1
    BY <1>1, <1>3, <1>6, <1>9, <1>10, <1>11 DEF Gathered, Fits
  <2> QED BY <1>12, <1>13, <1>14, <2>1 DEF InDraft
<1>16. Phases'
  BY <1>1, <1>15 DEF Phases, Drained, InVerify, Verifying, InExtend, Extended, InLevel
<1> QED BY <1>4, <1>5, <1>10, <1>16 DEF GInv

\* The drafts are read back.
LEMMA EndDraftKeeps ==
    ASSUME GInv, EndDraft
    PROVE  GInv'
<1>1. /\ Sized /\ Host /\ pc = "draft" /\ pc' = "idle" /\ stream' = << >> /\ config' = config
      /\ running' = running /\ new' = new /\ outs' = outs /\ alive' = << >> /\ level' = 0
      /\ up' = All(K, 1) /\ UNCHANGED <<stage, inputs, hidden, outputs>>
  BY DEF GInv, EndDraft, batch, buffers
<1>2. /\ Runner' = Runner /\ K' = K /\ \A g : MaxRows(g)' = MaxRows(g) /\ R(g)' = R(g)
  BY <1>1, FixedConfig
<1>3. up' \in [1 .. K -> 1 .. K]
  <2>1. PICK k \in Nat \ {0} : k = K
    BY <1>1, RunnerRows
  <2>2. 1 \in 1 .. k
    OBVIOUS
  <2> QED BY <1>1, <2>1, <2>2 DEF All
<1>4. Host'
  BY <1>1, <1>2, <1>3 DEF Host, Pcs, Drafts, Verifying
<1>5. Sized'
  BY <1>1, <1>2 DEF Sized
<1>6. Streamed'
  BY <1>1, EmptyStream
<1>7. Phases'
  BY <1>1 DEF Phases, Drained, InVerify, Verifying, InExtend, Extended, InDraft, InLevel
<1> QED BY <1>4, <1>5, <1>6, <1>7 DEF GInv

----------------------------------------------------------------------------
(***************************************************************************)
(* The theorems.                                                           *)
(***************************************************************************)
\* Nothing is enqueued at first and every buffer has its size.
LEMMA InitGraphs == Init => GInv
<1> SUFFICES ASSUME Init PROVE GInv
  OBVIOUS
<1>1. config \in Configs /\ pc = "idle" /\ stream = << >> /\ alive = << >> /\ level = 0
      /\ running = << >> /\ new = << >> /\ outs = << >> /\ up = All(K, 1)
  BY DEF Init
<1>2. K \in Nat \ {0}
  BY <1>1, GraphAssumption DEF K
<1>3. up \in [1 .. K -> 1 .. K]
  <2>1. PICK k \in Nat \ {0} : k = K
    BY <1>2
  <2>2. 1 \in 1 .. k
    OBVIOUS
  <2> QED BY <1>1, <2>1, <2>2 DEF All
<1>4. Host
  BY <1>1, <1>3 DEF Host, Pcs, Drafts, Verifying
<1>5. Sized
  BY DEF Init, Sized, Clear, ClearOutputs, All
<1>6. Streamed
  <2>1. << >> \in Seq({}) /\ DOMAIN << >> = {}
    OBVIOUS
  <2>2. Listed
    BY <1>1, <2>1 DEF Listed
  <2> QED BY <1>1, <2>1, <2>2 DEF Streamed, InOrder, Legal, InputsReady, HiddenReady
<1>7. Phases
  BY <1>1 DEF Phases, Drained, InVerify, Verifying, InExtend, Extended, InDraft, InLevel
<1> QED BY <1>4, <1>5, <1>6, <1>7 DEF GInv

\* A step of nobody's changes nothing.
LEMMA StutterGraphs ==
    ASSUME GInv, UNCHANGED vars
    PROVE  GInv'
<1>1. /\ Sized /\ Host /\ Streamed /\ Phases /\ Idle /\ Untouched
      /\ stream' = stream /\ h' = h
  BY DEF GInv, vars, batch, drafts, device, buffers, Idle, Untouched
<1>2. config' = config /\ pc' = pc /\ running' = running /\ new' = new /\ outs' = outs /\ alive' = alive
      /\ level' = level /\ up' = up /\ hid' = hid /\ stage' = stage
      /\ inputs' = inputs /\ hidden' = hidden /\ outputs' = outputs /\ gathered' = gathered
  BY <1>1 DEF Idle, Untouched
<1>3. /\ SameConfig /\ Host' /\ Extends' = Extends /\ Verifying' = Verifying
  BY <1>1, DeviceKeepsHost
<1>4. /\ Runner' = Runner /\ K' = K /\ Draft' = Draft /\ Extend' = Extend
      /\ \A g : MaxRows(g)' = MaxRows(g) /\ R(g)' = R(g)
  BY <1>2, FixedConfig
<1>5. Sized'
  BY <1>1, <1>2, <1>4 DEF Sized
<1>6. Streamed'
  BY <1>1, <1>2, StreamStays
<1>7. \A y : No(y)' <=> No(y)
  BY <1>1 DEF No
<1>8. \A g, call, B : Serves(g, call, B) => Serves(g, call, B)'
  BY <1>1, StillServes
<1>9. PICK D : D = Drafting /\ Drafting' = D
  BY <1>2 DEF Drafting
<1>10. Serves(Extend, ExtendCall, Drafting) => Serves(Extend, ExtendCall, Drafting)'
  <2>1. PICK g : g = Extend
    OBVIOUS
  <2>2. Serves(g, ExtendCall, D) => Serves(g, ExtendCall, D)'
    BY <1>8
  <2> QED BY <1>4, <1>9, <2>1, <2>2 DEF Serves, ExtendCall
<1>11. Serves(Draft, LevelCall(level), Drafting) => Serves(Draft, LevelCall(level), Drafting)'
  <2>1. PICK g : g = Draft
    OBVIOUS
  <2>2. PICK c : c = LevelCall(level)
    OBVIOUS
  <2>3. Serves(g, c, D) => Serves(g, c, D)'
    BY <1>8
  <2> QED BY <1>2, <1>4, <1>9, <2>1, <2>2, <2>3 DEF Serves, LevelCall
<1>12. /\ Out(RunningCall, running)' = Out(RunningCall, running)
       /\ Out(NewCall, new)' = Out(NewCall, new)
       /\ Captured(new)' <=> Captured(new)
       /\ Verifying /\ ~Captured(new) =>
              IF Captured(running)' THEN Serves(Verify(running[1]), RunningCall, Len(running))'
              ELSE No("copy")' /\ No("replay")'
  BY <1>1, <1>2, <1>7, <1>8, RunningForwarded DEF Phases
<1>13. GatherOp' = GatherOp /\ Nourish(gathered)' = Nourish(gathered)
       /\ RowsOf(RunningCall, running)' = RowsOf(RunningCall, running)
       /\ RowsOf(NewCall, new)' = RowsOf(NewCall, new)
  BY <1>1, <1>2, PlansKept
<1>14. Drained'
  BY <1>1, <1>2 DEF Phases, Drained
<1>15. InVerify'
  <2>1. InVerify
    BY <1>1 DEF Phases
  <2>2. Scored => Scored'
    BY <1>1, <1>2, <1>7, <1>13 DEF Scored
  <2> QED BY <1>2, <1>3, <1>7, <1>12, <2>1, <2>2 DEF InVerify, Forwarded
<1>16. InExtend'
  <2>1. InExtend
    BY <1>1 DEF Phases
  <2>2. \A m : Written(m) => Written(m)'
    BY <1>2, <1>4 DEF Written
  <2>3. \A b : Aux(b)' = Aux(b)
    BY <1>2 DEF Aux
  <2>4. PICK m : m = Drafting - Len(stream)
    OBVIOUS
  <2>5. Written(Drafting - Len(stream)) => Written(Drafting - Len(stream))'
    BY <1>1, <1>9, <2>2, <2>4 DEF Written
  <2> QED BY <1>1, <1>2, <1>3, <1>4, <1>9, <2>1, <2>3, <2>5 DEF InExtend, Aux
<1>17. Extended'
  BY <1>1, <1>2, <1>3, <1>7, <1>10 DEF Phases, Extended
<1>18. InLevel'
  BY <1>1, <1>2, <1>4, <1>7, <1>9, <1>11 DEF Phases, InLevel, Fits, View, Bucket, R
<1>19. InDraft'
  <2> SUFFICES ASSUME pc = "draft" PROVE InDraft'
    BY <1>2 DEF InDraft
  <2>1. InDraft
    BY <1>1 DEF Phases
  <2>2. Nourished => Nourished'
    BY <1>1, <1>7, <1>13 DEF Nourished
  <2>3. \A rows : Nourish(rows) => Nourish(rows)'
    BY <1>2, <1>4, <1>9 DEF Nourish, Feed, ExtendCall, LevelCall
  <2>4. (\E rows : hid = Fresh(rows) /\ Nourish(rows)) => (\E rows : hid = Fresh(rows) /\ Nourish(rows))'
    BY <1>2, <2>3 DEF Fresh
  <2>5. Fits(Drafting)' = Fits(Drafting) /\ View(Draft, Drafting)' = View(Draft, Drafting) /\ Gathered' = Gathered
    BY <1>4, <1>9 DEF Fits, View, Bucket, R, Gathered
  <2> QED BY <1>1, <1>2, <1>3, <1>4, <1>7, <1>10, <1>11, <2>1, <2>2, <2>4, <2>5 DEF InDraft
<1>20. Phases'
  BY <1>14, <1>15, <1>16, <1>17, <1>18, <1>19 DEF Phases
<1> QED BY <1>3, <1>5, <1>6, <1>20 DEF GInv

\* Every step keeps the invariant.
LEMMA StepGraphs ==
    ASSUME GInv, [Next]_vars
    PROVE  GInv'
<1>1. CASE BeginStep
  BY <1>1, BeginKeeps
<1>2. CASE VerifyRunning
  BY <1>2, VerifyRunningKeeps
<1>3. CASE VerifyNew
  BY <1>3, VerifyNewKeeps
<1>4. CASE Cat
  BY <1>4, CatKeeps
<1>5. CASE Accept
  BY <1>5, AcceptKeeps
<1>6. CASE BeginExtend
  BY <1>6, BeginExtendKeeps
<1>7. CASE RunExtend
  BY <1>7, RunExtendKeeps
<1>8. CASE KeepLast
  BY <1>8, KeepLastKeeps
<1>9. CASE DraftLevel
  BY <1>9, DraftLevelKeeps
<1>10. CASE KeepParents
  BY <1>10, KeepParentsKeeps
<1>11. CASE EndDraft
  BY <1>11, EndDraftKeeps
<1>12. CASE Copy
  BY <1>12, CopyKeeps
<1>13. CASE CopyHidden
  BY <1>13, HiddenKeeps
<1>14. CASE Replay
  BY <1>14, ReplayKeeps
<1>15. CASE Index
  BY <1>15, IndexKeeps
<1>16. CASE Concatenate
  BY <1>16, ConcatenateKeeps
<1>17. CASE UNCHANGED vars
  BY <1>17, StutterGraphs
<1> QED BY <1>1, <1>2, <1>3, <1>4, <1>5, <1>6, <1>7, <1>8, <1>9, <1>10, <1>11, <1>12, <1>13, <1>14, <1>15,
           <1>16, <1>17 DEF Next

\* Every call's rows and hidden rows are on their way ahead of its replay, and every output
\* stays until it is read. (engine/graphs.py _load, engine.py _run)
THEOREM GraphInvariant == Spec => []GInv
<1>1. Init => GInv
  BY InitGraphs
<1>2. GInv /\ [Next]_vars => GInv'
  BY StepGraphs
<1> QED BY <1>1, <1>2, PTL DEF Spec

\* A graph is replayed on the rows of the call that asked for it, pad rows after them, and
\* on the hidden rows of the same text: never on what a batch before left in the static
\* buffers. (GraphRunner._load, GraphRunner.run; engine.py _draft_extend, _draft_forward)
THEOREM ReplaysOwnBatch == Spec => []ReplaysItsBatch
<1>1. GInv => ReplaysItsBatch
  <2> SUFFICES ASSUME GInv, stream # << >>, Head(stream).op = "replay"
               PROVE  InputsAreIts(Head(stream)) /\ HiddenAreIts(Head(stream))
    BY DEF ReplaysItsBatch
  <2>1. PICK X : stream \in Seq(X)
    BY DEF GInv, Streamed, Listed
  <2>2. 1 \in DOMAIN stream /\ Head(stream) = stream[1]
    BY <2>1
  <2>3. stream[1].op = "replay" /\ stream[1].op # "copy" /\ ~(1 > 1)
    BY <2>2
  <2>4. InputsAreIts(stream[1])
    BY <2>2, <2>3 DEF GInv, Streamed, InputsReady
  <2>5. HiddenAreIts(stream[1])
    BY <2>2, <2>3 DEF GInv, Streamed, HiddenReady
  <2> QED BY <2>2, <2>4, <2>5
<1>2. Spec => []GInv
  BY GraphInvariant
<1> QED BY <1>1, <1>2, PTL

\* Acceptance scores the rows of the step's own two forwards, in order, though the first
\* one's output is a view read after the second was enqueued. (engine.py _run, _accept)
THEOREM AcceptsOwnRows ==
    ASSUME PromptsApart
    PROVE  Spec => []AcceptsItsRows
<1>1. GInv => AcceptsItsRows
  <2>1. GInv => ~Captured(new)
    BY NewIsPlain DEF GInv
  <2> QED BY <2>1 DEF GInv, Phases, InVerify, Forwarded, Verifying, Scored, No, AcceptsItsRows
<1>2. Spec => []GInv
  BY GraphInvariant
<1> QED BY <1>1, <1>2, PTL
=============================================================================

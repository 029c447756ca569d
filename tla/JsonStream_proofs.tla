-------------------------- MODULE JsonStream_proofs -------------------------
(***************************************************************************)
(* Theorems about the streaming JSON parser, for all texts, all ways to    *)
(* cut them, all options and limits.                                       *)
(*                                                                         *)
(* EventsKeepProtocol: what the callback is told is what JsonEvents        *)
(* promises; a refinement, whose inductive invariant Seats says how the    *)
(* state and the stack of containers belong together.                      *)
(*                                                                         *)
(* EveryLoopAdvances: every turn of a token loop takes input.  Reads says  *)
(* what every token of the lexer leaves behind, Buffered what the loops    *)
(* work on.                                                                *)
(*                                                                         *)
(* HeldBytesAreKept: what is held between calls is the end of what was     *)
(* fed.  Keeps says of the lexer that a cut token's bytes are those it     *)
(* read, Tracked says it of the buffers.                                   *)
(*                                                                         *)
(* FinishedWasComplete: finish says OK of a whole value only.  Counted     *)
(* relates the events told to the stack; Started says what a stream that   *)
(* has told nothing can have read, and needs Tracked.                      *)
(*                                                                         *)
(* CutStringsAreWhole, CutNumbersAreWhole: what the lexer makes of a token *)
(* does not depend on where a chunk cut it.                                *)
(***************************************************************************)
EXTENDS JsonStream, DataLemmas

Kinds  == {"ARRAY", "OBJECT"}
Opened == [kind : Kinds, keyed : BOOLEAN]
States == {"INIT", "VALUE", "EXPECT_VALUE", "OBJECT_KEY", "OBJECT_VALUE", "DONE", "ERROR"}

Seats ==
    /\ state \in States
    /\ stack \in Seq(Kinds)
    /\ state = "INIT" => stack = <<>> /\ told = <<>>
    /\ state \in {"VALUE", "EXPECT_VALUE", "OBJECT_KEY", "OBJECT_VALUE"} => stack # <<>>
    /\ state \in {"OBJECT_KEY", "OBJECT_VALUE"} => InObject

-----------------------------------------------------------------------------
(* The containers that the protocol sees open.                             *)

KeyedIn(st, sk, k) == k = Len(sk) /\ sk[k] = "OBJECT" /\ st \in {"OBJECT_VALUE", "EXPECT_VALUE"}
OpenOf(st, sk) ==
    IF st \in Over THEN <<>>
    ELSE [k \in 1..Len(sk) |-> [kind |-> sk[k], keyed |-> KeyedIn(st, sk, k)]]

LEMMA OpenNowIs ==
  /\ OpenNow = OpenOf(state, stack)
  /\ OpenNow' = OpenOf(state', stack')
BY DEF OpenNow, OpenOf, KeyedIn

LEMMA OpenProperties ==
  ASSUME NEW st, st \notin Over, NEW sk \in Seq(Kinds)
  PROVE  /\ OpenOf(st, sk) \in Seq(Opened)
         /\ Len(OpenOf(st, sk)) = Len(sk) /\ DOMAIN OpenOf(st, sk) = 1..Len(sk)
         /\ \A k \in 1..Len(sk) :
              OpenOf(st, sk)[k].kind = sk[k] /\ (OpenOf(st, sk)[k].keyed <=> KeyedIn(st, sk, k))
         /\ sk = <<>> <=> OpenOf(st, sk) = <<>>
<1> DEFINE f == OpenOf(st, sk)
<1>1. Len(sk) \in Nat /\ \A k \in 1..Len(sk) : sk[k] \in Kinds
  BY LenProperties, ElementOfSeq
<1>2. \A k \in 1..Len(sk) : KeyedIn(st, sk, k) \in BOOLEAN
  BY DEF KeyedIn
<1>3. f = [k \in 1..Len(sk) |-> [kind |-> sk[k], keyed |-> KeyedIn(st, sk, k)]]
  BY DEF OpenOf
<1> HIDE DEF f
<1>4. f \in [1..Len(sk) -> Opened]
  BY <1>1, <1>2, <1>3 DEF Opened
<1>5. f \in Seq(Opened) /\ Len(f) = Len(sk) /\ DOMAIN f = 1..Len(sk)
  BY <1>1, <1>4, TupleIsSeq
<1>6. \A k \in 1..Len(sk) : f[k].kind = sk[k] /\ (f[k].keyed <=> KeyedIn(st, sk, k))
  BY <1>3
<1>7. sk = <<>> <=> f = <<>>
  BY <1>5, EmptySeq
<1> QED BY <1>5, <1>6, <1>7 DEF f

\* Two states and stacks show the same containers when the kinds are the same
\* and the innermost one is keyed in both or in none.
LEMMA SameOpen ==
  ASSUME NEW st, st \notin Over, NEW other \in Seq(Opened), NEW sk \in Seq(Kinds),
         Len(other) = Len(sk),
         \A k \in 1..Len(sk) : other[k].kind = sk[k] /\ (other[k].keyed <=> KeyedIn(st, sk, k))
  PROVE  other = OpenOf(st, sk)
<1>1. PICK f \in Seq(Opened) :
           /\ f = OpenOf(st, sk) /\ Len(f) = Len(sk)
           /\ \A k \in 1..Len(sk) : f[k].kind = sk[k] /\ (f[k].keyed <=> KeyedIn(st, sk, k))
  BY OpenProperties
<1>2. ASSUME NEW k \in 1..Len(sk) PROVE other[k] = f[k]
  <2>1. other[k] \in Opened /\ f[k] \in Opened
    BY <1>1, ElementOfSeq
  <2>2. other[k].kind = f[k].kind /\ (other[k].keyed <=> f[k].keyed)
    BY <1>1
  <2> QED BY <2>1, <2>2 DEF Opened
<1> QED BY <1>1, <1>2, SeqEqual

LEMMA TopKeyed ==
  ASSUME NEW open \in Seq(Opened), open # <<>>, NEW v \in BOOLEAN
  PROVE  \E new \in Seq(Opened) :
           /\ new = [open EXCEPT ![Len(open)].keyed = v]
           /\ Len(new) = Len(open)
           /\ \A k \in 1..Len(open) : new[k].kind = open[k].kind
           /\ \A k \in 1..Len(open) : k # Len(open) => (new[k].keyed <=> open[k].keyed)
           /\ new[Len(open)].keyed <=> v
<1> DEFINE n == Len(open)
<1>1. n \in Nat /\ n # 0 /\ n \in 1..n /\ open \in [1..n -> Opened]
  BY LenProperties, EmptySeq, SeqDef
<1>2. open[n] \in Opened
  BY <1>1
<1>3. PICK top \in Opened : top = [open[n] EXCEPT !.keyed = v] /\ top.kind = open[n].kind /\ top.keyed = v
  <2>1. PICK x \in Opened : x = open[n]
    BY <1>2
  <2>2. PICK top : top = [x EXCEPT !.keyed = v]
    OBVIOUS
  <2>3. top = [kind |-> x.kind, keyed |-> v] /\ x.kind \in Kinds
    BY <2>2 DEF Opened
  <2>4. top \in Opened
    BY <2>3 DEF Opened
  <2> QED BY <2>1, <2>2, <2>3, <2>4
<1>4. PICK new : new = [open EXCEPT ![n].keyed = v]
  OBVIOUS
<1>5. new = [open EXCEPT ![n] = top]
  BY <1>3, <1>4
<1>6. new \in [1..n -> Opened] /\ \A k \in 1..n : new[k] = IF k = n THEN top ELSE open[k]
  BY <1>1, <1>3, <1>5
<1>7. new \in Seq(Opened) /\ Len(new) = n
  BY <1>1, <1>6, TupleIsSeq
<1>8. \A k \in 1..n : new[k].kind = open[k].kind
  BY <1>1, <1>3, <1>6
<1>9. \A k \in 1..n : k # n => (new[k].keyed <=> open[k].keyed)
  BY <1>6
<1>10. new[n] = top
  BY <1>1, <1>6
<1>11. new[n].keyed <=> v
  BY <1>3, <1>10
<1> QED BY <1>4, <1>7, <1>8, <1>9, <1>11

\* What the steps of the protocol do to the open containers.
LEMMA OpenAfterValue ==
  ASSUME NEW st, st \notin Over, NEW sk \in Seq(Kinds), NEW open, open = OpenOf(st, sk)
  PROVE  OpenOf("VALUE", sk)
           = IF open = <<>> THEN open ELSE [open EXCEPT ![Len(open)].keyed = FALSE]
<1>1. /\ open \in Seq(Opened) /\ Len(open) = Len(sk)
      /\ \A k \in 1..Len(sk) : open[k].kind = sk[k] /\ (open[k].keyed <=> KeyedIn(st, sk, k))
      /\ sk = <<>> <=> open = <<>>
  BY OpenProperties
<1>2. "VALUE" \notin Over
  BY DEF Over
<1>3. CASE open = <<>>
  BY <1>1, <1>2, <1>3, OpenProperties
<1>4. CASE open # <<>>
  <2>1. PICK v \in BOOLEAN : v = FALSE
    OBVIOUS
  <2>2. PICK new \in Seq(Opened) :
           /\ new = [open EXCEPT ![Len(open)].keyed = v]
           /\ Len(new) = Len(open)
           /\ \A k \in 1..Len(open) : new[k].kind = open[k].kind
           /\ \A k \in 1..Len(open) : k # Len(open) => (new[k].keyed <=> open[k].keyed)
           /\ new[Len(open)].keyed <=> v
    BY <1>1, <1>4, <2>1, TopKeyed
  <2>3. \A k \in 1..Len(sk) : ~KeyedIn("VALUE", sk, k)
    BY DEF KeyedIn
  <2>4. \A k \in 1..Len(sk) : k # Len(sk) => ~KeyedIn(st, sk, k)
    BY DEF KeyedIn
  <2>5. \A k \in 1..Len(sk) : new[k].keyed <=> KeyedIn("VALUE", sk, k)
    BY <1>1, <2>1, <2>2, <2>3, <2>4
  <2>6. new = OpenOf("VALUE", sk)
    <3>1. Len(new) = Len(sk) /\ \A k \in 1..Len(sk) : new[k].kind = sk[k]
      BY <1>1, <2>2
    <3>2. \A k \in 1..Len(sk) : new[k].kind = sk[k] /\ (new[k].keyed <=> KeyedIn("VALUE", sk, k))
      BY <2>5, <3>1
    <3> QED BY <1>2, <3>1, <3>2, SameOpen
  <2>7. OpenOf("VALUE", sk) = [open EXCEPT ![Len(open)].keyed = FALSE]
    BY <2>1, <2>2, <2>6, Zenon
  <2> QED BY <1>4, <2>7
<1> QED BY <1>3, <1>4

LEMMA OpenKeyed ==
  ASSUME NEW st, st \notin Over, NEW next \in {"OBJECT_VALUE", "EXPECT_VALUE"},
         NEW sk \in Seq(Kinds), sk # <<>>, sk[Len(sk)] = "OBJECT", NEW open, open = OpenOf(st, sk)
  PROVE  OpenOf(next, sk) = [open EXCEPT ![Len(open)].keyed = TRUE]
<1>1. /\ open \in Seq(Opened) /\ Len(open) = Len(sk)
      /\ \A k \in 1..Len(sk) : open[k].kind = sk[k] /\ (open[k].keyed <=> KeyedIn(st, sk, k))
      /\ open # <<>>
  BY OpenProperties
<1>2. next \notin Over
  BY DEF Over
<1>3. PICK v \in BOOLEAN : v = TRUE
  OBVIOUS
<1>4. PICK new \in Seq(Opened) :
         /\ new = [open EXCEPT ![Len(open)].keyed = v]
         /\ Len(new) = Len(open)
         /\ \A k \in 1..Len(open) : new[k].kind = open[k].kind
         /\ \A k \in 1..Len(open) : k # Len(open) => (new[k].keyed <=> open[k].keyed)
         /\ new[Len(open)].keyed <=> v
  BY <1>1, <1>3, TopKeyed
<1>5. \A k \in 1..Len(sk) : KeyedIn(next, sk, k) <=> k = Len(sk)
  BY DEF KeyedIn
<1>6. \A k \in 1..Len(sk) : k # Len(sk) => ~KeyedIn(st, sk, k)
  BY DEF KeyedIn
<1>7. \A k \in 1..Len(sk) : new[k].keyed <=> KeyedIn(next, sk, k)
  BY <1>1, <1>3, <1>4, <1>5, <1>6
<1>8. new = OpenOf(next, sk)
  <2>1. Len(new) = Len(sk) /\ \A k \in 1..Len(sk) : new[k].kind = sk[k]
    BY <1>1, <1>4
  <2>2. \A k \in 1..Len(sk) : new[k].kind = sk[k] /\ (new[k].keyed <=> KeyedIn(next, sk, k))
    BY <1>7, <2>1
  <2> QED BY <1>2, <2>1, <2>2, SameOpen
<1> QED BY <1>3, <1>4, <1>8, Zenon

LEMMA OpenPushed ==
  ASSUME NEW kind \in Kinds, NEW next, next = IF kind = "ARRAY" THEN "EXPECT_VALUE" ELSE "OBJECT_KEY",
         NEW sk \in Seq(Kinds)
  PROVE  OpenOf(next, Append(sk, kind)) = Append(OpenOf("VALUE", sk), [kind |-> kind, keyed |-> FALSE])
<1> DEFINE top == [kind |-> kind, keyed |-> FALSE]
<1>1. "VALUE" \notin Over /\ next \notin Over
  BY DEF Over
<1>2. PICK open \in Seq(Opened) :
        /\ open = OpenOf("VALUE", sk) /\ Len(open) = Len(sk)
        /\ \A k \in 1..Len(sk) : open[k].kind = sk[k] /\ (open[k].keyed <=> KeyedIn("VALUE", sk, k))
  BY <1>1, OpenProperties
<1>3. \A k \in 1..Len(sk) : ~KeyedIn("VALUE", sk, k)
  BY DEF KeyedIn
<1>4. Len(sk) \in Nat /\ top \in Opened
  BY LenProperties DEF Opened
<1>5. PICK sk2 \in Seq(Kinds) :
        /\ sk2 = Append(sk, kind) /\ Len(sk2) = Len(sk) + 1
        /\ \A k \in 1..Len(sk) : sk2[k] = sk[k]
        /\ sk2[Len(sk) + 1] = kind
  BY AppendProperties
<1>6. PICK new \in Seq(Opened) :
        /\ new = Append(open, top) /\ Len(new) = Len(sk) + 1
        /\ \A k \in 1..Len(sk) : new[k] = open[k]
        /\ new[Len(sk) + 1] = top
  <2>1. PICK new : new = Append(open, top)
    OBVIOUS
  <2>2. /\ new \in Seq(Opened) /\ Len(new) = Len(open) + 1
        /\ \A k \in 1..Len(open) : new[k] = open[k]
        /\ new[Len(open) + 1] = top
    <3> HIDE DEF top
    <3> QED BY <1>4, <2>1, AppendProperties
  <2> QED BY <1>2, <2>1, <2>2, ZenonT(60)
<1>7. \A k \in 1..Len(sk2) : k \in 1..Len(sk) \/ k = Len(sk) + 1
  BY <1>4, <1>5
<1>8. \A k \in 1..Len(sk2) : new[k].kind = sk2[k] /\ ~new[k].keyed
  BY <1>2, <1>3, <1>5, <1>6, <1>7
<1>9. \A k \in 1..Len(sk2) : ~KeyedIn(next, sk2, k)
  <2>1. ~(kind = "OBJECT" /\ next \in {"OBJECT_VALUE", "EXPECT_VALUE"})
    OBVIOUS
  <2>2. sk2[Len(sk2)] = kind
    BY <1>5
  <2> QED BY <2>1, <2>2 DEF KeyedIn
<1>10. new = OpenOf(next, sk2)
  <2>1. Len(new) = Len(sk2) /\ next \notin Over
    BY <1>1, <1>5, <1>6
  <2>2. \A k \in 1..Len(sk2) : new[k].kind = sk2[k] /\ (new[k].keyed <=> KeyedIn(next, sk2, k))
    BY <1>8, <1>9
  <2>3. new \in Seq(Opened) /\ sk2 \in Seq(Kinds)
    BY <1>5, <1>6
  <2> QED BY <2>1, <2>2, <2>3, SameOpen
<1> QED BY <1>2, <1>5, <1>6, <1>10

LEMMA OpenPopped ==
  ASSUME NEW st, st \notin Over, NEW sk \in Seq(Kinds), sk # <<>>, NEW open, open = OpenOf(st, sk),
         NEW next, next = IF Len(sk) = 1 THEN "DONE" ELSE "VALUE"
  PROVE  /\ OpenOf(next, Front(sk)) = SubSeq(open, 1, Len(open) - 1)
         /\ Front(sk) \in Seq(Kinds)
         /\ next = "VALUE" => Front(sk) # <<>>
<1>1. /\ open \in Seq(Opened) /\ Len(open) = Len(sk) /\ open # <<>>
      /\ \A k \in 1..Len(sk) : open[k].kind = sk[k] /\ (open[k].keyed <=> KeyedIn(st, sk, k))
  BY OpenProperties
<1>2. PICK n \in Nat : Len(sk) = n + 1 /\ Len(sk) - 1 = n
  <2>1. Len(sk) \in Nat /\ Len(sk) # 0
    BY LenProperties, EmptySeq
  <2> QED BY <2>1
<1>3. PICK front \in Seq(Kinds) :
         front = Front(sk) /\ Len(front) = n /\ \A k \in 1..n : front[k] = sk[k]
  <2>1. PICK front \in Seq(Kinds) :
           front = Front(sk) /\ Len(front) = Len(sk) - 1
           /\ \A k \in 1..(Len(sk) - 1) : front[k] = sk[k]
    BY FrontProperties
  <2> QED BY <1>2, <2>1
<1>4. PICK new \in Seq(Opened) :
         /\ new = SubSeq(open, 1, Len(open) - 1)
         /\ Len(new) = Len(open) - 1 /\ \A k \in 1..(Len(open) - 1) : new[k] = open[k]
  <2>1. open \in Seq(Opened) /\ open # <<>>
    BY <1>1
  <2> QED BY <2>1, FrontProperties
<1>5. Len(new) = n /\ \A k \in 1..n : new[k] = open[k]
  BY <1>1, <1>2, <1>4
<1>6. CASE n = 0
  <2>1. next = "DONE"
    BY <1>2, <1>6
  <2>2. OpenOf(next, front) = <<>>
    BY <2>1 DEF OpenOf, Over
  <2>3. new = <<>>
    BY <1>5, <1>6, EmptySeq
  <2> QED BY <1>3, <1>4, <2>1, <2>2, <2>3
<1>7. CASE n # 0
  <2>1. next = "VALUE" /\ next \notin Over
    BY <1>2, <1>7 DEF Over
  <2>2. ASSUME NEW k \in 1..n
        PROVE  new[k].kind = front[k] /\ ~new[k].keyed /\ ~KeyedIn(next, front, k)
    <3>1. k \in 1..Len(sk) /\ k # Len(sk)
      BY <1>2
    <3>2. open[k].kind = sk[k] /\ ~open[k].keyed
      BY <1>1, <3>1 DEF KeyedIn
    <3>3. ~KeyedIn(next, front, k)
      BY <2>1 DEF KeyedIn
    <3> QED BY <1>3, <1>5, <3>2, <3>3
  <2>3. new = OpenOf(next, front)
    <3>1. \A k \in 1..Len(front) : new[k].kind = front[k] /\ (new[k].keyed <=> KeyedIn(next, front, k))
      BY <1>3, <2>2
    <3> QED BY <1>3, <1>5, <2>1, <3>1, SameOpen
  <2>4. front # <<>>
    BY <1>3, <1>7, EmptySeq
  <2> QED BY <1>3, <1>4, <2>3, <2>4
<1> QED BY <1>6, <1>7


-----------------------------------------------------------------------------
(* One step, seen by the protocol.                                         *)

Kept == Seats' /\ [Protocol!Next]_(Protocol!vars)

LEMMA QuietStep ==
  ASSUME Seats, state' = state, stack' = stack, told' = told
  PROVE  Kept
<1>1. Seats'
  BY DEF Seats, InObject
<1>2. OpenNow' = OpenNow
  BY OpenNowIs
<1> QED BY <1>1, <1>2 DEF Kept, Protocol!vars

\* A call fails or the value is complete, and nothing is told.
LEMMA EndedStep ==
  ASSUME Seats, state' \in Over, stack' = stack, told' = told
  PROVE  Kept
<1>1. Seats'
  BY DEF Seats, Over, States
<1>2. OpenNow' = <<>> /\ (state' \in Over) = TRUE
  BY OpenNowIs DEF OpenOf
<1>3. CASE state \in Over
  <2>1. OpenNow = <<>>
    BY <1>3, OpenNowIs DEF OpenOf
  <2> QED BY <1>1, <1>2, <1>3, <2>1 DEF Kept, Protocol!vars
<1>4. CASE state \notin Over
  BY <1>1, <1>2, <1>4 DEF Kept, Protocol!Next, Protocol!Fail
<1> QED BY <1>3, <1>4

\* The innermost container, if there is one.
LEMMA InnermostIs ==
  ASSUME Seats, state \notin Over
  PROVE  /\ OpenNow = <<>> <=> stack = <<>>
         /\ stack # <<>> =>
              /\ Len(stack) \in 1..Len(stack) /\ Len(OpenNow) = Len(stack)
              /\ Last(stack) = stack[Len(stack)] /\ Last(stack) \in Kinds
              /\ Protocol!Innermost.kind = Last(stack)
              /\ Protocol!Innermost.keyed <=>
                   Last(stack) = "OBJECT" /\ state \in {"OBJECT_VALUE", "EXPECT_VALUE"}
<1>1. stack \in Seq(Kinds) /\ OpenNow = OpenOf(state, stack)
  BY OpenNowIs DEF Seats
<1>2. /\ Len(OpenNow) = Len(stack) /\ (stack = <<>> <=> OpenNow = <<>>)
      /\ \A k \in 1..Len(stack) :
           OpenNow[k].kind = stack[k] /\ (OpenNow[k].keyed <=> KeyedIn(state, stack, k))
  BY <1>1, OpenProperties
<1>3. ASSUME stack # <<>>
      PROVE  /\ Len(stack) \in 1..Len(stack) /\ Len(OpenNow) = Len(stack)
             /\ Last(stack) = stack[Len(stack)] /\ Last(stack) \in Kinds
             /\ Protocol!Innermost.kind = Last(stack)
             /\ Protocol!Innermost.keyed <=>
                  Last(stack) = "OBJECT" /\ state \in {"OBJECT_VALUE", "EXPECT_VALUE"}
  <2>1. Len(stack) \in 1..Len(stack)
    BY <1>1, <1>3, LenProperties, EmptySeq
  <2>2. Last(stack) = stack[Len(stack)] /\ Last(stack) \in Kinds
    BY <1>1, <2>1, ElementOfSeq DEF Last
  <2>3. Protocol!Innermost = OpenNow[Len(stack)]
    BY <1>2 DEF Protocol!Innermost
  <2>4. KeyedIn(state, stack, Len(stack)) <=>
          Last(stack) = "OBJECT" /\ state \in {"OBJECT_VALUE", "EXPECT_VALUE"}
    BY <2>2 DEF KeyedIn
  <2>5. /\ OpenNow[Len(stack)].kind = stack[Len(stack)]
        /\ OpenNow[Len(stack)].keyed <=> KeyedIn(state, stack, Len(stack))
    BY <1>2, <2>1
  <2> QED BY <1>2, <2>1, <2>2, <2>3, <2>4, <2>5
<1> QED BY <1>2, <1>3

LEMMA ValueMayBegin ==
  ASSUME Seats, state \in {"INIT", "EXPECT_VALUE"}
  PROVE  Protocol!MayBegin /\ state \notin Over
<1>1. state \notin Over
  BY DEF Over
<1>2. CASE stack = <<>>
  <2>1. told = <<>>
    BY <1>2 DEF Seats
  <2> QED BY <1>1, <1>2, <2>1, InnermostIs DEF Protocol!MayBegin
<1>3. CASE stack # <<>>
  <2>1. state = "EXPECT_VALUE"
    BY <1>3 DEF Seats
  <2> QED BY <1>1, <1>3, <2>1, InnermostIs DEF Protocol!MayBegin, Kinds
<1> QED BY <1>2, <1>3

\* Whatever was told, the stream ends with it.
LEMMA LastTold ==
  ASSUME state' \in Over, NEW type, told' = Append(told, type), NEW next
  PROVE  Protocol!Tell(type, next)
<1>1. OpenNow' = <<>>
  BY OpenNowIs DEF OpenOf
<1>2. (state' \in Over) = TRUE
  OBVIOUS
<1> QED BY <1>1, <1>2 DEF Protocol!Tell

LEMMA ScalarStep ==
  ASSUME Seats, state \in {"INIT", "EXPECT_VALUE"}, NEW type \in Protocol!Scalars,
         told' = Append(told, type), stack' = stack,
         state' = "ERROR" \/ state' = IF stack = <<>> THEN "DONE" ELSE "VALUE"
  PROVE  Kept
<1>1. Protocol!MayBegin /\ state \notin Over
  BY ValueMayBegin
<1>2. Seats'
  BY DEF Seats, States
<1>3. Protocol!Tell(type, Protocol!WithValue)
  <2>1. CASE state' \in Over
    BY <2>1, LastTold
  <2>2. CASE state' \notin Over
    <3>1. state' = "VALUE" /\ stack # <<>>
      BY <2>2 DEF Over
    <3>2. stack \in Seq(Kinds) /\ OpenNow = OpenOf(state, stack) /\ OpenNow' = OpenOf("VALUE", stack)
      BY <3>1, OpenNowIs DEF Seats
    <3>3. OpenNow' = Protocol!WithValue
      BY <1>1, <3>2, OpenAfterValue DEF Protocol!WithValue
    <3>4. (state' \in Over) = FALSE
      BY <2>2
    <3> QED BY <3>3, <3>4 DEF Protocol!Tell
  <2> QED BY <2>1, <2>2
<1>4. Protocol!Scalar
  BY <1>1, <1>3 DEF Protocol!Scalar
<1> QED BY <1>1, <1>2, <1>4 DEF Kept, Protocol!Next

LEMMA BeginStep ==
  ASSUME Seats, state \in {"INIT", "EXPECT_VALUE"}, NEW kind \in Kinds,
         told' = Append(told, Protocol!Begins[kind]), stack' = Append(stack, kind),
         state' = "ERROR" \/ state' = IF kind = "ARRAY" THEN "EXPECT_VALUE" ELSE "OBJECT_KEY"
  PROVE  Kept
<1>1. Protocol!MayBegin /\ state \notin Over
  BY ValueMayBegin
<1>2. /\ stack \in Seq(Kinds) /\ stack' \in Seq(Kinds) /\ stack' # <<>>
      /\ kind = "OBJECT" => Last(stack') = "OBJECT"
  <2>1. stack \in Seq(Kinds)
    BY DEF Seats
  <2>2. PICK sk : sk = Append(stack, kind)
    OBVIOUS
  <2>3. sk \in Seq(Kinds) /\ Len(sk) = Len(stack) + 1 /\ sk[Len(stack) + 1] = kind
    BY <2>1, <2>2, AppendProperties
  <2>4. Len(stack) \in Nat
    BY <2>1, LenProperties
  <2>5. sk # <<>> /\ Last(sk) = kind
    BY <2>3, <2>4, EmptySeq DEF Last
  <2> QED BY <2>1, <2>2, <2>3, <2>5
<1>3. Seats'
  BY <1>2 DEF Seats, States, InObject, Kinds
<1> DEFINE top == [kind |-> kind, keyed |-> FALSE]
<1>4. Protocol!Tell(Protocol!Begins[kind], Append(Protocol!WithValue, top))
  <2>1. CASE state' \in Over
    BY <2>1, LastTold
  <2>2. CASE state' \notin Over
    <3>1. PICK next : next = state' /\ next = IF kind = "ARRAY" THEN "EXPECT_VALUE" ELSE "OBJECT_KEY"
      BY <2>2 DEF Over
    <3>2. OpenNow = OpenOf(state, stack) /\ OpenNow' = OpenOf(next, Append(stack, kind))
      BY <3>1, OpenNowIs
    <3>3. OpenOf("VALUE", stack) = Protocol!WithValue
      BY <1>1, <1>2, <3>2, OpenAfterValue DEF Protocol!WithValue
    <3>4. OpenNow' = Append(Protocol!WithValue, top)
      BY <1>2, <3>1, <3>2, <3>3, OpenPushed
    <3>5. (state' \in Over) = FALSE
      BY <2>2
    <3> QED BY <3>4, <3>5 DEF Protocol!Tell
  <2> QED BY <2>1, <2>2
<1>5. Protocol!Begin
  <2>1. kind \in Protocol!Kinds
    BY DEF Kinds, Protocol!Kinds
  <2> QED BY <1>1, <1>4, <2>1 DEF Protocol!Begin
<1> QED BY <1>1, <1>3, <1>5 DEF Kept, Protocol!Next

LEMMA KeyStep ==
  ASSUME Seats, state = "OBJECT_KEY", told' = Append(told, "KEY"), stack' = stack,
         state' \in {"ERROR", "OBJECT_VALUE"}
  PROVE  Kept
<1>1. state \notin Over /\ stack # <<>> /\ Last(stack) = "OBJECT" /\ stack \in Seq(Kinds)
  BY DEF Seats, InObject, Over
<1>2. OpenNow # <<>> /\ Protocol!Innermost.kind = "OBJECT" /\ ~Protocol!Innermost.keyed
  BY <1>1, InnermostIs
<1>3. Seats'
  BY DEF Seats, States, InObject
<1>4. Protocol!Tell("KEY", [OpenNow EXCEPT ![Len(OpenNow)].keyed = TRUE])
  <2>1. CASE state' \in Over
    BY <2>1, LastTold
  <2>2. CASE state' \notin Over
    <3>1. state' = "OBJECT_VALUE"
      BY <2>2 DEF Over
    <3>2. OpenNow = OpenOf(state, stack) /\ OpenNow' = OpenOf("OBJECT_VALUE", stack)
      BY <3>1, OpenNowIs
    <3>3. OpenNow' = [OpenNow EXCEPT ![Len(OpenNow)].keyed = TRUE]
      BY <1>1, <3>2, OpenKeyed DEF Last
    <3>4. (state' \in Over) = FALSE
      BY <2>2
    <3> QED BY <3>3, <3>4 DEF Protocol!Tell
  <2> QED BY <2>1, <2>2
<1> QED BY <1>1, <1>2, <1>3, <1>4 DEF Kept, Protocol!Next, Protocol!Key

LEMMA EndStep ==
  ASSUME Seats, state \in {"VALUE", "EXPECT_VALUE"}, told' = Append(told, Protocol!Ends[Last(stack)]),
         \/ state' = AfterEnd /\ stack' = Front(stack)
         \/ state' = "ERROR" /\ stack' = stack
  PROVE  Kept
<1>1. state \notin Over /\ stack # <<>> /\ stack \in Seq(Kinds)
  BY DEF Seats, Over
<1>2. OpenNow # <<>> /\ Protocol!Innermost.kind = Last(stack)
  BY <1>1, InnermostIs
<1>3. OpenNow = OpenOf(state, stack) /\ OpenNow' = OpenOf(state', stack')
  BY OpenNowIs
<1>4. CASE state' = AfterEnd /\ stack' = Front(stack)
  <2>1. PICK next : next = state' /\ next = IF Len(stack) = 1 THEN "DONE" ELSE "VALUE"
    BY <1>4 DEF AfterEnd
  <2>2. /\ OpenOf(next, Front(stack)) = SubSeq(OpenNow, 1, Len(OpenNow) - 1)
        /\ Front(stack) \in Seq(Kinds) /\ (next = "VALUE" => Front(stack) # <<>>)
    BY <1>1, <1>3, <2>1, OpenPopped
  <2>3. Seats'
    BY <1>4, <2>1, <2>2 DEF Seats, States
  <2>4. OpenNow' = Protocol!Outer
    BY <1>3, <1>4, <2>1, <2>2 DEF Protocol!Outer
  <2>5. Protocol!Tell(Protocol!Ends[Last(stack)], Protocol!Outer)
    <3>1. CASE state' \in Over
      BY <3>1, LastTold
    <3>2. CASE state' \notin Over
      <4>1. (state' \in Over) = FALSE
        BY <3>2
      <4> QED BY <2>4, <4>1 DEF Protocol!Tell
    <3> QED BY <3>1, <3>2
  <2> QED BY <1>1, <1>2, <2>3, <2>5 DEF Kept, Protocol!Next, Protocol!End
<1>5. CASE state' = "ERROR" /\ stack' = stack
  <2>1. Seats'
    BY <1>5 DEF Seats, States
  <2>2. Protocol!Tell(Protocol!Ends[Last(stack)], Protocol!Outer)
    BY <1>5, LastTold DEF Over
  <2> QED BY <1>1, <1>2, <2>1, <2>2 DEF Kept, Protocol!Next, Protocol!End
<1> QED BY <1>4, <1>5


\* The parser moves on without telling anything; no key begins or stops waiting.
LEMMA PassStep ==
  ASSUME Seats, Seats', state \notin Over, state' \notin Over, stack' = stack, told' = told,
         \A k \in 1..Len(stack) : KeyedIn(state', stack, k) <=> KeyedIn(state, stack, k)
  PROVE  Kept
<1>1. stack \in Seq(Kinds) /\ OpenNow = OpenOf(state, stack) /\ OpenNow' = OpenOf(state', stack)
  BY OpenNowIs DEF Seats
<1>2. /\ OpenNow \in Seq(Opened) /\ Len(OpenNow) = Len(stack)
      /\ \A k \in 1..Len(stack) :
           OpenNow[k].kind = stack[k] /\ (OpenNow[k].keyed <=> KeyedIn(state, stack, k))
  BY <1>1, OpenProperties
<1>3. \A k \in 1..Len(stack) :
           OpenNow[k].kind = stack[k] /\ (OpenNow[k].keyed <=> KeyedIn(state', stack, k))
  BY <1>2
<1>4. PICK next : next = state' /\ next \notin Over
  OBVIOUS
<1>5. OpenNow = OpenOf(next, stack)
  BY <1>1, <1>2, <1>3, <1>4, SameOpen
<1>6. OpenNow' = OpenNow /\ (state' \in Over) = (state \in Over)
  BY <1>1, <1>4, <1>5
<1> QED BY <1>6 DEF Kept, Protocol!vars

\* A value that was cut off is expected again, in an object too: the slip.
LEMMA SlipStep ==
  ASSUME Seats, state = "VALUE", state' = "EXPECT_VALUE", stack' = stack, told' = told
  PROVE  Kept
<1>1. state \notin Over /\ state' \notin Over /\ stack # <<>> /\ stack \in Seq(Kinds)
  BY DEF Seats, Over
<1>2. Seats'
  BY <1>1 DEF Seats, States
<1>3. /\ OpenNow # <<>> /\ Len(stack) \in 1..Len(stack)
      /\ Last(stack) = stack[Len(stack)] /\ Last(stack) \in Kinds
      /\ Protocol!Innermost.kind = Last(stack)
  BY <1>1, InnermostIs
<1>4. CASE Last(stack) = "OBJECT"
  <2>1. OpenNow = OpenOf(state, stack) /\ OpenNow' = OpenOf("EXPECT_VALUE", stack)
    BY OpenNowIs
  <2>2. OpenNow' = [OpenNow EXCEPT ![Len(OpenNow)].keyed = TRUE]
    <3>1. PICK next \in {"OBJECT_VALUE", "EXPECT_VALUE"} : next = "EXPECT_VALUE"
      OBVIOUS
    <3>2. stack[Len(stack)] = "OBJECT" /\ OpenNow' = OpenOf(next, stack)
      BY <1>3, <1>4, <2>1, <3>1
    <3> QED BY <1>1, <2>1, <3>1, <3>2, OpenKeyed
  <2>3. Protocol!Slip
    BY <1>1, <1>3, <1>4, <2>2 DEF Protocol!Slip
  <2> QED BY <1>1, <1>2, <2>3 DEF Kept, Protocol!Next
<1>5. CASE Last(stack) = "ARRAY"
  <2>1. \A k \in 1..Len(stack) : KeyedIn(state', stack, k) <=> KeyedIn(state, stack, k)
    BY <1>3, <1>5 DEF KeyedIn
  <2> QED BY <1>1, <1>2, <2>1, PassStep
<1> QED BY <1>3, <1>4, <1>5 DEF Kinds

-----------------------------------------------------------------------------
(* The handlers.                                                           *)

LEMMA ErrorKept ==
  ASSUME Seats, NEW code, SetError(code)
  PROVE  Kept
BY EndedStep DEF SetError, history, Over

LEMMA ScalarKept ==
  ASSUME Seats, state \in {"INIT", "EXPECT_VALUE"}, NEW t, t.type \in DOMAIN ScalarType, Scalar(t)
  PROVE  Kept
<1>1. ScalarType[t.type] \in Protocol!Scalars
  BY DEF ScalarType, Protocol!Scalars
<1>2. /\ told' = Append(told, ScalarType[t.type]) /\ stack' = stack
      /\ state' = "ERROR" \/ state' = IF stack = <<>> THEN "DONE" ELSE "VALUE"
  BY DEF Scalar, Tell, RefusedEvent, Says
<1> QED BY <1>1, <1>2, ScalarStep

LEMMA ContainerKept ==
  ASSUME Seats, state \in {"INIT", "EXPECT_VALUE"}, NEW t, NEW kind \in Kinds,
         BeginContainer(kind, Protocol!Begins[kind],
                        IF kind = "ARRAY" THEN "EXPECT_VALUE" ELSE "OBJECT_KEY", t)
  PROVE  Kept
<1>1. CASE MayPush
  <2>1. /\ told' = Append(told, Protocol!Begins[kind]) /\ stack' = Append(stack, kind)
        /\ state' = "ERROR" \/ state' = IF kind = "ARRAY" THEN "EXPECT_VALUE" ELSE "OBJECT_KEY"
    BY <1>1 DEF BeginContainer, Begun, Says
  <2> QED BY <2>1, BeginStep
<1>2. CASE ~MayPush
  BY <1>2, ErrorKept DEF BeginContainer
<1> QED BY <1>1, <1>2

LEMMA ValueKept ==
  ASSUME Seats, state \in {"INIT", "EXPECT_VALUE"}, NEW t, HandleValue(t)
  PROVE  Kept
<1>1. CASE t.type \in DOMAIN ScalarType
  <2>1. Scalar(t)
    BY <1>1 DEF HandleValue, ScalarType
  <2> QED BY <1>1, <2>1, ScalarKept
<1>2. CASE t.type = "LBRACKET"
  <2>1. BeginContainer("ARRAY", "ARRAY_BEGIN", "EXPECT_VALUE", t)
    BY <1>2 DEF HandleValue, ScalarType
  <2>2. PICK kind \in Kinds : kind = "ARRAY"
    BY DEF Kinds
  <2> QED BY <2>1, <2>2, ContainerKept DEF Protocol!Begins
<1>3. CASE t.type = "LBRACE"
  <2>1. BeginContainer("OBJECT", "OBJECT_BEGIN", "OBJECT_KEY", t)
    BY <1>3 DEF HandleValue, ScalarType
  <2>2. PICK kind \in Kinds : kind = "OBJECT"
    BY DEF Kinds
  <2> QED BY <2>1, <2>2, ContainerKept DEF Protocol!Begins
<1>4. CASE t.type \notin DOMAIN ScalarType /\ t.type \notin {"LBRACKET", "LBRACE"}
  BY <1>4, ErrorKept DEF HandleValue
<1> QED BY <1>1, <1>2, <1>3, <1>4

LEMMA EndKept ==
  ASSUME Seats, state \in {"VALUE", "EXPECT_VALUE"}, NEW t, HandleEnd(t)
  PROVE  Kept
<1>1. CASE t.type = "RBRACKET" /\ InArray
  <2>1. EndContainer("ARRAY_END", t) /\ Last(stack) = "ARRAY"
    BY <1>1 DEF HandleEnd, InArray
  <2>2. told' = Append(told, Protocol!Ends[Last(stack)])
    BY <2>1 DEF EndContainer, Tell, RefusedEvent, Says, Protocol!Ends
  <2>3. (state' = AfterEnd /\ stack' = Front(stack)) \/ (state' = "ERROR" /\ stack' = stack)
    BY <2>1 DEF EndContainer, Tell, RefusedEvent
  <2> QED BY <2>2, <2>3, EndStep
<1>2. CASE t.type = "RBRACE" /\ InObject
  <2>1. EndContainer("OBJECT_END", t) /\ Last(stack) = "OBJECT"
    BY <1>2 DEF HandleEnd, InObject
  <2>2. told' = Append(told, Protocol!Ends[Last(stack)])
    BY <2>1 DEF EndContainer, Tell, RefusedEvent, Says, Protocol!Ends
  <2>3. (state' = AfterEnd /\ stack' = Front(stack)) \/ (state' = "ERROR" /\ stack' = stack)
    BY <2>1 DEF EndContainer, Tell, RefusedEvent
  <2> QED BY <2>2, <2>3, EndStep
<1>3. CASE ~(t.type = "RBRACKET" /\ InArray) /\ ~(t.type = "RBRACE" /\ InObject)
  BY <1>3, ErrorKept DEF HandleEnd
<1> QED BY <1>1, <1>2, <1>3

LEMMA CommaKept ==
  ASSUME Seats, state = "VALUE", stack # <<>>, Pass(AfterComma)
  PROVE  Kept
<1>1. /\ stack \in Seq(Kinds) /\ state \notin Over
      /\ Len(stack) \in 1..Len(stack) /\ Last(stack) = stack[Len(stack)] /\ Last(stack) \in Kinds
  <2>1. state \notin Over /\ stack \in Seq(Kinds)
    BY DEF Over, Seats
  <2> QED BY <2>1, InnermostIs
<1>2. stack' = stack /\ told' = told /\ state' = AfterComma
  BY DEF Pass, history
<1>3. /\ Last(stack) = "ARRAY" => state' = "EXPECT_VALUE"
      /\ Last(stack) = "OBJECT" => state' = "OBJECT_KEY"
      /\ state' \in {"EXPECT_VALUE", "OBJECT_KEY"}
  BY <1>2 DEF AfterComma, InArray
<1>4. Seats'
  BY <1>1, <1>2, <1>3 DEF Seats, States, InObject, Kinds
<1>5. state' \notin Over
  BY <1>3 DEF Over
<1>6. \A k \in 1..Len(stack) : KeyedIn(state', stack, k) <=> KeyedIn(state, stack, k)
  BY <1>1, <1>3 DEF KeyedIn, Kinds
<1> QED BY <1>1, <1>2, <1>4, <1>5, <1>6, PassStep

LEMMA ColonKept ==
  ASSUME Seats, state = "OBJECT_VALUE", Pass("EXPECT_VALUE")
  PROVE  Kept
<1>1. stack' = stack /\ told' = told /\ state' = "EXPECT_VALUE"
  BY DEF Pass, history
<1>2. Seats' /\ state \notin Over /\ state' \notin Over
  BY <1>1 DEF Seats, States, InObject, Over
<1>3. \A k \in 1..Len(stack) : KeyedIn(state', stack, k) <=> KeyedIn(state, stack, k)
  BY <1>1 DEF KeyedIn
<1> QED BY <1>1, <1>2, <1>3, PassStep

LEMMA TokenKept ==
  ASSUME Seats, NEW t, HandleToken(t)
  PROVE  Kept
<1>1. CASE state = "INIT" /\ HandleValue(t)
  BY <1>1, ValueKept
<1>2. CASE state = "VALUE" /\ AfterValue(t)
  <2>1. \/ stack # <<>> /\ Pass(AfterComma)
        \/ HandleEnd(t)
        \/ SetError("BAD_TOKEN")
    BY <1>2 DEF AfterValue
  <2> QED BY <1>2, <2>1, CommaKept, EndKept, ErrorKept
<1>3. CASE state = "EXPECT_VALUE" /\ ExpectedValue(t)
  BY <1>3, EndKept, ValueKept DEF ExpectedValue
<1>4. CASE state = "OBJECT_KEY" /\ ObjectKey(t)
  <2>1. CASE SetError("BAD_TOKEN")
    BY <2>1, ErrorKept
  <2>2. CASE Tell("KEY", t.lexeme, "OBJECT_VALUE", stack, elems)
    <3>1. told' = Append(told, "KEY") /\ stack' = stack /\ state' \in {"ERROR", "OBJECT_VALUE"}
      BY <2>2 DEF Tell, RefusedEvent, Says
    <3> QED BY <1>4, <3>1, KeyStep
  <2> QED BY <1>4, <2>1, <2>2 DEF ObjectKey
<1>5. CASE state = "OBJECT_VALUE" /\ ObjectValue(t)
  BY <1>5, ColonKept, ErrorKept DEF ObjectValue
<1>6. CASE state \in Over /\ UNCHANGED parser
  BY <1>6, QuietStep DEF parser
<1> QED BY <1>1, <1>2, <1>3, <1>4, <1>5, <1>6 DEF HandleToken

-----------------------------------------------------------------------------
(* The calls and the loops.                                                *)

LEMMA ResumedKept ==
  ASSUME Seats, state' = Resumed, stack' = stack, told' = told
  PROVE  Kept
<1>1. CASE state' = state
  BY <1>1, QuietStep
<1>2. CASE state' # state
  <2>1. state = "VALUE" /\ stack # <<>>
    BY <1>2 DEF Resumed, Seats
  <2> QED BY <1>2, <2>1, SlipStep DEF Resumed
<1> QED BY <1>1, <1>2

LEMMA NextKept ==
  ASSUME Seats, [Next]_vars
  PROVE  Kept
<1>1. ASSUME NEW n, Feed(n) PROVE Kept
  <2>1. CASE fed + n > MaxTotal
    <3>1. SetError("LIMIT")
      BY <1>1, <2>1 DEF Feed
    <3> QED BY <3>1, ErrorKept
  <2>2. CASE ~(fed + n > MaxTotal)
    <3>1. state' = Resumed /\ stack' = stack /\ told' = told
      BY <1>1, <2>2 DEF Feed, history
    <3> QED BY <3>1, ResumedKept
  <2> QED BY <2>1, <2>2
<1>2. ASSUME NEW n, FeedStarves(n) PROVE Kept
  BY <1>2, EndedStep DEF FeedStarves, Over
<1>3. ASSUME NEW n, FeedLate(n) PROVE Kept
  BY <1>3, QuietStep DEF FeedLate, parser
<1>4. CASE Finish
  <2>1. stack' = stack /\ told' = told /\ (state' = state \/ state' = Resumed)
    BY <1>4 DEF Finish, history
  <2> QED BY <2>1, QuietStep, ResumedKept
<1>5. ASSUME NEW t, NEW loop, Handled(t, loop) PROVE Kept
  BY <1>5, TokenKept DEF Handled
<1>6. CASE Process
  <2>1. PICK t : t = Lexed(TRUE)
    OBVIOUS
  <2>2. CASE NoTokenYet(t)
    <3>1. stack' = stack /\ told' = told /\ (state' = state \/ state' = "ERROR")
      BY <2>2 DEF NoTokenYet, history
    <3> QED BY <3>1, QuietStep, EndedStep DEF Over
  <2>3. CASE UNCHANGED parser
    BY <2>3, QuietStep DEF parser
  <2>4. CASE Handled(t, "process")
    BY <1>5, <2>4
  <2> QED BY <1>6, <2>1, <2>2, <2>3, <2>4 DEF Process
<1>7. ASSUME NEW loop, Forced(loop) PROVE Kept
  <2>1. PICK t : t = Lexed(FALSE)
    OBVIOUS
  <2>2. CASE SetError(t.status)
    BY <2>2, ErrorKept
  <2>3. CASE UNCHANGED parser
    BY <2>3, QuietStep DEF parser
  <2>4. CASE Handled(t, loop)
    BY <1>5, <2>4
  <2> QED BY <1>7, <2>1, <2>2, <2>3, <2>4 DEF Forced
<1>8. CASE TokenStarves
  BY <1>8, EndedStep DEF TokenStarves, Over
<1>9. CASE Final
  <2>1. stack' = stack /\ told' = told /\ state' \in Over
    BY <1>9 DEF Final, history, Over
  <2> QED BY <2>1, EndedStep
<1>10. CASE UNCHANGED vars
  BY <1>10, QuietStep DEF vars, parser
<1> QED
  BY <1>1, <1>2, <1>3, <1>4, <1>6, <1>7, <1>8, <1>9, <1>10 DEF Next, Loop, Complete, Rest

\* The stream's callback is told what JsonEvents promises: containers balanced
\* and keyed as they should be, nothing after the value's end, a failure or a
\* refusal (json_stream_handle_token, gtext_json_stream_feed and _finish).
THEOREM EventsKeepProtocol == Spec => EventsFollowProtocol
<1>1. Init => Seats
  BY EmptySeq DEF Init, Seats, States, InObject
<1>2. Init => Protocol!Init
  <2> SUFFICES ASSUME Init PROVE Protocol!Init
    OBVIOUS
  <2>2. state \notin Over /\ told = <<>>
    BY DEF Init, Over
  <2>3. stack = <<>> /\ stack \in Seq(Kinds) /\ OpenNow = OpenOf(state, stack)
    BY EmptySeq, OpenNowIs DEF Init
  <2>4. OpenNow = <<>>
    BY <2>2, <2>3, OpenProperties
  <2>5. (state \in Over) = FALSE
    BY <2>2
  <2> QED BY <2>2, <2>4, <2>5 DEF Protocol!Init
<1>3. Seats /\ [Next]_vars => Seats' /\ [Protocol!Next]_(Protocol!vars)
  BY NextKept DEF Kept
<1> QED BY <1>1, <1>2, <1>3, PTL DEF Spec, EventsFollowProtocol, Protocol!Spec


-----------------------------------------------------------------------------
(* The lexer: pieces of the input, spaces and comments.                    *)

\* What is held is what was held before, and the bytes of b from q to a.
Holds(new, old, b, q, a) ==
    /\ Len(new) = Len(old) + (a - q)
    /\ \A k \in 1..Len(old) : new[k] = old[k]
    /\ \A k \in 1..(a - q) : new[Len(old) + k] = b[q + k]

LEMMA PieceIs ==
  ASSUME NEW S, NEW b \in Seq(S), NEW p \in 0..Len(b), NEW q \in Nat, p <= q
  PROVE  \E s \in Seq(S) :
           /\ s = Piece(b, p, q)
           /\ Len(s) <= Len(b) - p /\ Len(s) <= q - p
           /\ q <= Len(b) => Len(s) = q - p
           /\ q >= Len(b) => Len(s) = Len(b) - p
           /\ \A k \in 1..Len(s) : s[k] = b[p + k]
<1>1. PICK n \in Nat : n = Len(b)
  BY LenProperties
<1>2. p \in Nat /\ p <= n
  BY <1>1
<1>3. PICK e \in Nat : e = Min({q, n}) /\ e <= q /\ e <= n /\ e \in {q, n}
  BY MinOfTwo
<1>4. \A i \in (p + 1)..e : b[i] \in S
  <2>1. \A i \in (p + 1)..e : i \in 1..n
    BY <1>2, <1>3
  <2> QED BY <1>1, <2>1, ElementOfSeq
<1>5. PICK s : s = SubSeq(b, p + 1, e)
  OBVIOUS
<1>6. /\ s \in Seq(S) /\ Len(s) = IF p + 1 <= e THEN e - (p + 1) + 1 ELSE 0
      /\ \A i \in 1..(e - (p + 1) + 1) : s[i] = b[(p + 1) + i - 1]
  <2>1. p + 1 \in Int /\ e \in Int
    BY <1>2, <1>3
  <2> QED BY <1>4, <1>5, <2>1, SubSeqProperties
<1>7. PICK m \in Nat : m = Len(s) /\ m = e - p
  BY <1>2, <1>3, <1>6
<1>8. ASSUME NEW k \in 1..m PROVE s[k] = b[p + k]
  <2>1. k \in 1..(e - (p + 1) + 1) /\ (p + 1) + k - 1 = p + k
    BY <1>2, <1>3, <1>7
  <2> QED BY <1>6, <2>1
<1>9. s = Piece(b, p, q)
  BY <1>1, <1>3, <1>5 DEF Piece
<1>10. /\ m <= n - p /\ m <= q - p
       /\ q <= n => m = q - p
       /\ q >= n => m = n - p
  BY <1>2, <1>3, <1>7
<1> QED BY <1>1, <1>6, <1>7, <1>8, <1>9, <1>10

\* s is the l bytes of b from p on.
Copies(s, b, p, l) == Len(s) = l /\ \A k \in 1..l : s[k] = b[p + k]

LEMMA PieceTo ==
  ASSUME NEW S, NEW b \in Seq(S), NEW p \in Nat, NEW l \in Nat, NEW e \in Nat,
         e = p + l, e <= Len(b)
  PROVE  Piece(b, p, e) \in Seq(S) /\ Copies(Piece(b, p, e), b, p, l)
<1>1. PICK n \in Nat : n = Len(b) /\ e <= n
  BY LenProperties
<1>2. Min({e, n}) = e
  BY <1>1, MinOfTwo
<1>3. PICK q \in Nat : q = p + 1
  OBVIOUS
<1>4. PICK s : s = Piece(b, p, e) /\ s = SubSeq(b, q, e)
  BY <1>1, <1>2, <1>3 DEF Piece
<1>5. \A i \in q..e : b[i] \in S
  BY <1>1, <1>3, ElementOfSeq
<1>6. /\ s \in Seq(S) /\ Len(s) = IF q <= e THEN e - q + 1 ELSE 0
      /\ \A i \in 1..(e - q + 1) : s[i] = b[q + i - 1]
  <2>1. /\ SubSeq(b, q, e) \in Seq(S) /\ Len(SubSeq(b, q, e)) = IF q <= e THEN e - q + 1 ELSE 0
        /\ \A i \in 1..(e - q + 1) : SubSeq(b, q, e)[i] = b[q + i - 1]
    BY <1>3, <1>5, SubSeqProperties
  <2> QED BY <1>4, <2>1
<1>7. Len(s) = l
  BY <1>3, <1>6
<1>8. ASSUME NEW k \in 1..l PROVE s[k] = b[p + k]
  <2>1. k \in 1..(e - q + 1) /\ q + k - 1 = p + k
    BY <1>3
  <2> QED BY <1>6, <2>1
<1> QED BY <1>4, <1>6, <1>7, <1>8 DEF Copies

LEMMA RestIs ==
  ASSUME NEW S, NEW b \in Seq(S), NEW q \in Nat, q <= Len(b)
  PROVE  \E l \in Nat : Len(b) = q + l /\ Copies(Piece(b, q, Len(b)), b, q, l)
<1>1. PICK n \in Nat : n = Len(b)
  BY LenProperties
<1>2. PICK l \in Nat : n = q + l
  <2>1. n - q \in Nat /\ n = q + (n - q)
    BY <1>1
  <2> QED BY <2>1
<1>3. Copies(Piece(b, q, n), b, q, l)
  <2>1. n <= Len(b)
    BY <1>1
  <2> QED BY <1>2, <2>1, PieceTo
<1> QED BY <1>1, <1>2, <1>3

LEMMA FirstFrom ==
  ASSUME NEW S, NEW b \in Seq(S), NEW p \in 0..Len(b), NEW T
  PROVE  FirstIn(b, p, T) \in p..Len(b) /\ FirstNotIn(b, p, T) \in p..Len(b)
<1>1. PICK n \in Nat : n = Len(b)
  BY LenProperties
<1>2. p \in 0..n
  BY <1>1
<1>3. FirstIn(b, p, T) \in p..n
  BY <1>1, <1>2, MinOrEnd DEF FirstIn
<1>4. FirstNotIn(b, p, T) \in p..n
  BY <1>1, <1>2, MinOrEnd DEF FirstNotIn
<1> QED BY <1>1, <1>3, <1>4

LEMMA StartIs ==
  ASSUME NEW S, NEW b \in Seq(S), NEW opts
  PROVE  /\ StartOf(b, opts) \in 0..Len(b)
         /\ StartOf(b, opts) # 0 => opts /\ Len(b) >= 3 /\ SubSeq(b, 1, 3) = Mark
<1>1. PICK n \in Nat : n = Len(b)
  BY LenProperties
<1>2. Mark \in Seq({"EF", "BB", "BF"}) /\ Len(Mark) = 3
  BY DEF Mark
<1>3. CASE opts /\ IsPrefix(Mark, b)
  <2>1. 3 <= n /\ SubSeq(Mark, 1, 3) = SubSeq(b, 1, 3)
    BY <1>1, <1>2, <1>3 DEF IsPrefix
  <2>2. SubSeq(Mark, 1, 3) = Mark
    BY <1>2, SubSeqFull
  <2>3. PICK x \in Nat : x = StartOf(b, opts) /\ x = 3
    BY <1>3 DEF StartOf
  <2>4. x \in 0..n /\ n >= 3
    BY <2>1, <2>3
  <2>5. SubSeq(b, 1, 3) = Mark
    BY <2>1, <2>2
  <2> QED BY <1>1, <1>3, <2>3, <2>4, <2>5
<1>4. CASE ~(opts /\ IsPrefix(Mark, b))
  BY <1>1, <1>4 DEF StartOf
<1> QED BY <1>3, <1>4

LEMMA TwoAhead ==
  ASSUME NEW S, NEW b \in Seq(S), NEW q \in 0..Len(b), NEW x, NEW y, Piece(b, q, q + 2) = <<x, y>>
  PROVE  q + 2 <= Len(b)
<1>1. PICK n \in Nat : n = Len(b)
  BY LenProperties
<1>2. q \in Nat /\ q + 2 \in Nat /\ q <= q + 2
  BY <1>1
<1>3. PICK m : m = Len(Piece(b, q, q + 2)) /\ m <= n - q
  <2>1. PICK s \in Seq(S) : s = Piece(b, q, q + 2) /\ Len(s) <= Len(b) - q
    BY <1>2, PieceIs
  <2> QED BY <1>1, <2>1
<1>4. 2 <= n - q
  BY <1>3
<1>5. q + 2 <= n
  BY <1>2, <1>4
<1> QED BY <1>1, <1>5

LEMMA LineEndIs ==
  ASSUME NEW S, NEW b \in Seq(S), NEW q \in 0..Len(b), SingleLine(b, q)
  PROVE  LineEnd(b, q) \in (q + 1)..Len(b)
<1>1. PICK n \in Nat : n = Len(b)
  BY LenProperties
<1>2. q \in Nat /\ q + 2 \in Nat /\ q <= q + 2 /\ q <= n
  BY <1>1
<1>3. PICK x, y : Piece(b, q, q + 2) = <<x, y>>
  BY DEF SingleLine
<1>5. q + 2 <= n
  BY <1>1, <1>3, TwoAhead
<1>6. PICK f \in q..n : f = FirstIn(b, q, {"\n"})
  BY <1>1, FirstFrom
<1>7. PICK e \in Nat : e = Min({f + 1, n}) /\ e \in {f + 1, n} /\ e <= n
  <2>1. f + 1 \in Nat
    BY <1>2
  <2> QED BY <2>1, MinOfTwo
<1>8. LineEnd(b, q) = e
  BY <1>1, <1>6, <1>7 DEF LineEnd
<1>9. e \in (q + 1)..n
  BY <1>2, <1>5, <1>6, <1>7
<1> QED BY <1>1, <1>8, <1>9

LEMMA CloserIs ==
  ASSUME NEW S, NEW b \in Seq(S), NEW q \in 0..Len(b), Closers(b, q) # {}
  PROVE  Min(Closers(b, q)) + 2 \in (q + 1)..Len(b)
<1>1. Len(b) \in Nat /\ q \in Nat
  BY LenProperties
<1>2. Closers(b, q) \in SUBSET ((q + 2)..(Len(b) - 2))
  BY DEF Closers
<1>3. Closers(b, q) \in SUBSET Nat
  BY <1>1, <1>2
<1>4. Min(Closers(b, q)) \in Closers(b, q)
  BY <1>3, MinProperties
<1>5. PICK m \in (q + 2)..(Len(b) - 2) : m = Min(Closers(b, q))
  BY <1>2, <1>4
<1> QED BY <1>1, <1>5

\* Where skipping goes on, and where it stops.
LEMMA CommentsSkipped ==
  ASSUME NEW S, NEW b \in Seq(S), NEW p \in 0..Len(b)
  PROVE  SkipComments(b, p).at \in p..Len(b)
<1> DEFINE N == Len(b)
           Goes(q) == SingleLine(b, q) \/ (MultiLine(b, q) /\ Closers(b, q) # {})
           next(q) == IF SingleLine(b, q) THEN SkipWhitespace(b, LineEnd(b, q))
                      ELSE SkipWhitespace(b, Min(Closers(b, q)) + 2)
           stop(q) == IF ~MultiLine(b, q) THEN [closed |-> TRUE, at |-> q]
                      ELSE [closed |-> FALSE, at |-> Max({q + 2, Len(b) - 1})]
           Skip(f, n) == f = [q \in (N - n)..N |->
              IF SingleLine(b, q) THEN f[SkipWhitespace(b, LineEnd(b, q))]
              ELSE IF ~MultiLine(b, q) THEN [closed |-> TRUE, at |-> q]
              ELSE IF Closers(b, q) = {}
                   THEN [closed |-> FALSE, at |-> Max({q + 2, Len(b) - 1})]
              ELSE f[SkipWhitespace(b, Min(Closers(b, q)) + 2)]]
           Way(f, n) == f = [q \in (N - n)..N |-> IF Goes(q) THEN f[next(q)] ELSE stop(q)]
           Ways == {n \in Nat : n <= N => \E f : Way(f, n)}
<1>1. N \in Nat
  BY LenProperties
<1>2. ASSUME NEW q \in 0..N, Goes(q) PROVE next(q) \in (q + 1)..N
  <2>1. ASSUME NEW x \in (q + 1)..N PROVE SkipWhitespace(b, x) \in (q + 1)..N
    <3>1. x \in 0..Len(b)
      BY <1>1
    <3>2. FirstNotIn(b, x, Blanks) \in x..Len(b)
      BY <3>1, FirstFrom
    <3> QED BY <1>1, <3>2 DEF SkipWhitespace
  <2>2. CASE SingleLine(b, q)
    <3>1. LineEnd(b, q) \in (q + 1)..N
      BY <2>2, LineEndIs
    <3> QED BY <2>1, <2>2, <3>1
  <2>3. CASE ~SingleLine(b, q)
    <3>1. Closers(b, q) # {}
      BY <1>2, <2>3
    <3>2. Min(Closers(b, q)) + 2 \in (q + 1)..N
      BY <3>1, CloserIs
    <3> QED BY <2>1, <2>3, <3>2
  <2> QED BY <2>2, <2>3
<1>3. ASSUME NEW q \in 0..N, ~Goes(q) PROVE stop(q).at \in q..N
  <2>1. CASE ~MultiLine(b, q)
    BY <1>1, <2>1
  <2>2. CASE MultiLine(b, q)
    <3>1. q + 2 \in Nat /\ q <= q + 2 /\ q \in Nat
      BY <1>1
    <3>2. PICK x, y : Piece(b, q, q + 2) = <<x, y>>
      BY <2>2 DEF MultiLine
    <3>3. q + 2 <= N
      BY <3>2, TwoAhead
    <3>4. N - 1 \in Nat
      BY <1>1, <3>1, <3>3
    <3>5. PICK m \in Nat : m = Max({q + 2, N - 1}) /\ m \in {q + 2, N - 1}
      <4> HIDE DEF N
      <4> QED BY <3>1, <3>4, MaxOfTwo
    <3>6. stop(q).at = m
      BY <2>2, <3>5
    <3>7. m \in q..N
      <4> HIDE DEF N
      <4> QED BY <1>1, <3>1, <3>3, <3>5
    <3> QED BY <3>6, <3>7
  <2> QED BY <2>1, <2>2
<1>4. \A f, n : Way(f, n) <=> Skip(f, n)
  <2>1. ASSUME NEW f, NEW n PROVE Way(f, n) <=> Skip(f, n)
    <3> DEFINE way(q) == IF Goes(q) THEN f[next(q)] ELSE stop(q)
               skip(q) == IF SingleLine(b, q) THEN f[SkipWhitespace(b, LineEnd(b, q))]
                          ELSE IF ~MultiLine(b, q) THEN [closed |-> TRUE, at |-> q]
                          ELSE IF Closers(b, q) = {}
                               THEN [closed |-> FALSE, at |-> Max({q + 2, Len(b) - 1})]
                          ELSE f[SkipWhitespace(b, Min(Closers(b, q)) + 2)]
    <3>1. \A q \in (N - n)..N : way(q) = skip(q)
      OBVIOUS
    <3> HIDE DEF way, skip
    <3>2. [q \in (N - n)..N |-> way(q)] = [q \in (N - n)..N |-> skip(q)]
      BY <3>1
    <3> QED BY <3>2 DEF way, skip
  <2> QED BY <2>1
<1> HIDE DEF Goes, next, stop
<1>5. 0 \in Ways
  <2>1. ~Goes(N)
    <3>1. N \in 0..N
      BY <1>1
    <3>2. Goes(N) => next(N) \in (N + 1)..N
      BY <1>2, <3>1
    <3> QED BY <1>1, <3>2
  <2>2. (N - 0)..N = {N}
    BY <1>1
  <2>3. Way([q \in {N} |-> stop(q)], 0)
    BY <2>1, <2>2
  <2>4. \E f : Way(f, 0)
    <3> HIDE DEF Way
    <3> QED BY <2>3
  <2> QED BY <2>4
<1>6. ASSUME NEW n \in Nat, n \in Ways PROVE n + 1 \in Ways
  <2>1. CASE ~(n + 1 <= N)
    BY <2>1
  <2>2. CASE n + 1 <= N
    <3>1. PICK f : Way(f, n)
      BY <1>1, <1>6, <2>2
    <3> DEFINE m == N - (n + 1)
               h == [q \in m..N |-> IF q # m THEN f[q] ELSE IF Goes(m) THEN f[next(m)] ELSE stop(m)]
    <3>2. m \in 0..N /\ \A q \in m..N : q # m => q \in (N - n)..N
      BY <1>1, <2>2
    <3>3. ASSUME NEW q \in m..N, Goes(q) PROVE next(q) \in m..N /\ next(q) # m
      <4>1. q \in 0..N
        BY <1>1, <3>2
      <4>2. next(q) \in (q + 1)..N
        BY <1>2, <3>3, <4>1
      <4> QED BY <1>1, <3>2, <4>2
    <3>4. ASSUME NEW q \in m..N PROVE h[q] = IF Goes(q) THEN h[next(q)] ELSE stop(q)
      <4>1. Goes(q) => h[next(q)] = f[next(q)]
        BY <3>3
      <4>2. CASE q = m
        BY <4>1, <4>2
      <4>3. CASE q # m
        <5>1. h[q] = f[q] /\ q \in (N - n)..N
          BY <3>2, <4>3
        <5>2. f[q] = IF Goes(q) THEN f[next(q)] ELSE stop(q)
          BY <3>1, <5>1
        <5> QED BY <4>1, <5>1, <5>2
      <4> QED BY <4>2, <4>3
    <3>5. Way(h, n + 1)
      <4> DEFINE e(q) == IF Goes(q) THEN h[next(q)] ELSE stop(q)
      <4>1. h = [q \in m..N |-> h[q]]
        OBVIOUS
      <4>2. \A q \in m..N : h[q] = e(q)
        BY <3>4
      <4> HIDE DEF h, e
      <4>3. h = [q \in m..N |-> e(q)]
        BY <4>1, <4>2
      <4> QED BY <4>3 DEF e
    <3>6. \E g : Way(g, n + 1)
      <4> HIDE DEF Way
      <4> QED BY <3>5
    <3> HIDE DEF Way
    <3> QED BY <3>6
  <2> QED BY <2>1, <2>2
<1>7. \E f : Way(f, N)
  <2>1. N \in Ways
    <3> HIDE DEF Ways
    <3> QED BY <1>1, <1>5, <1>6, NatSetInduction
  <2> HIDE DEF Way
  <2> QED BY <1>1, <2>1
<1> DEFINE skip == CHOOSE f : Skip(f, N)
<1>8. Skip(skip, N)
  <2>1. \E f : Skip(f, N)
    <3> HIDE DEF Skip, Way
    <3> QED BY <1>4, <1>7
  <2> HIDE DEF Skip
  <2> QED BY <2>1
<1>9. AllowComments => SkipComments(b, p) = skip[p]
  <2>1. N - N = 0
    BY <1>1
  <2> QED BY <2>1 DEF SkipComments
<1> HIDE DEF skip
<1>10. \A q \in 0..N : skip[q] = IF Goes(q) THEN skip[next(q)] ELSE stop(q)
  <2>1. Way(skip, N)
    <3> HIDE DEF Skip, Way
    <3> QED BY <1>4, <1>8
  <2>2. N - N = 0
    BY <1>1
  <2> QED BY <2>1, <2>2
<1> DEFINE Ahead == {n \in Nat : n <= N => \A q \in (N - n)..N : skip[q].at \in q..N}
<1>11. ASSUME NEW q \in 0..N, \A x \in (q + 1)..N : skip[x].at \in x..N
       PROVE  skip[q].at \in q..N
  <2>1. CASE Goes(q)
    <3>1. next(q) \in (q + 1)..N /\ skip[q] = skip[next(q)]
      BY <1>2, <1>10, <2>1
    <3>2. skip[q].at \in next(q)..N
      BY <1>11, <3>1
    <3> QED BY <1>1, <3>1, <3>2
  <2>2. CASE ~Goes(q)
    BY <1>3, <1>10, <2>2
  <2> QED BY <2>1, <2>2
<1>12. 0 \in Ahead
  <2>1. ASSUME NEW q \in (N - 0)..N PROVE skip[q].at \in q..N
    <3>1. q \in 0..N /\ (q + 1)..N = {}
      BY <1>1
    <3> QED BY <1>11, <3>1
  <2> QED BY <2>1
<1>13. ASSUME NEW n \in Nat, n \in Ahead PROVE n + 1 \in Ahead
  <2>1. ASSUME n + 1 <= N, NEW q \in (N - (n + 1))..N PROVE skip[q].at \in q..N
    <3>1. q \in 0..N /\ \A x \in (q + 1)..N : x \in (N - n)..N
      BY <1>1, <2>1
    <3>2. \A x \in (N - n)..N : skip[x].at \in x..N
      BY <1>1, <1>13, <2>1
    <3> QED BY <1>11, <3>1, <3>2
  <2> QED BY <2>1
<1>14. skip[p].at \in p..N
  <2>1. Nat \subseteq Ahead
    <3> HIDE DEF Ahead
    <3> QED BY <1>12, <1>13, NatSetInduction
  <2>2. N \in Ahead /\ N - N = 0
    BY <1>1, <2>1
  <2> QED BY <2>2
<1>15. CASE AllowComments
  BY <1>9, <1>14, <1>15
<1>16. CASE ~AllowComments
  <2>1. SkipComments(b, p).at = p
    BY <1>16 DEF SkipComments
  <2> QED BY <1>1, <2>1
<1> QED BY <1>15, <1>16

-----------------------------------------------------------------------------
(* The lexer: strings.                                                     *)

\* The token buffer: json_token_buffer is cleared or holds something.
Buffers == [type : {"NONE", "STRING", "NUMBER"}, bytes : Seq(STRING), inEscape : BOOLEAN,
            hexLeft : Nat, dot : BOOLEAN, exp : BOOLEAN, signed : BOOLEAN, minus : BOOLEAN]
IsBuffer(x) ==
    /\ x \in Buffers
    /\ x.type = "NONE" => x = NoToken
    /\ x.type # "NONE" => x.bytes # <<>>

LEMMA NoTokenIsBuffer == IsBuffer(NoToken) /\ NoToken.bytes = <<>> /\ NoToken.type = "NONE"
BY EmptySeq DEF IsBuffer, NoToken, Buffers

LEMMA HoldsNothing ==
  ASSUME NEW S, NEW s \in Seq(S), NEW b, NEW q \in Nat
  PROVE  Holds(s, s, b, q, q)
BY LenProperties DEF Holds

LEMMA HoldsMore ==
  ASSUME NEW S, NEW new \in Seq(S), NEW old \in Seq(S), NEW b \in Seq(S), NEW q \in Nat, NEW a \in Nat, q <= a,
         Holds(new, old, b, q, a), NEW c \in S, c = b[a + 1]
  PROVE  Holds(Append(new, c), old, b, q, a + 1)
<1>1. PICK n \in Nat : n = Len(new)
  BY LenProperties
<1>2. PICK o \in Nat : o = Len(old)
  BY LenProperties
<1>3. n = o + (a - q) /\ (\A k \in 1..o : new[k] = old[k]) /\ \A k \in 1..(a - q) : new[o + k] = b[q + k]
  BY <1>1, <1>2 DEF Holds
<1>4. PICK more : more = Append(new, c)
  OBVIOUS
<1>5. Len(more) = n + 1 /\ (\A k \in 1..n : more[k] = new[k]) /\ more[n + 1] = c
  BY <1>1, <1>4, AppendProperties
<1>6. Len(more) = o + ((a + 1) - q)
  BY <1>3, <1>5
<1>7. ASSUME NEW k \in 1..o PROVE more[k] = old[k]
  <2>1. k \in 1..n
    BY <1>3
  <2> QED BY <1>3, <1>5, <2>1
<1>8. ASSUME NEW k \in 1..((a + 1) - q) PROVE more[o + k] = b[q + k]
  <2>1. CASE k = (a + 1) - q
    <3>1. o + k = n + 1 /\ q + k = a + 1
      BY <1>3, <2>1
    <3> QED BY <1>5, <3>1
  <2>2. CASE k # (a + 1) - q
    <3>1. k \in 1..(a - q) /\ o + k \in 1..n
      BY <1>3, <2>2
    <3> QED BY <1>3, <1>5, <3>1
  <2> QED BY <2>1, <2>2
<1> QED BY <1>2, <1>4, <1>6, <1>7, <1>8 DEF Holds

\* What was read of a piece was read of the input.
LEMMA HoldsPiece ==
  ASSUME NEW new, NEW old, NEW b, NEW s, NEW p \in Nat, NEW m \in Nat, NEW n \in Nat, m <= n,
         Holds(new, old, s, 0, m), \A k \in 1..n : s[k] = b[p + k], NEW a, a = p + m
  PROVE  Holds(new, old, b, p, a)
<1>1. m - 0 = m /\ (p + m) - p = m /\ \A k \in 1..m : 0 + k = k /\ k \in 1..n
  OBVIOUS
<1> QED BY <1>1 DEF Holds

\* What was read in two parts.
LEMMA HoldsOfHeld ==
  ASSUME NEW S, NEW new \in Seq(S), NEW old \in Seq(S), NEW start \in Seq(S), NEW b, NEW p \in Nat, NEW q \in Nat, NEW a \in Nat,
         p <= q, q <= a, Holds(new, old, b, q, a), Holds(old, start, b, p, q)
  PROVE  Holds(new, start, b, p, a)
<1>1. PICK o \in Nat : o = Len(start)
  BY LenProperties
<1>2. /\ Len(old) = o + (q - p) /\ (\A k \in 1..o : old[k] = start[k])
      /\ \A k \in 1..(q - p) : old[o + k] = b[p + k]
  BY <1>1 DEF Holds
<1>3. PICK l \in Nat : l = Len(old) /\ l = o + (q - p)
  BY <1>2, LenProperties
<1>4. /\ Len(new) = l + (a - q) /\ (\A k \in 1..l : new[k] = old[k])
      /\ \A k \in 1..(a - q) : new[l + k] = b[q + k]
  BY <1>3 DEF Holds
<1>5. Len(new) = o + (a - p)
  BY <1>3, <1>4
<1>6. ASSUME NEW k \in 1..o PROVE new[k] = start[k]
  <2>1. k \in 1..l
    BY <1>3
  <2> QED BY <1>2, <1>4, <2>1
<1>7. ASSUME NEW k \in 1..(a - p) PROVE new[o + k] = b[p + k]
  <2>1. CASE k <= q - p
    <3>1. k \in 1..(q - p) /\ o + k \in 1..l
      BY <1>3, <2>1
    <3> QED BY <1>2, <1>4, <3>1
  <2>2. CASE k > q - p
    <3>1. PICK j \in 1..(a - q) : j = k - (q - p)
      BY <2>2
    <3>2. l + j = o + k /\ q + j = p + k
      BY <1>3, <3>1
    <3> QED BY <1>4, <3>1, <3>2
  <2> QED BY <2>1, <2>2
<1> QED BY <1>1, <1>5, <1>6, <1>7 DEF Holds

\* The search of a string's end.
Searched(base, s) == FoldLeft(Scanned, base, s)

Scans == [bytes : Seq(STRING), inEscape : BOOLEAN, hexLeft : Nat, closed : BOOLEAN, bad : BOOLEAN]

\* One byte of a string is appended, or the search is over.
LEMMA ScannedOnce ==
  ASSUME NEW r \in Scans, NEW c \in STRING
  PROVE  /\ Scanned(r, c) \in Scans
         /\ \/ /\ Scanned(r, c).bytes = Append(r.bytes, c)
               /\ ~r.closed /\ ~r.bad
            \/ /\ Scanned(r, c).bytes = r.bytes
               /\ Scanned(r, c).closed \/ Scanned(r, c).bad
<1>1. /\ r.bytes \in Seq(STRING) /\ r.inEscape \in BOOLEAN /\ r.hexLeft \in Nat
      /\ r.closed \in BOOLEAN /\ r.bad \in BOOLEAN
      /\ r = [bytes |-> r.bytes, inEscape |-> r.inEscape, hexLeft |-> r.hexLeft,
              closed |-> r.closed, bad |-> r.bad]
  BY DEF Scans
<1>2. PICK more \in Seq(STRING) : more = Append(r.bytes, c)
  BY <1>1, AppendProperties
<1>3. CASE r.closed \/ r.bad
  <2>1. Scanned(r, c) = r
    BY <1>3 DEF Scanned
  <2> QED BY <1>3, <2>1
<1>4. CASE ~r.closed /\ ~r.bad /\ r.hexLeft > 0 /\ c \in Hex
  <2>1. Scanned(r, c) = [r EXCEPT !.hexLeft = @ - 1, !.bytes = more]
    BY <1>2, <1>4 DEF Scanned
  <2>2. r.hexLeft - 1 \in Nat
    BY <1>1, <1>4
  <2>3. Scanned(r, c) \in Scans /\ Scanned(r, c).bytes = more
    BY <2>1, <2>2 DEF Scans
  <2> QED BY <1>2, <1>4, <2>3
<1>5. CASE ~r.closed /\ ~r.bad /\ r.hexLeft > 0 /\ c \notin Hex
  <2>1. Scanned(r, c) = [r EXCEPT !.bad = TRUE]
    BY <1>5 DEF Scanned
  <2>2. PICK v \in BOOLEAN : v = TRUE
    OBVIOUS
  <2>3. Scanned(r, c) = [r EXCEPT !.bad = v]
    BY <2>1, <2>2
  <2>4. Scanned(r, c) \in Scans /\ Scanned(r, c).bytes = r.bytes /\ Scanned(r, c).bad = v
    BY <2>3 DEF Scans
  <2> QED BY <2>2, <2>4
<1>6. CASE ~r.closed /\ ~r.bad /\ ~(r.hexLeft > 0)
  <2>1. PICK esc \in BOOLEAN : esc = (~r.inEscape /\ c = "\\")
    OBVIOUS
  <2>2. PICK hex \in Nat : hex = IF r.inEscape /\ c = "u" THEN 4 ELSE 0
    OBVIOUS
  <2>3. PICK end \in BOOLEAN : end = (~r.inEscape /\ c = r.bytes[1])
    OBVIOUS
  <2>4. Scanned(r, c) = [r EXCEPT !.bytes = more, !.inEscape = esc, !.hexLeft = hex, !.closed = end]
    BY <1>2, <1>6, <2>1, <2>2, <2>3 DEF Scanned
  <2>5. Scanned(r, c) \in Scans /\ Scanned(r, c).bytes = more
    BY <2>4 DEF Scans
  <2> QED BY <1>2, <1>6, <2>5
<1> QED BY <1>3, <1>4, <1>5, <1>6

LEMMA ScannedAll ==
  ASSUME NEW base \in Scans, NEW s \in Seq(STRING), ~base.closed, ~base.bad
  PROVE  \E r \in Scans : \E m \in 0..Len(s) :
           /\ r = Searched(base, s)
           /\ Holds(r.bytes, base.bytes, s, 0, m)
           /\ ~r.closed /\ ~r.bad => m = Len(s)
<1> DEFINE f == [x \in Scans \X STRING |-> Scanned(x[1], x[2])]
           N == Len(s)
           e(g, T) == IF T = {} THEN base ELSE Scanned(g[T \ {Max(T)}], s[Max(T)])
           Iter(g) == g = [T \in SUBSET (1..N) |-> e(g, T)]
<1>1. N \in Nat /\ (\A k \in 1..N : s[k] \in STRING) /\ DOMAIN s = 1..N
  BY LenProperties, ElementOfSeq
<1>2. f \in [Scans \X STRING -> Scans] /\ \A r \in Scans, c \in STRING : f[<<r, c>>] = Scanned(r, c)
  BY ScannedOnce
<1> HIDE DEF f
<1>3. \E g : Iter(g)
  <2>1. PICK g : FoldIs(g, f, base, s) /\ \A T \in SUBSET (1..N) : g[T] \in Scans
    BY <1>2, FoldExists
  <2>2. ASSUME NEW T \in SUBSET (1..N)
        PROVE  (IF T = {} THEN base ELSE f[<<g[T \ {Max(T)}], s[Max(T)]>>]) = e(g, T)
    <3>1. CASE T # {}
      <4>1. Max(T) \in 1..N
        BY <1>1, <3>1, MaxIsIn
      <4>2. g[T \ {Max(T)}] \in Scans /\ s[Max(T)] \in STRING
        BY <1>1, <2>1, <4>1
      <4> QED BY <1>2, <3>1, <4>2
    <3> QED BY <3>1
  <2>3. g = [T \in SUBSET (1..N) |-> IF T = {} THEN base ELSE f[<<g[T \ {Max(T)}], s[Max(T)]>>]]
    BY <2>1 DEF FoldIs
  <2> DEFINE d(T) == IF T = {} THEN base ELSE f[<<g[T \ {Max(T)}], s[Max(T)]>>]
  <2>4. \A T \in SUBSET (1..N) : d(T) = e(g, T)
    BY <2>2
  <2>5. g = [T \in SUBSET (1..N) |-> d(T)]
    BY <2>3
  <2> HIDE DEF d, e
  <2>6. g = [T \in SUBSET (1..N) |-> e(g, T)]
    BY <2>4, <2>5
  <2> QED BY <2>6
<1> DEFINE g == CHOOSE g : Iter(g)
<1>4. Iter(g)
  BY <1>3
<1>5. Searched(base, s) = g[1..N]
  BY <1>1 DEF Searched, FoldLeft, MapThenFoldSet
<1> HIDE DEF g
<1>6. g[1..0] = base
  <2>1. 1..0 = {} /\ {} \in SUBSET (1..N)
    OBVIOUS
  <2> QED BY <1>4, <2>1
<1>7. ASSUME NEW k \in Nat, k + 1 <= N PROVE g[1..(k + 1)] = Scanned(g[1..k], s[k + 1])
  <2>1. PICK m \in Nat : m = k + 1 /\ m \in 1..N /\ k = m - 1
    BY <1>1, <1>7
  <2>2. 1..m \in SUBSET (1..N) /\ m \in 1..m /\ 1..m # {}
    BY <1>1, <2>1
  <2>3. Max(1..m) = m
    BY <2>2, MaxIsTop
  <2>4. (1..m) \ {m} = 1..k
    <3>1. \A x : x \in 1..m /\ x # m <=> x \in 1..k
      BY <2>1
    <3> QED BY <3>1
  <2>5. g[1..m] = Scanned(g[(1..m) \ {Max(1..m)}], s[Max(1..m)])
    BY <1>4, <2>2
  <2> QED BY <2>1, <2>3, <2>4, <2>5
<1> DEFINE Good(k) == /\ g[1..k] \in Scans
                      /\ \E m \in 0..k : /\ Holds(g[1..k].bytes, base.bytes, s, 0, m)
                                         /\ ~g[1..k].closed /\ ~g[1..k].bad => m = k
           Goods == {k \in Nat : k <= N => Good(k)}
<1>8. 0 \in Goods
  <2>1. base.bytes \in Seq(STRING)
    BY DEF Scans
  <2>2. Holds(base.bytes, base.bytes, s, 0, 0)
    BY <2>1, HoldsNothing
  <2>3. 0 \in 0..0
    OBVIOUS
  <2> QED BY <1>6, <2>2, <2>3
<1>9. ASSUME NEW k \in Nat, k \in Goods PROVE k + 1 \in Goods
  <2>1. CASE k + 1 <= N
    <3>1. Good(k) /\ s[k + 1] \in STRING
      BY <1>1, <1>9, <2>1
    <3> HIDE DEF Goods
    <3>2. PICK m \in 0..k : /\ Holds(g[1..k].bytes, base.bytes, s, 0, m)
                            /\ ~g[1..k].closed /\ ~g[1..k].bad => m = k
      BY <3>1
    <3>3. PICK r \in Scans : r = g[1..k]
      BY <3>1
    <3>4. PICK x : x = Scanned(r, s[k + 1]) /\ x = g[1..(k + 1)]
      BY <1>7, <2>1, <3>3
    <3>4c. PICK c \in STRING : c = s[k + 1]
      BY <3>1
    <3>5. /\ x \in Scans
          /\ \/ x.bytes = Append(r.bytes, c) /\ ~r.closed /\ ~r.bad
             \/ x.bytes = r.bytes /\ (x.closed \/ x.bad)
      <4>1. r \in Scans /\ c \in STRING
        BY <3>3, <3>4c
      <4>2. /\ Scanned(r, c) \in Scans
            /\ \/ Scanned(r, c).bytes = Append(r.bytes, c) /\ ~r.closed /\ ~r.bad
               \/ Scanned(r, c).bytes = r.bytes /\ (Scanned(r, c).closed \/ Scanned(r, c).bad)
        BY <4>1, ScannedOnce, Zenon
      <4> QED BY <3>4, <3>4c, <4>2, Zenon
    <3>6. CASE x.bytes = r.bytes /\ (x.closed \/ x.bad)
      <4>1. m \in 0..(k + 1) /\ Holds(x.bytes, base.bytes, s, 0, m)
        BY <3>2, <3>3, <3>6
      <4> QED BY <3>4, <3>5, <3>6, <4>1 DEF Goods
    <3>7. CASE x.bytes = Append(r.bytes, c) /\ ~r.closed /\ ~r.bad
      <4>1. Holds(r.bytes, base.bytes, s, 0, k)
        BY <3>2, <3>3, <3>7
      <4>2. r.bytes \in Seq(STRING) /\ base.bytes \in Seq(STRING)
        BY DEF Scans
      <4>3. Holds(x.bytes, base.bytes, s, 0, k + 1)
        BY <3>4c, <3>7, <4>1, <4>2, HoldsMore
      <4>4. k + 1 \in 0..(k + 1)
        OBVIOUS
      <4> QED BY <3>4, <3>5, <4>3, <4>4 DEF Goods
    <3> QED BY <3>5, <3>6, <3>7
  <2>2. CASE ~(k + 1 <= N)
    BY <2>2
  <2> QED BY <2>1, <2>2
<1>10. Good(N)
  <2>1. N \in Goods
    <3> HIDE DEF Goods
    <3> QED BY <1>1, <1>8, <1>9, NatSetInduction
  <2> HIDE DEF Good
  <2> QED BY <1>1, <2>1
<1> QED BY <1>5, <1>10

\* What json_lexer_parse_string has read when its search ends.
LEMMA StringRead ==
  ASSUME NEW b \in Seq(STRING), NEW first \in 0..Len(b), NEW held, IsBuffer(held), NEW base,
         base = [bytes |-> held.bytes, inEscape |-> held.inEscape, hexLeft |-> held.hexLeft,
                 closed |-> FALSE, bad |-> FALSE]
  PROVE  \E r \in Scans : \E a \in first..Len(b) :
           /\ r = Searched(base, Piece(b, first, Len(b)))
           /\ Holds(r.bytes, held.bytes, b, first, a)
           /\ ~r.closed /\ ~r.bad => a = Len(b)
<1>1. PICK n \in Nat : n = Len(b)
  BY LenProperties
<1>2. first \in Nat /\ first <= n
  BY <1>1
<1>3. PICK s \in Seq(STRING) :
        /\ s = Piece(b, first, n) /\ Len(s) = n - first
        /\ \A k \in 1..Len(s) : s[k] = b[first + k]
  BY <1>1, <1>2, PieceIs
<1>4. /\ held.bytes \in Seq(STRING) /\ held.inEscape \in BOOLEAN /\ held.hexLeft \in Nat
  BY DEF IsBuffer, Buffers
<1>5. base \in Scans /\ ~base.closed /\ ~base.bad /\ base.bytes = held.bytes
  <2>1. PICK v \in BOOLEAN : v = FALSE
    OBVIOUS
  <2>2. base = [bytes |-> held.bytes, inEscape |-> held.inEscape, hexLeft |-> held.hexLeft,
                closed |-> v, bad |-> v]
    BY <2>1
  <2>3. base \in Scans
    BY <1>4, <2>2 DEF Scans
  <2>4. base.closed = FALSE /\ base.bad = FALSE /\ base.bytes = held.bytes
    OBVIOUS
  <2> QED BY <2>3, <2>4
<1>6. PICK r \in Scans, m \in 0..Len(s) :
        /\ r = Searched(base, s)
        /\ Holds(r.bytes, base.bytes, s, 0, m)
        /\ ~r.closed /\ ~r.bad => m = Len(s)
  BY <1>3, <1>5, ScannedAll
<1>7. PICK a \in Nat : a = first + m /\ a \in first..n /\ m \in Nat /\ m <= n - first
  BY <1>1, <1>2, <1>3, <1>6
<1>8. Holds(r.bytes, held.bytes, b, first, a)
  <2>1. PICK l \in Nat : l = n - first
    BY <1>2
  <2>2. \A k \in 1..l : s[k] = b[first + k]
    BY <1>3, <2>1
  <2> QED BY <1>2, <1>5, <1>6, <1>7, <2>1, <2>2, HoldsPiece
<1>9. ~r.closed /\ ~r.bad => a = n
  BY <1>2, <1>3, <1>6, <1>7
<1> QED BY <1>1, <1>3, <1>6, <1>7, <1>8, <1>9

\* What a token says of the input from p on and of the token buffer it resumes
\* from: how far it goes, and that the bytes it leaves in the token buffer are
\* those that were there and those read.
Reads(t, b, p, cut) ==
    /\ t.at \in p..Len(b)
    /\ IsBuffer(t.tb)
    /\ t.status = "OK" =>
          t.tb = NoToken /\ (cut.type = "NONE" /\ t.type # "EOF" => t.at > p)
    /\ t.tb.type # "NONE" => t.status = "INCOMPLETE"
    /\ cut.type # "NONE" /\ t.tb.type = "NONE" /\ t.status # "OK" =>
          t.at = p /\ t.status # "INCOMPLETE"
\* Only behind what may still become -Infinity, and cannot any more, is there
\* input left.
Waits(t, b, cut) ==
    \/ t.at = Len(b)
    \/ /\ cut.type # "NONE" /\ AllowNonfinite /\ t.at < Len(b)
       /\ IsPrefix(t.tb.bytes, NegInfinity) /\ b[t.at + 1] \notin Digits
Keeps(t, b, p, cut) ==
    t.tb.type # "NONE" =>
        /\ Waits(t, b, cut)
        /\ \E q \in p..t.at : /\ cut.type # "NONE" => q = p
                              /\ Holds(t.tb.bytes, cut.bytes, b, q, t.at)

LEMMA RefusedReads ==
  ASSUME NEW b, NEW p \in Nat, NEW a \in p..Len(b), NEW cut, NEW code, code \notin {"OK", "INCOMPLETE"},
         NEW t, t = Refused(code, a, NoToken), cut.type = "NONE" \/ a = p
  PROVE  Reads(t, b, p, cut) /\ Keeps(t, b, p, cut)
<1>1. t.at = a /\ t.tb = NoToken /\ t.status = code
  BY DEF Refused
<1>2. IsBuffer(NoToken) /\ NoToken.type = "NONE"
  BY NoTokenIsBuffer
<1> QED BY <1>1, <1>2 DEF Reads, Keeps

LEMMA TokenReads ==
  ASSUME NEW b, NEW p \in Nat, NEW a \in p..Len(b), NEW cut, NEW type, NEW lexeme,
         NEW t, t = Token(type, lexeme, a), cut.type # "NONE" \/ a > p
  PROVE  Reads(t, b, p, cut) /\ Keeps(t, b, p, cut)
<1>1. t.at = a /\ t.tb = NoToken /\ t.status = "OK"
  BY DEF Token
<1>2. IsBuffer(NoToken) /\ NoToken.type = "NONE"
  BY NoTokenIsBuffer
<1> QED BY <1>1, <1>2 DEF Reads, Keeps

LEMMA StringLexed ==
  ASSUME NEW b \in Seq(STRING), NEW p \in 0..Len(b), NEW cut, IsBuffer(cut),
         cut.type \in {"NONE", "STRING"}, cut.type = "NONE" => p < Len(b),
         NEW t, t = LexString(b, p, cut)
  PROVE  Reads(t, b, p, cut) /\ Keeps(t, b, p, cut)
<1> DEFINE resuming == cut.type = "STRING"
           held  == IF resuming THEN cut
                    ELSE [NoToken EXCEPT !.type = "STRING", !.bytes = <<At(b, p)>>]
           first == IF resuming THEN p ELSE p + 1
           base  == [bytes |-> held.bytes, inEscape |-> held.inEscape,
                     hexLeft |-> held.hexLeft, closed |-> FALSE, bad |-> FALSE]
<1>1. PICK n \in Nat : n = Len(b)
  BY LenProperties
<1>2. p \in Nat /\ p <= n /\ p \in 0..n
  BY <1>1
<1>3. cut \in Buffers /\ cut.bytes \in Seq(STRING) /\ (cut.type = "NONE" => cut.bytes = <<>>)
  BY NoTokenIsBuffer DEF IsBuffer, Buffers
<1>4. /\ first \in p..n /\ (~resuming => first > p)
      /\ IsBuffer(held) /\ held.type = "STRING" /\ Holds(held.bytes, cut.bytes, b, p, first)
  <2>1. CASE resuming
    <3>1. held = cut /\ first = p
      BY <2>1
    <3>2. Holds(cut.bytes, cut.bytes, b, p, p)
      BY <1>2, <1>3, HoldsNothing
    <3> QED BY <1>2, <2>1, <3>1, <3>2
  <2>2. CASE ~resuming
    <3>1. cut.type = "NONE" /\ cut.bytes = <<>> /\ p < n
      BY <1>1, <1>3, <2>2
    <3>2. PICK c \in STRING : c = b[p + 1]
      <4>1. p + 1 \in 1..n
        BY <1>2, <3>1
      <4> QED BY <1>1, <4>1, ElementOfSeq
    <3>3. PICK one \in Seq(STRING) : one = <<c>> /\ Len(one) = 1 /\ one[1] = c
      <4>1. <<c>> \in Seq(STRING) /\ Len(<<c>>) = 1 /\ <<c>>[1] = c
        OBVIOUS
      <4> QED BY <4>1
    <3>4. held = [NoToken EXCEPT !.type = "STRING", !.bytes = one] /\ first = p + 1
      BY <2>2, <3>2, <3>3 DEF At
    <3>5. NoToken \in Buffers
      BY NoTokenIsBuffer DEF IsBuffer
    <3>6. held \in Buffers /\ held.type = "STRING" /\ held.bytes = one
      <4> HIDE DEF held
      <4> QED BY <3>4, <3>5 DEF Buffers
    <3>7. one # <<>>
      BY <3>3, EmptySeq
    <3>8. Holds(one, <<>>, b, p, p + 1)
      <4>1. \A k \in 1..1 : one[0 + k] = b[p + k]
        BY <3>2, <3>3
      <4>2. (p + 1) - p = 1 /\ Len(<<>>) = 0
        BY <1>2
      <4> QED BY <3>3, <4>1, <4>2 DEF Holds
    <3> QED BY <1>2, <2>2, <3>1, <3>4, <3>6, <3>7, <3>8 DEF IsBuffer
  <2> QED BY <2>1, <2>2
<1> DEFINE r0 == Searched(base, Piece(b, first, Len(b)))
<1>5. t = CASE r0.bad -> Refused("BAD_UNICODE", p, NoToken)
            [] ~r0.bad /\ ~r0.closed
                 -> Incomplete(Len(b), [held EXCEPT !.bytes = r0.bytes, !.inEscape = r0.inEscape,
                                                    !.hexLeft = r0.hexLeft])
            [] ~r0.bad /\ r0.closed /\ ~Decodes(SubSeq(r0.bytes, 2, Len(r0.bytes) - 1))
                 -> Refused("BAD_ESCAPE", p, NoToken)
            [] OTHER -> Token("STRING", r0.bytes, first + Len(r0.bytes) - Len(held.bytes))
  BY DEF LexString, Searched
<1>6. PICK r \in Scans, a \in first..n :
        /\ r = r0
        /\ Holds(r.bytes, held.bytes, b, first, a)
        /\ first + Len(r.bytes) - Len(held.bytes) = a
        /\ ~r.closed /\ ~r.bad => a = n
  <2>1. first \in 0..Len(b)
    BY <1>1, <1>2, <1>4
  <2>2. base = [bytes |-> held.bytes, inEscape |-> held.inEscape, hexLeft |-> held.hexLeft,
                closed |-> FALSE, bad |-> FALSE]
    OBVIOUS
  <2> HIDE DEF held, first, base
  <2>3. PICK x \in 0..Len(b) : x = first
    BY <2>1
  <2>4. PICK y, z : y = held /\ z = base
    OBVIOUS
  <2>5. IsBuffer(y)
    BY <1>4, <2>4
  <2>6. z = [bytes |-> y.bytes, inEscape |-> y.inEscape, hexLeft |-> y.hexLeft,
             closed |-> FALSE, bad |-> FALSE]
    BY <2>2, <2>4
  <2>7. PICK r \in Scans, a \in x..Len(b) :
           /\ r = Searched(z, Piece(b, x, Len(b)))
           /\ Holds(r.bytes, y.bytes, b, x, a)
           /\ ~r.closed /\ ~r.bad => a = Len(b)
    BY <2>3, <2>5, <2>6, StringRead
  <2>8. x + Len(r.bytes) - Len(y.bytes) = a
    <3>1. PICK l \in Nat : l = Len(y.bytes)
      <4>1. y.bytes \in Seq(STRING)
        BY <2>5 DEF IsBuffer, Buffers
      <4> QED BY <4>1, LenProperties
    <3>2. Len(r.bytes) = l + (a - x)
      BY <2>7, <3>1 DEF Holds
    <3>3. a \in Nat /\ x \in Nat
      BY <1>1, <2>3, <2>7
    <3> QED BY <3>1, <3>2, <3>3
  <2> QED BY <1>1, <2>3, <2>4, <2>7, <2>8
<1> HIDE DEF held, first, resuming, r0
<1>7. first \in Nat /\ p <= first /\ a \in Nat /\ a \in p..n /\ p \in p..n
      /\ (cut.type = "NONE" => a > p)
  BY <1>2, <1>3, <1>4, <1>6 DEF resuming
<1>8. /\ r.bytes \in Seq(STRING) /\ r.inEscape \in BOOLEAN /\ r.hexLeft \in Nat
  BY <1>6 DEF Scans
<1>9. CASE t = Refused("BAD_UNICODE", p, NoToken) \/ t = Refused("BAD_ESCAPE", p, NoToken)
  <2>1. "BAD_UNICODE" \notin {"OK", "INCOMPLETE"} /\ "BAD_ESCAPE" \notin {"OK", "INCOMPLETE"}
    OBVIOUS
  <2> QED BY <1>1, <1>7, <1>9, <2>1, RefusedReads
<1>10. CASE ~r.bad /\ ~r.closed /\ t = Incomplete(n, [held EXCEPT !.bytes = r.bytes,
                                      !.inEscape = r.inEscape, !.hexLeft = r.hexLeft])
  <2>1. PICK new : new = [held EXCEPT !.bytes = r.bytes, !.inEscape = r.inEscape, !.hexLeft = r.hexLeft]
    OBVIOUS
  <2>2. held \in Buffers /\ held.bytes \in Seq(STRING)
    BY <1>4 DEF IsBuffer, Buffers
  <2>3. new \in Buffers /\ new.type = "STRING" /\ new.bytes = r.bytes
    BY <1>4, <1>8, <2>1, <2>2 DEF Buffers
  <2>4. t.at = n /\ t.tb = new /\ t.status = "INCOMPLETE" /\ a = n
    BY <1>6, <1>10, <2>1 DEF Incomplete, Refused
  <2>5. Holds(r.bytes, cut.bytes, b, p, a)
    <3>1. first <= a
      BY <1>6, <1>7
    <3> QED BY <1>3, <1>4, <1>6, <1>7, <1>8, <1>2, <2>2, <3>1, HoldsOfHeld
  <2>6. new.bytes # <<>>
    <3>1. held.bytes # <<>>
      BY <1>4 DEF IsBuffer
    <3>2. PICK l \in Nat : l = Len(held.bytes) /\ l # 0
      BY <2>2, <3>1, LenProperties, EmptySeq
    <3>3. Len(r.bytes) = l + (a - first) /\ a - first \in Nat
      BY <1>6, <1>7, <3>2 DEF Holds
    <3>4. Len(r.bytes) # 0
      BY <3>2, <3>3
    <3> QED BY <1>8, <2>3, <3>4, EmptySeq
  <2>7. IsBuffer(new)
    BY <2>3, <2>6 DEF IsBuffer
  <2>8. Reads(t, b, p, cut)
    BY <1>1, <1>7, <2>3, <2>4, <2>7 DEF Reads
  <2>9. t.at = Len(b) /\ Waits(t, b, cut)
    BY <1>1, <2>4 DEF Waits
  <2>10. Keeps(t, b, p, cut)
    BY <1>2, <1>7, <2>3, <2>4, <2>5, <2>9 DEF Keeps
  <2> QED BY <2>8, <2>10
<1>11. CASE t = Token("STRING", r.bytes, a)
  BY <1>1, <1>7, <1>11, TokenReads
<1> QED BY <1>1, <1>5, <1>6, <1>9, <1>10, <1>11


-----------------------------------------------------------------------------
(* The lexer: numbers.                                                     *)

NumberBytes == Digits \union {".", "e", "+", "-"}
Takes == [bytes : Seq(STRING), taken : Nat, dot : BOOLEAN, exp : BOOLEAN, signed : BOOLEAN,
          minus : BOOLEAN, fresh : BOOLEAN, stopped : BOOLEAN, resuming : BOOLEAN]

\* One byte of a number is appended, or the search is over.
LEMMA TakenOnce ==
  ASSUME NEW r \in Takes, NEW c \in STRING
  PROVE  /\ Taken(r, c) \in Takes
         /\ \/ /\ Taken(r, c).bytes = Append(r.bytes, c) /\ Taken(r, c).taken = r.taken + 1
               /\ ~r.stopped /\ ~Taken(r, c).stopped /\ c \in NumberBytes
            \/ /\ Taken(r, c).bytes = r.bytes /\ Taken(r, c).taken = r.taken
               /\ Taken(r, c).stopped /\ (r.stopped \/ c \notin Digits)
<1>1. /\ r.bytes \in Seq(STRING) /\ r.taken \in Nat
      /\ r.stopped \in BOOLEAN
  BY DEF Takes
<1>2. PICK new \in Seq(STRING) : new = Append(r.bytes, c)
  BY <1>1, AppendProperties
<1>3. PICK count \in Nat : count = r.taken + 1
  BY <1>1
<1>4. PICK yes \in BOOLEAN : yes = TRUE
  OBVIOUS
<1>5. PICK no \in BOOLEAN : no = FALSE
  OBVIOUS
<1>6. PICK more \in Takes : /\ more = [r EXCEPT !.bytes = new, !.taken = count, !.fresh = no]
                            /\ more.bytes = new /\ more.taken = count /\ more.stopped = r.stopped
  <2>1. PICK x : x = [r EXCEPT !.bytes = new, !.taken = count, !.fresh = no]
    OBVIOUS
  <2>2. x \in Takes /\ x.bytes = new /\ x.taken = count /\ x.stopped = r.stopped
    BY <2>1 DEF Takes
  <2> QED BY <2>1, <2>2
<1>7. PICK more2 : more2 = [r EXCEPT !.bytes = Append(@, c), !.taken = @ + 1, !.fresh = FALSE]
  OBVIOUS
<1>8. more2 = more
  BY <1>2, <1>3, <1>5, <1>6, <1>7
<1>9. CASE r.stopped
  <2>1. Taken(r, c) = r
    BY <1>9 DEF Taken
  <2> QED BY <1>9, <2>1
<1>10. ASSUME NEW x \in Takes, x.bytes = new, x.taken = count, x.stopped = r.stopped, ~r.stopped,
              Taken(r, c) = x, c \in NumberBytes
       PROVE  /\ Taken(r, c) \in Takes
              /\ Taken(r, c).bytes = Append(r.bytes, c) /\ Taken(r, c).taken = r.taken + 1
              /\ ~r.stopped /\ ~Taken(r, c).stopped /\ c \in NumberBytes
  BY <1>2, <1>3, <1>10
<1>11. CASE ~r.stopped /\ (r.fresh \/ (r.resuming /\ r.exp /\ ~r.signed)) /\ c \in {"+", "-"}
  <2>1. Taken(r, c) = [more EXCEPT !.signed = yes]
    BY <1>4, <1>7, <1>8, <1>11 DEF Taken, Digits
  <2>2. PICK x : x = [more EXCEPT !.signed = yes]
    OBVIOUS
  <2>3. x \in Takes /\ x.bytes = new /\ x.taken = count /\ x.stopped = r.stopped
    BY <1>6, <2>2 DEF Takes
  <2>4. c \in NumberBytes
    BY <1>11 DEF NumberBytes
  <2> QED BY <1>10, <1>11, <2>1, <2>2, <2>3, <2>4
<1> DEFINE Sign == (r.fresh \/ (r.resuming /\ r.exp /\ ~r.signed)) /\ c \in {"+", "-"}
<1>12. CASE ~r.stopped /\ ~Sign /\ c \in Digits
  <2>1. Taken(r, c) = more
    BY <1>7, <1>8, <1>12 DEF Taken, Digits
  <2>2. c \in NumberBytes
    BY <1>12 DEF NumberBytes
  <2> QED BY <1>6, <1>10, <1>12, <2>1, <2>2
<1>13. CASE ~r.stopped /\ ~Sign /\ c = "." /\ ~r.dot /\ ~r.exp
  <2>1. Taken(r, c) = [more EXCEPT !.dot = yes]
    BY <1>4, <1>7, <1>8, <1>13 DEF Taken, Digits
  <2>2. PICK x : x = [more EXCEPT !.dot = yes]
    OBVIOUS
  <2>3. x \in Takes /\ x.bytes = new /\ x.taken = count /\ x.stopped = r.stopped
    BY <1>6, <2>2 DEF Takes
  <2>4. c \in NumberBytes
    BY <1>13 DEF NumberBytes
  <2> QED BY <1>10, <1>13, <2>1, <2>2, <2>3, <2>4
<1>14. CASE ~r.stopped /\ ~Sign /\ c = "e" /\ ~r.exp
  <2>1. Taken(r, c) = [more EXCEPT !.exp = yes, !.signed = no, !.fresh = yes]
    BY <1>4, <1>5, <1>7, <1>8, <1>14 DEF Taken, Digits
  <2>2. PICK x : x = [more EXCEPT !.exp = yes, !.signed = no, !.fresh = yes]
    OBVIOUS
  <2>3. x \in Takes /\ x.bytes = new /\ x.taken = count /\ x.stopped = r.stopped
    BY <1>6, <2>2 DEF Takes
  <2>4. c \in NumberBytes
    BY <1>14 DEF NumberBytes
  <2> QED BY <1>10, <1>14, <2>1, <2>2, <2>3, <2>4
<1> DEFINE Minus == ~r.fresh /\ ~(r.resuming /\ r.exp /\ ~r.signed) /\ c = "-" /\ r.taken = 0
<1>15. CASE ~r.stopped /\ ~Sign /\ Minus
  <2>1. Taken(r, c) = [more EXCEPT !.minus = yes]
    BY <1>4, <1>7, <1>8, <1>15 DEF Taken, Digits
  <2>2. PICK x : x = [more EXCEPT !.minus = yes]
    OBVIOUS
  <2>3. x \in Takes /\ x.bytes = new /\ x.taken = count /\ x.stopped = r.stopped
    BY <1>6, <2>2 DEF Takes
  <2>4. c \in NumberBytes
    BY <1>15 DEF NumberBytes
  <2> QED BY <1>10, <1>15, <2>1, <2>2, <2>3, <2>4
<1>16. CASE /\ ~r.stopped /\ ~Sign /\ c \notin Digits /\ ~(c = "." /\ ~r.dot /\ ~r.exp)
            /\ ~(c = "e" /\ ~r.exp) /\ ~Minus
  <2>1. Taken(r, c) = [r EXCEPT !.stopped = yes]
    BY <1>4, <1>16 DEF Taken
  <2>2. PICK x : x = [r EXCEPT !.stopped = yes]
    OBVIOUS
  <2>3. x \in Takes /\ x.bytes = r.bytes /\ x.taken = r.taken /\ x.stopped = yes
    BY <2>2 DEF Takes
  <2> QED BY <1>4, <1>16, <2>1, <2>2, <2>3
<1> QED BY <1>9, <1>11, <1>12, <1>13, <1>14, <1>15, <1>16


\* The search of a number's end.
Gathered(base, s) == FoldLeft(Taken, base, s)

\* After k bytes the first m of them were taken, and only what is no digit stops
\* the search.
TakenFrom(r, base, s, k) ==
    \E m \in 0..k :
        /\ Holds(r.bytes, base.bytes, s, 0, m) /\ r.taken = base.taken + m
        /\ \A j \in 1..m : s[j] \in NumberBytes
        /\ r.stopped => m < k /\ s[m + 1] \notin Digits
        /\ ~r.stopped => m = k

LEMMA TakenFromNext ==
  ASSUME NEW base \in Takes, NEW s \in Seq(STRING), NEW k \in Nat, NEW r \in Takes,
         NEW c \in STRING, c = s[k + 1], TakenFrom(r, base, s, k)
  PROVE  TakenFrom(Taken(r, c), base, s, k + 1)
<1>1. /\ base.bytes \in Seq(STRING) /\ r.bytes \in Seq(STRING) /\ base.taken \in Nat
      /\ r.taken \in Nat
  BY DEF Takes
<1>2. PICK m \in 0..k :
        /\ Holds(r.bytes, base.bytes, s, 0, m) /\ r.taken = base.taken + m
        /\ \A j \in 1..m : s[j] \in NumberBytes
        /\ r.stopped => m < k /\ s[m + 1] \notin Digits
        /\ ~r.stopped => m = k
  BY DEF TakenFrom
<1>3. PICK x : x = Taken(r, c)
  OBVIOUS
<1>4. \/ /\ x.bytes = Append(r.bytes, c) /\ x.taken = r.taken + 1
         /\ ~r.stopped /\ ~x.stopped /\ c \in NumberBytes
      \/ x.bytes = r.bytes /\ x.taken = r.taken /\ x.stopped /\ (r.stopped \/ c \notin Digits)
  BY <1>3, TakenOnce, Zenon
<1>5. CASE /\ x.bytes = Append(r.bytes, c) /\ x.taken = r.taken + 1
           /\ ~r.stopped /\ ~x.stopped /\ c \in NumberBytes
  <2>1. m = k
    BY <1>2, <1>5
  <2>2. Holds(x.bytes, base.bytes, s, 0, k + 1)
    <3>1. 0 <= k /\ Holds(r.bytes, base.bytes, s, 0, k)
      BY <1>2, <2>1
    <3> QED BY <1>1, <1>5, <3>1, HoldsMore
  <2>3. ASSUME NEW j \in 1..(k + 1) PROVE s[j] \in NumberBytes
    <3>1. j = k + 1 \/ j \in 1..k
      OBVIOUS
    <3> QED BY <1>2, <1>5, <2>1, <3>1
  <2>4. x.taken = base.taken + (k + 1) /\ k + 1 \in 0..(k + 1)
    <3>1. PICK i \in Nat : i = base.taken
      BY <1>1
    <3>2. r.taken = i + k /\ x.taken = r.taken + 1
      BY <1>2, <1>5, <2>1, <3>1
    <3>3. x.taken = i + (k + 1)
      BY <3>2
    <3> QED BY <3>1, <3>3
  <2> QED BY <1>3, <1>5, <2>2, <2>3, <2>4 DEF TakenFrom
<1>6. CASE x.bytes = r.bytes /\ x.taken = r.taken /\ x.stopped /\ (r.stopped \/ c \notin Digits)
  <2>1. m \in 0..(k + 1) /\ m < k + 1
    BY <1>2
  <2>2. s[m + 1] \notin Digits
    BY <1>2, <1>6
  <2> QED BY <1>2, <1>3, <1>6, <2>1, <2>2 DEF TakenFrom
<1> QED BY <1>4, <1>5, <1>6

LEMMA TakenAll ==
  ASSUME NEW base \in Takes, NEW s \in Seq(STRING), ~base.stopped
  PROVE  Gathered(base, s) \in Takes /\ TakenFrom(Gathered(base, s), base, s, Len(s))
<1> DEFINE f == [x \in Takes \X STRING |-> Taken(x[1], x[2])]
           N == Len(s)
           e(g, T) == IF T = {} THEN base ELSE Taken(g[T \ {Max(T)}], s[Max(T)])
           Iter(g) == g = [T \in SUBSET (1..N) |-> e(g, T)]
<1>1. N \in Nat /\ (\A k \in 1..N : s[k] \in STRING) /\ DOMAIN s = 1..N
  BY LenProperties, ElementOfSeq
<1>2. f \in [Takes \X STRING -> Takes] /\ \A r \in Takes, c \in STRING : f[<<r, c>>] = Taken(r, c)
  BY TakenOnce
<1> HIDE DEF f
<1>3. \E g : Iter(g)
  <2>1. PICK g : FoldIs(g, f, base, s) /\ \A T \in SUBSET (1..N) : g[T] \in Takes
    BY <1>2, FoldExists
  <2>2. ASSUME NEW T \in SUBSET (1..N)
        PROVE  (IF T = {} THEN base ELSE f[<<g[T \ {Max(T)}], s[Max(T)]>>]) = e(g, T)
    <3>1. CASE T # {}
      <4>1. Max(T) \in 1..N
        BY <1>1, <3>1, MaxIsIn
      <4>2. g[T \ {Max(T)}] \in Takes /\ s[Max(T)] \in STRING
        BY <1>1, <2>1, <4>1
      <4> QED BY <1>2, <3>1, <4>2
    <3> QED BY <3>1
  <2>3. g = [T \in SUBSET (1..N) |-> IF T = {} THEN base ELSE f[<<g[T \ {Max(T)}], s[Max(T)]>>]]
    BY <2>1 DEF FoldIs
  <2> DEFINE d(T) == IF T = {} THEN base ELSE f[<<g[T \ {Max(T)}], s[Max(T)]>>]
  <2>4. \A T \in SUBSET (1..N) : d(T) = e(g, T)
    BY <2>2
  <2>5. g = [T \in SUBSET (1..N) |-> d(T)]
    BY <2>3
  <2> HIDE DEF d, e
  <2>6. g = [T \in SUBSET (1..N) |-> e(g, T)]
    BY <2>4, <2>5
  <2> QED BY <2>6
<1> DEFINE g == CHOOSE g : Iter(g)
<1>4. Iter(g)
  BY <1>3
<1>5. Gathered(base, s) = g[1..N]
  BY <1>1 DEF Gathered, FoldLeft, MapThenFoldSet
<1> HIDE DEF g
<1>6. g[1..0] = base
  <2>1. 1..0 = {} /\ {} \in SUBSET (1..N)
    OBVIOUS
  <2> QED BY <1>4, <2>1
<1>7. ASSUME NEW k \in Nat, k + 1 <= N PROVE g[1..(k + 1)] = Taken(g[1..k], s[k + 1])
  <2>1. PICK m \in Nat : m = k + 1 /\ m \in 1..N /\ k = m - 1
    BY <1>1, <1>7
  <2>2. 1..m \in SUBSET (1..N) /\ m \in 1..m /\ 1..m # {}
    <3> HIDE DEF N
    <3>1. m \in 1..m /\ \A x \in 1..m : x \in 1..N
      BY <1>1, <2>1
    <3> QED BY <3>1
  <2>3. Max(1..m) = m
    BY <2>2, MaxIsTop
  <2>4. (1..m) \ {m} = 1..k
    <3>1. \A x : x \in 1..m /\ x # m <=> x \in 1..k
      BY <2>1
    <3> QED BY <3>1
  <2>5. g[1..m] = Taken(g[(1..m) \ {Max(1..m)}], s[Max(1..m)])
    BY <1>4, <2>2
  <2> QED BY <2>1, <2>3, <2>4, <2>5
<1> DEFINE Good(k) == g[1..k] \in Takes /\ TakenFrom(g[1..k], base, s, k)
           Goods == {k \in Nat : k <= N => Good(k)}
<1>8. 0 \in Goods
  <2>1. base.bytes \in Seq(STRING) /\ base.taken \in Nat
    BY DEF Takes
  <2>2. Holds(base.bytes, base.bytes, s, 0, 0)
    BY <2>1, HoldsNothing
  <2>3. 0 \in 0..0 /\ base.taken + 0 = base.taken /\ 1..0 = {}
    BY <2>1
  <2>4. TakenFrom(base, base, s, 0)
    BY <2>2, <2>3 DEF TakenFrom
  <2> QED BY <1>6, <2>4
<1>9. ASSUME NEW k \in Nat, k \in Goods PROVE k + 1 \in Goods
  <2>1. CASE k + 1 <= N
    <3>1. Good(k) /\ s[k + 1] \in STRING
      BY <1>1, <1>9, <2>1
    <3> HIDE DEF Goods
    <3>2. PICK r \in Takes : r = g[1..k] /\ TakenFrom(r, base, s, k)
      BY <3>1
    <3>3. PICK c \in STRING : c = s[k + 1]
      BY <3>1
    <3>4. g[1..(k + 1)] = Taken(r, c)
      BY <1>7, <2>1, <3>2, <3>3
    <3>5. Taken(r, c) \in Takes
      BY <3>2, <3>3, TakenOnce
    <3>6. TakenFrom(Taken(r, c), base, s, k + 1)
      BY <3>2, <3>3, TakenFromNext
    <3> QED BY <3>4, <3>5, <3>6 DEF Goods
  <2>2. CASE ~(k + 1 <= N)
    BY <2>2
  <2> QED BY <2>1, <2>2
<1>10. Good(N)
  <2>1. N \in Goods
    <3> HIDE DEF Goods
    <3> QED BY <1>1, <1>8, <1>9, NatSetInduction
  <2> HIDE DEF Good
  <2> QED BY <1>1, <2>1
<1> QED BY <1>5, <1>10


LEMMA NegInfinityIs ==
  NegInfinity \in Seq({"-"} \union Letters) /\ Len(NegInfinity) = 9 /\ NegInfinity[1] = "-" /\ NegInfinity[2] = "I"
<1> DEFINE S == {"-"} \union Letters
<1>1. PICK s \in Seq(S) : s = <<"-">> /\ Len(s) = 1 /\ s[1] = "-"
  <2>1. <<"-">> \in Seq(S) /\ Len(<<"-">>) = 1 /\ <<"-">>[1] = "-"
    BY DEF Letters
  <2> QED BY <2>1
<1>2. PICK w \in Seq(S) : w = Infinity /\ Len(w) = 8 /\ w[1] = "I"
  <2>1. Infinity \in Seq(S) /\ Len(Infinity) = 8 /\ Infinity[1] = "I"
    BY DEF Infinity, Letters
  <2> QED BY <2>1
<1>3. PICK x : x = NegInfinity /\ x = s \o w
  BY <1>1, <1>2 DEF NegInfinity
<1>4. x \in Seq(S) /\ Len(x) = Len(s) + Len(w) /\ (\A k \in 1..Len(s) + Len(w) : x[k] = IF k <= Len(s) THEN s[k] ELSE w[k - Len(s)])
  BY <1>3, ConcatProperties
<1>5. Len(x) = 9 /\ x[1] = s[1] /\ x[2] = w[1]
  BY <1>1, <1>2, <1>4
<1> QED BY <1>1, <1>2, <1>3, <1>4, <1>5

LEMMA OfInfinityIs ==
  ASSUME NEW b \in Seq(STRING), NEW p \in 0..Len(b), NEW cut, IsBuffer(cut)
  PROVE  OfInfinity(b, p, cut) \in 0..(Len(b) - p)
<1> DEFINE U == {n \in 0..(Len(b) - p) : IsPrefix(cut.bytes \o Piece(b, p, p + n), NegInfinity)}
<1>1. PICK n \in Nat : n = Len(b) - p /\ p \in Nat
  BY LenProperties
<1>2. cut.bytes \in Seq(STRING)
  BY DEF IsBuffer, Buffers
<1>3. CASE IsPrefix(cut.bytes, NegInfinity)
  <2>1. Piece(b, p, p + 0) = <<>>
    <3>1. PICK s \in Seq(STRING) : s = Piece(b, p, p + 0) /\ Len(s) <= (p + 0) - p
      BY <1>1, PieceIs
    <3>2. Len(s) = 0
      BY <1>1, <3>1, LenProperties
    <3> QED BY <3>1, <3>2, EmptySeq
  <2>2. cut.bytes \o <<>> = cut.bytes
    BY <1>2, ConcatEmptySeq
  <2>3. 0 \in U
    BY <1>1, <1>3, <2>1, <2>2
  <2>4. U \in SUBSET (0..n) /\ U \in SUBSET Nat
    BY <1>1
  <2>5. IsFiniteSet(U)
    <3> HIDE DEF U
    <3>1. IsFiniteSet(0..n)
      BY FS_Interval
    <3> QED BY <2>4, <3>1, FS_Subset
  <2>6. Max(U) \in U
    <3> HIDE DEF U
    <3>1. U # {}
      BY <2>3
    <3> QED BY <2>4, <2>5, <3>1, MaxProperties
  <2>7. OfInfinity(b, p, cut) \in {Max(U), 0}
    BY DEF OfInfinity
  <2>8. Max(U) \in 0..n
    <3> HIDE DEF U
    <3> QED BY <2>4, <2>6
  <2> HIDE DEF U
  <2> QED BY <1>1, <2>7, <2>8
<1>4. CASE ~IsPrefix(cut.bytes, NegInfinity)
  <2>1. OfInfinity(b, p, cut) = 0
    BY <1>4 DEF OfInfinity, IsStrictPrefix
  <2> QED BY <1>1, <2>1
<1> QED BY <1>3, <1>4


LEMMA PrefixIs ==
  ASSUME NEW T, NEW U, NEW s \in Seq(T), NEW u \in Seq(U), IsPrefix(s, u)
  PROVE  Len(s) <= Len(u) /\ \A k \in 1..Len(s) : s[k] = u[k]
<1>1. PICK m \in Nat : m = Len(s) /\ m <= Len(u) /\ SubSeq(s, 1, m) = SubSeq(u, 1, m)
  BY LenProperties DEF IsPrefix
<1>2. PICK n \in Nat : n = Len(u)
  BY LenProperties
<1>3. ASSUME NEW k \in 1..m PROVE s[k] = u[k]
  <2>1. SubSeq(s, 1, m)[k] = s[k] /\ SubSeq(u, 1, m)[k] = u[k]
    <3>1. 1 \in 1..(n + 1) /\ m \in 0..n /\ 1 \in 1..(m + 1) /\ m \in 0..m
      BY <1>1, <1>2
    <3>2. (1 + k) - 1 = k /\ (m - 1) + 1 = m
      BY <1>1
    <3>3. 1 <= m /\ m - 1 + 1 = m
      BY <1>1
    <3> QED BY <1>1, <1>2, <1>3, <3>1, <3>2, <3>3, SubSeqProperties
  <2> QED BY <1>1, <2>1
<1> QED BY <1>1, <1>3

\* A minus that a digit follows cannot become -Infinity.
CleanMinus(b) ==
    AllowNonfinite => \A k \in 1..(Len(b) - 1) : b[k] = "-" => b[k + 1] \in Digits

LEMMA NoNumberIsEmpty == ~ParsesNumber(<<>>)
<1>1. Len(<<>>) = 0 /\ Len(NegInfinity) = 9
  BY NegInfinityIs, EmptySeq
<1>2. <<>> # NegInfinity
  BY <1>1
<1>3. ~ValidNumber(<<>>)
  <2>1. 1..Len(<<>>) = {}
    BY <1>1
  <2> QED BY <2>1 DEF ValidNumber
<1> QED BY <1>2, <1>3 DEF ParsesNumber

\* What json_lexer_parse_number has read when its search ends, having begun at q
\* behind what continues an -Infinity.
ReadTo(r, old, b, p, q) ==
    \E end \in p..Len(b) :
        /\ end = p + r.taken
        /\ Holds(r.bytes, old, b, p, end)
        /\ \A k \in (q + 1)..end : b[k] \in NumberBytes
        /\ end = Len(b) \/ b[end + 1] \notin Digits

LEMMA NumberRead ==
  ASSUME NEW b \in Seq(STRING), NEW p \in 0..Len(b), NEW old \in Seq(STRING),
         NEW inf \in 0..(Len(b) - p), NEW base \in Takes, ~base.stopped, base.taken = inf,
         NEW q, q = p + inf, base.bytes = old \o Piece(b, p, q)
  PROVE  /\ Gathered(base, Piece(b, q, Len(b))) \in Takes
         /\ ReadTo(Gathered(base, Piece(b, q, Len(b))), old, b, p, q)
<1>1. PICK n \in Nat : n = Len(b) /\ p \in Nat /\ p <= n
  BY LenProperties
<1>2. q \in Nat /\ q = p + inf /\ p <= q /\ q <= n /\ q \in 0..Len(b)
  BY <1>1
<1>3. PICK pre \in Seq(STRING) :
        pre = Piece(b, p, q) /\ Len(pre) = inf /\ \A k \in 1..inf : pre[k] = b[p + k]
  <2>1. q <= Len(b) /\ inf \in Nat
    BY <1>1, <1>2
  <2>2. Piece(b, p, q) \in Seq(STRING) /\ Copies(Piece(b, p, q), b, p, inf)
    BY <1>1, <1>2, <2>1, PieceTo
  <2> QED BY <2>2 DEF Copies
<1>4. PICK start \in Seq(STRING) : start = base.bytes /\ start = old \o pre
  BY <1>2, <1>3, ConcatProperties
<1>5. Holds(start, old, b, p, q)
  <2>1. PICK o \in Nat : o = Len(old)
    BY LenProperties
  <2>2. PICK i \in Nat : i = Len(pre) /\ i = inf /\ i = q - p
    BY <1>1, <1>2, <1>3, LenProperties
  <2>3. /\ Len(start) = o + i
        /\ \A k \in 1..(o + i) : start[k] = IF k <= o THEN old[k] ELSE pre[k - o]
    <3>1. pre \in Seq(STRING)
      BY <1>3
    <3>2. /\ Len(old \o pre) = Len(old) + Len(pre)
          /\ \A k \in 1..(Len(old) + Len(pre)) :
                (old \o pre)[k] = IF k <= Len(old) THEN old[k] ELSE pre[k - Len(old)]
      BY <3>1, ConcatProperties
    <3> QED BY <1>4, <2>1, <2>2, <3>2
  <2>4. \A k \in 1..o : start[k] = old[k]
    BY <2>3
  <2>5. ASSUME NEW k \in 1..i PROVE start[o + k] = b[p + k]
    <3>1. o + k \in 1..(o + i) /\ ~(o + k <= o) /\ (o + k) - o = k
      BY <2>1
    <3>2. start[o + k] = pre[k]
      BY <2>3, <3>1
    <3> QED BY <1>3, <2>2, <3>2
  <2> QED BY <2>1, <2>2, <2>3, <2>4, <2>5 DEF Holds
<1>6. PICK l \in Nat : n = q + l /\ Copies(Piece(b, q, n), b, q, l)
  <2>1. q <= Len(b)
    BY <1>1, <1>2
  <2> QED BY <1>1, <1>2, <2>1, RestIs
<1>7. PICK s \in Seq(STRING) :
        s = Piece(b, q, n) /\ Len(s) = l /\ \A k \in 1..l : s[k] = b[q + k]
  <2>1. n <= Len(b)
    BY <1>1
  <2>2. Piece(b, q, n) \in Seq(STRING)
    BY <1>1, <1>2, <1>6, <2>1, PieceTo
  <2> QED BY <1>6, <2>2 DEF Copies
<1>8. PICK r \in Takes : r = Gathered(base, s) /\ TakenFrom(r, base, s, l)
  BY <1>7, TakenAll
<1>9. PICK m \in 0..l :
        /\ Holds(r.bytes, start, s, 0, m) /\ r.taken = inf + m
        /\ \A j \in 1..m : s[j] \in NumberBytes
        /\ r.stopped => m < l /\ s[m + 1] \notin Digits
        /\ ~r.stopped => m = l
  BY <1>4, <1>8 DEF TakenFrom
<1>10. PICK end \in Nat : end = q + m /\ end = p + r.taken /\ end \in p..n /\ q <= end /\ m \in Nat
  <2>1. m \in Nat /\ inf \in Nat
    BY <1>1
  <2>2. q + m = p + (inf + m)
    BY <1>1, <1>2, <2>1
  <2>3. q + m \in p..n
    BY <1>1, <1>2, <1>6, <1>9, <2>1
  <2> QED BY <1>1, <1>2, <1>9, <2>1, <2>2, <2>3
<1>11. Holds(r.bytes, old, b, p, end)
  <2>1. Holds(r.bytes, start, b, q, end)
    <3>1. m <= l /\ \A k \in 1..l : s[k] = b[q + k]
      <4>1. m <= l
        BY <1>6, <1>9
      <4> QED BY <1>7, <4>1
    <3>2. m \in Nat /\ Holds(r.bytes, start, s, 0, m)
      BY <1>9, <1>10
    <3> QED BY <1>2, <1>6, <1>10, <3>1, <3>2, HoldsPiece, ZenonT(60)
  <2>2. r.bytes \in Seq(STRING)
    BY DEF Takes
  <2> QED BY <1>1, <1>2, <1>5, <1>10, <2>1, <2>2, HoldsOfHeld
<1>12. ASSUME NEW k \in (q + 1)..end PROVE b[k] \in NumberBytes
  <2>1. PICK j \in 1..m : j = k - q
    BY <1>10
  <2>2. j \in 1..l /\ q + j = k
    BY <1>9, <1>10, <2>1
  <2> QED BY <1>7, <1>9, <2>1, <2>2
<1>13. end = n \/ b[end + 1] \notin Digits
  <2>1. CASE ~r.stopped
    BY <1>6, <1>9, <1>10, <2>1
  <2>2. CASE r.stopped
    <3>1. m + 1 \in 1..l /\ q + (m + 1) = end + 1
      BY <1>9, <1>10, <2>2
    <3> QED BY <1>7, <1>9, <2>2, <3>1
  <2> QED BY <2>1, <2>2
<1> QED BY <1>1, <1>7, <1>8, <1>10, <1>11, <1>12, <1>13 DEF ReadTo


\* A number that is held has taken its token buffer's bytes with it.
LEMMA HeldIsBuffer ==
  ASSUME NEW r \in Takes, NEW cut, IsBuffer(cut), r.bytes # <<>>
  PROVE  IsBuffer(Held(r, cut)) /\ Held(r, cut).type = "NUMBER" /\ Held(r, cut).bytes = r.bytes
<1>1. /\ r.bytes \in Seq(STRING) /\ r.dot \in BOOLEAN /\ r.exp \in BOOLEAN
      /\ r.signed \in BOOLEAN /\ r.minus \in BOOLEAN /\ cut \in Buffers
  BY DEF Takes, IsBuffer
<1>2. PICK x : x = Held(r, cut)
  OBVIOUS
<1>3. x \in Buffers /\ x.type = "NUMBER" /\ x.bytes = r.bytes
  BY <1>1, <1>2 DEF Buffers, Held
<1> QED BY <1>2, <1>3 DEF IsBuffer

\* A number that began in this chunk and may become -Infinity is a lone minus.
LEMMA NotStoredTwice ==
  ASSUME NEW b \in Seq(STRING), CleanMinus(b), NEW p \in Nat, NEW end \in Nat, p < end, end <= Len(b),
         NEW r \in Takes, MaybeInfinity(r), Holds(r.bytes, <<>>, b, p, end),
         \A k \in (p + 1)..end : b[k] \in NumberBytes,
         end = Len(b) \/ b[end + 1] \notin Digits
  PROVE  end = Len(b) /\ r.bytes = <<"-">>
<1>1. PICK n \in Nat : n = Len(b) /\ end <= n
  BY LenProperties
<1>2. PICK s \in Seq(STRING) : s = r.bytes
  BY DEF Takes
<1>3. PICK l \in Nat : l = end - p /\ end = p + l /\ l >= 1
  <2>1. end - p \in Nat /\ end = p + (end - p) /\ end - p >= 1
    OBVIOUS
  <2> QED BY <2>1
<1>4. Len(s) = l /\ \A k \in 1..l : s[k] = b[p + k]
  <2>1. Len(<<>>) = 0
    BY EmptySeq
  <2>2. Len(s) = 0 + (end - p) /\ \A k \in 1..(end - p) : s[0 + k] = b[p + k]
    BY <1>2, <2>1 DEF Holds
  <2>3. \A k \in 1..l : 0 + k = k
    OBVIOUS
  <2> QED BY <1>3, <2>2, <2>3
<1>5. AllowNonfinite /\ IsPrefix(s, NegInfinity)
  BY <1>2 DEF MaybeInfinity, IsStrictPrefix
<1>6. \A k \in 1..l : s[k] = NegInfinity[k]
  <2>1. NegInfinity \in Seq({"-"} \union Letters)
    BY NegInfinityIs
  <2> QED BY <1>4, <1>5, <2>1, PrefixIs
<1>7. s[1] = "-" /\ b[p + 1] = "-"
  <2>1. 1 \in 1..l
    BY <1>3
  <2> QED BY <1>4, <1>6, <2>1, NegInfinityIs
<1>8. l = 1
  <2> SUFFICES ASSUME l # 1 PROVE FALSE
    OBVIOUS
  <2>1. 2 \in 1..l /\ p + 2 \in (p + 1)..end
    BY <1>3
  <2>2. b[p + 2] = "I"
    BY <1>4, <1>6, <2>1, NegInfinityIs
  <2>3. b[p + 2] \in NumberBytes
    BY <2>1
  <2> QED BY <2>2, <2>3 DEF NumberBytes, Digits
<1>9. end = n
  <2> SUFFICES ASSUME end # n PROVE FALSE
    OBVIOUS
  <2>1. PICK k \in Nat : k = p + 1 /\ k = end /\ k \in 1..(n - 1)
    BY <1>1, <1>3, <1>8
  <2>2. b[k + 1] \notin Digits
    BY <1>1, <2>1
  <2> QED BY <1>1, <1>5, <1>7, <2>1, <2>2 DEF CleanMinus
<1>10. s = <<"-">>
  <2>1. Len(<<s[1]>>) = 1 /\ <<s[1]>>[1] = s[1]
    OBVIOUS
  <2>2. s[1] \in STRING
    BY <1>4, <1>8, ElementOfSeq
  <2>3. s = <<s[1]>>
    BY <1>4, <1>8, <2>1, <2>2, SeqEqual
  <2> QED BY <1>7, <2>3
<1> QED BY <1>1, <1>2, <1>9, <1>10

LEMMA NumberLexed ==
  ASSUME NEW b \in Seq(STRING), NEW p \in 0..Len(b), NEW cut, IsBuffer(cut),
         cut.type \in {"NONE", "NUMBER"}, NEW streaming,
         NEW t, t = LexNumber(b, p, cut, streaming)
  PROVE  Reads(t, b, p, cut) /\ (CleanMinus(b) => Keeps(t, b, p, cut))
<1> DEFINE resuming == cut.type = "NUMBER"
           inf  == IF resuming THEN OfInfinity(b, p, cut) ELSE 0
           base == [bytes |-> cut.bytes \o Piece(b, p, p + inf), taken |-> inf,
                    dot |-> cut.dot, exp |-> cut.exp, signed |-> cut.signed, minus |-> cut.minus,
                    fresh |-> FALSE, stopped |-> FALSE, resuming |-> resuming]
           r0   == Gathered(base, Piece(b, p + inf, Len(b)))
           Open == p + r0.taken = Len(b) /\ r0.taken > 0 /\ OpenEnded(r0, streaming)
<1>1. t = CASE Open -> Incomplete(p + r0.taken, Held(r0, cut))
            [] ~Open /\ MaybeInfinity(r0)
                 -> Incomplete(p + r0.taken, [Held(r0, cut) EXCEPT !.bytes = IF resuming THEN @ ELSE @ \o @])
            [] OTHER -> IF ParsesNumber(r0.bytes) THEN NumberToken(r0, p + r0.taken)
                        ELSE Refused("BAD_NUMBER", p, NoToken)
  BY DEF LexNumber, Gathered
<1>2. PICK n \in Nat : n = Len(b) /\ p \in Nat /\ p <= n
  BY LenProperties
<1>3. /\ cut \in Buffers /\ cut.bytes \in Seq(STRING) /\ cut.dot \in BOOLEAN /\ cut.exp \in BOOLEAN
      /\ cut.signed \in BOOLEAN /\ cut.minus \in BOOLEAN
      /\ cut.type = "NONE" => cut.bytes = <<>>
      /\ cut.type # "NONE" => cut.bytes # <<>>
  BY NoTokenIsBuffer DEF IsBuffer, Buffers
<1>4. PICK i \in 0..(Len(b) - p) : i = inf /\ (~resuming => i = 0)
  <2>1. OfInfinity(b, p, cut) \in 0..(Len(b) - p) /\ 0 \in 0..(Len(b) - p)
    BY <1>2, OfInfinityIs
  <2> QED BY <2>1
<1>5. PICK x \in Takes : /\ x = base /\ ~x.stopped /\ x.taken = i
                         /\ x.bytes = cut.bytes \o Piece(b, p, p + i)
  <2>1. PICK y \in Seq(STRING) : y = cut.bytes \o Piece(b, p, p + i)
    <3>1. p + i \in Nat /\ i \in Nat /\ p + i <= Len(b)
      BY <1>2
    <3>2. Piece(b, p, p + i) \in Seq(STRING)
      BY <1>2, <3>1, PieceTo
    <3> QED BY <1>3, <3>2, ConcatProperties
  <2>2. PICK no \in BOOLEAN : no = FALSE
    OBVIOUS
  <2>3. PICK re \in BOOLEAN : re = resuming
    OBVIOUS
  <2>4. PICK x : x = [bytes |-> y, taken |-> i, dot |-> cut.dot, exp |-> cut.exp, signed |-> cut.signed,
                      minus |-> cut.minus, fresh |-> no, stopped |-> no, resuming |-> re]
    OBVIOUS
  <2>5. x \in Takes /\ x.bytes = y /\ x.taken = i /\ x.stopped = no
    <3>1. i \in Nat
      BY <1>2
    <3> HIDE DEF resuming
    <3> QED BY <1>3, <2>4, <3>1 DEF Takes
  <2>6. x = base
    <3> HIDE DEF resuming
    <3> QED BY <1>4, <2>1, <2>2, <2>3, <2>4
  <2> QED BY <2>1, <2>2, <2>5, <2>6
<1> HIDE DEF inf, base
<1>6. PICK r \in Takes : r = Gathered(x, Piece(b, p + i, Len(b))) /\ ReadTo(r, cut.bytes, b, p, p + i)
  <2>1. PICK q \in Nat : q = p + i
    BY <1>2
  <2>2. /\ Gathered(x, Piece(b, q, Len(b))) \in Takes
        /\ ReadTo(Gathered(x, Piece(b, q, Len(b))), cut.bytes, b, p, q)
    BY <1>3, <1>5, <2>1, NumberRead
  <2> QED BY <2>1, <2>2
<1>7. PICK end \in p..n :
        /\ end = p + r.taken
        /\ Holds(r.bytes, cut.bytes, b, p, end)
        /\ \A k \in (p + i + 1)..end : b[k] \in NumberBytes
        /\ end = n \/ b[end + 1] \notin Digits
  BY <1>2, <1>6 DEF ReadTo
<1>8. r = r0 /\ r.taken \in Nat /\ r.bytes \in Seq(STRING)
  BY <1>4, <1>5, <1>6 DEF Takes
<1> HIDE DEF r0
<1>9. end \in Nat /\ end <= n /\ p <= end /\ p \in p..n
  BY <1>2, <1>7
<1>10. Len(r.bytes) = Len(cut.bytes) + r.taken
  BY <1>2, <1>7, <1>8 DEF Holds
<1>11. r.taken > 0 \/ cut.type # "NONE" => r.bytes # <<>>
  <2>1. PICK l \in Nat : l = Len(cut.bytes) /\ (cut.bytes # <<>> => l > 0)
    BY <1>3, LenProperties, EmptySeq
  <2>2. r.taken > 0 \/ cut.type # "NONE" => Len(r.bytes) > 0
    BY <1>3, <1>8, <1>10, <2>1
  <2>3. Len(<<>>) = 0
    BY EmptySeq
  <2> QED BY <2>2, <2>3
<1>12. cut.type = "NONE" => Len(r.bytes) = r.taken /\ Holds(r.bytes, <<>>, b, p, end) /\ i = 0
  <2>1. Len(<<>>) = 0
    BY EmptySeq
  <2> QED BY <1>3, <1>4, <1>7, <1>8, <1>10, <2>1
<1>13. CASE Open
  <2>1. t = Incomplete(end, Held(r, cut)) /\ r.taken > 0
    BY <1>1, <1>7, <1>8, <1>13
  <2>2. IsBuffer(Held(r, cut)) /\ Held(r, cut).type = "NUMBER" /\ Held(r, cut).bytes = r.bytes
    BY <1>11, <2>1, HeldIsBuffer
  <2>3. t.at = end /\ t.tb = Held(r, cut) /\ t.status = "INCOMPLETE"
    BY <2>1 DEF Incomplete, Refused
  <2>4. Reads(t, b, p, cut)
    BY <1>2, <1>7, <2>2, <2>3 DEF Reads
  <2>5. Keeps(t, b, p, cut)
    <3>1. p \in p..t.at
      BY <1>2, <1>9, <2>3
    <3>2. Holds(t.tb.bytes, cut.bytes, b, p, t.at)
      BY <1>7, <2>2, <2>3
    <3>3. t.at = Len(b)
      BY <1>7, <1>8, <1>13, <2>3
    <3> QED BY <3>1, <3>2, <3>3 DEF Keeps, Waits
  <2> QED BY <2>4, <2>5
<1>14. CASE ~Open /\ MaybeInfinity(r)
  <2>1. r.taken > 0 \/ cut.type # "NONE"
    <3>1. CASE r.resuming
      <4>1. Len(r.bytes) + r.taken \in 1..9
        BY <1>14, <3>1 DEF MaybeInfinity
      <4> QED BY <1>8, <1>12, <4>1
    <3>2. CASE ~r.resuming
      BY <1>8, <1>14, <3>2 DEF MaybeInfinity
    <3> QED BY <3>1, <3>2
  <2>2. PICK y \in Seq(STRING) : y = (IF resuming THEN r.bytes ELSE r.bytes \o r.bytes) /\ y # <<>>
    <3>1. PICK l \in Nat : l = Len(r.bytes) /\ l > 0
      BY <1>8, <1>11, <2>1, EmptySeq, LenProperties
    <3>2. r.bytes \o r.bytes \in Seq(STRING) /\ Len(r.bytes \o r.bytes) = l + l
      BY <1>8, <3>1, ConcatProperties
    <3>3. Len(<<>>) = 0
      BY EmptySeq
    <3>4. PICK d \in Seq(STRING) : d = r.bytes \o r.bytes /\ d # <<>>
      <4>1. PICK d : d = r.bytes \o r.bytes
        OBVIOUS
      <4>2. d \in Seq(STRING) /\ Len(d) = l + l
        BY <3>2, <4>1
      <4>3. l + l # 0
        BY <3>1
      <4>4. d # <<>>
        BY <3>3, <4>2, <4>3
      <4> QED BY <4>1, <4>2, <4>4
    <3>5. r.bytes \in Seq(STRING) /\ r.bytes # <<>>
      BY <1>8, <3>1, <3>3
    <3> HIDE DEF resuming
    <3>6. CASE resuming
      BY <3>5, <3>6
    <3>7. CASE ~resuming
      BY <3>4, <3>7
    <3> QED BY <3>6, <3>7
  <2>3. PICK h : h = Held(r, cut) /\ IsBuffer(h) /\ h.type = "NUMBER" /\ h.bytes = r.bytes
    BY <1>11, <2>1, HeldIsBuffer
  <2>4. PICK new : new = [h EXCEPT !.bytes = y]
    OBVIOUS
  <2>5. IsBuffer(new) /\ new.type = "NUMBER" /\ new.bytes = y
    <3>1. h \in Buffers
      BY <2>3 DEF IsBuffer
    <3>2. new \in Buffers /\ new.type = "NUMBER" /\ new.bytes = y
      BY <2>2, <2>3, <2>4, <3>1 DEF Buffers
    <3> QED BY <2>2, <3>2 DEF IsBuffer
  <2>6. t = Incomplete(end, [h EXCEPT !.bytes = IF resuming THEN @ ELSE @ \o @])
    BY <1>1, <1>7, <1>8, <1>14, <2>3
  <2>7. [h EXCEPT !.bytes = IF resuming THEN @ ELSE @ \o @] = new
    <3> HIDE DEF resuming
    <3> QED BY <2>2, <2>3, <2>4
  <2>8. t.at = end /\ t.tb = new /\ t.status = "INCOMPLETE"
    BY <2>6, <2>7 DEF Incomplete, Refused
  <2>9. Reads(t, b, p, cut)
    BY <1>2, <1>7, <2>5, <2>8 DEF Reads
  <2>10. ASSUME CleanMinus(b) PROVE Keeps(t, b, p, cut)
    <3>1. CASE resuming
      <4>1. Holds(t.tb.bytes, cut.bytes, b, p, t.at)
        BY <1>7, <2>2, <2>5, <2>8, <3>1
      <4>2. p \in p..t.at
        BY <1>2, <1>9, <2>8
      <4>3. AllowNonfinite /\ IsPrefix(t.tb.bytes, NegInfinity)
        BY <1>14, <2>2, <2>5, <2>8, <3>1 DEF MaybeInfinity, IsStrictPrefix
      <4>4. t.at = Len(b) \/ (t.at < Len(b) /\ b[t.at + 1] \notin Digits)
        BY <1>2, <1>7, <1>9, <2>8
      <4>5. Waits(t, b, cut)
        BY <3>1, <4>3, <4>4 DEF Waits
      <4> QED BY <4>1, <4>2, <4>5 DEF Keeps
    <3>2. CASE ~resuming
      <4>1. cut.type = "NONE"
        BY <3>2
      <4>2. p < end /\ end <= Len(b)
        BY <1>2, <1>7, <1>8, <2>1, <4>1
      <4>3. Holds(r.bytes, <<>>, b, p, end) /\ \A k \in (p + 1)..end : b[k] \in NumberBytes
        BY <1>2, <1>7, <1>12, <4>1
      <4>4. end = Len(b) /\ r.bytes = <<"-">>
        BY <1>2, <1>7, <1>9, <1>14, <2>10, <4>2, <4>3, NotStoredTwice
      <4>5. Open
        BY <1>7, <1>8, <2>1, <4>1, <4>4 DEF OpenEnded
      <4> QED BY <1>14, <4>5
    <3> QED BY <3>1, <3>2
  <2> QED BY <2>9, <2>10
<1>15. CASE ~Open /\ ~MaybeInfinity(r) /\ ParsesNumber(r.bytes)
  <2>1. t = Token("NUMBER", r.bytes, end)
    BY <1>1, <1>7, <1>8, <1>15 DEF NumberToken
  <2>2. cut.type # "NONE" \/ end > p
    <3>1. r.bytes # <<>>
      BY <1>15, NoNumberIsEmpty
    <3>2. PICK l \in Nat : l = Len(r.bytes) /\ l > 0
      BY <1>8, <3>1, EmptySeq, LenProperties
    <3> QED BY <1>2, <1>7, <1>12, <3>2
  <2> QED BY <1>2, <1>7, <2>1, <2>2, TokenReads
<1>16. CASE ~Open /\ ~MaybeInfinity(r) /\ ~ParsesNumber(r.bytes)
  <2>1. t = Refused("BAD_NUMBER", p, NoToken)
    BY <1>1, <1>8, <1>16
  <2> QED BY <1>2, <1>9, <2>1, RefusedReads
<1> QED BY <1>13, <1>14, <1>15, <1>16


-----------------------------------------------------------------------------
(* The lexer: words and the whole of it.                                   *)

LEMMA WordIs ==
  ASSUME NEW b \in Seq(STRING), NEW p \in 0..Len(b)
  PROVE  Word(b, p) \in Seq(STRING) /\ p + Len(Word(b, p)) \in p..Len(b)
<1>1. PICK n \in Nat : n = Len(b) /\ p \in Nat /\ p <= n
  BY LenProperties
<1>2. PICK f \in p..n : f = FirstNotIn(b, p, Letters \union Digits)
  BY <1>1, FirstFrom
<1>3. PICK l \in Nat : f = p + l /\ f \in Nat /\ f <= n
  <2>1. f - p \in Nat /\ f = p + (f - p) /\ f \in Nat /\ f <= n
    BY <1>1, <1>2
  <2> QED BY <2>1
<1>4. Piece(b, p, f) \in Seq(STRING) /\ Copies(Piece(b, p, f), b, p, l)
  BY <1>1, <1>3, PieceTo
<1>5. Word(b, p) = Piece(b, p, f)
  BY <1>2 DEF Word
<1>6. Len(Word(b, p)) = l
  BY <1>4, <1>5 DEF Copies
<1> QED BY <1>1, <1>2, <1>3, <1>4, <1>5, <1>6

LEMMA WordsAre ==
  /\ \A t \in DOMAIN Keywords : Len(Keywords[t]) = 4 \/ Len(Keywords[t]) = 5
  /\ Len(NaN) = 3 /\ Len(Infinity) = 8
<1>1. Len(<<"n", "u", "l", "l">>) = 4 /\ Len(<<"t", "r", "u", "e">>) = 4
  OBVIOUS
<1>2. Len(<<"f", "a", "l", "s", "e">>) = 5 /\ Len(<<"N", "a", "N">>) = 3
  OBVIOUS
<1>3. Len(<<"I", "n", "f", "i", "n", "i", "t", "y">>) = 8
  OBVIOUS
<1> QED BY <1>1, <1>2, <1>3 DEF Keywords, NaN, Infinity

LEMMA WordLexed ==
  ASSUME NEW b \in Seq(STRING), NEW p \in 0..Len(b), NEW streaming,
         NEW t, t = LexWord(b, p, streaming)
  PROVE  Reads(t, b, p, NoToken) /\ Keeps(t, b, p, NoToken)
<1>1. PICK n \in Nat : n = Len(b) /\ p \in Nat /\ p \in p..n
  BY LenProperties
<1>2. PICK w \in Seq(STRING), end \in p..n : w = Word(b, p) /\ end = p + Len(w)
  BY <1>1, WordIs
<1>3. PICK l \in Nat : l = Len(w)
  BY <1>2, LenProperties
<1>4. NoToken.type = "NONE" /\ IsBuffer(NoToken)
  BY NoTokenIsBuffer
<1> DEFINE Found  == \E k \in DOMAIN Keywords : Keywords[k] = w
           Other  == w \in {NaN, Infinity}
           Open   == streaming /\ w \notin AllKeywords /\ IsKeywordPrefix(w)
<1>5. t = CASE Found -> Token(CHOOSE k \in DOMAIN Keywords : Keywords[k] = w, w, end)
            [] Other /\ AllowNonfinite  -> Token("NONFINITE", w, end)
            [] Other /\ ~AllowNonfinite -> Refused("NONFINITE", end, NoToken)
            [] Open -> Incomplete(p, NoToken)
            [] OTHER -> Refused("BAD_TOKEN", p, NoToken)
  BY <1>2 DEF LexWord
<1>6. Found \/ Other => end > p
  <2>1. Found \/ Other => l > 0
    <3>1. Found => l = 4 \/ l = 5
      BY <1>3, WordsAre
    <3>2. Other => l = 3 \/ l = 8
      BY <1>3, WordsAre
    <3> HIDE DEF Found, Other
    <3>3. CASE Found
      BY <3>1, <3>3
    <3>4. CASE Other
      BY <3>2, <3>4
    <3> QED BY <3>3, <3>4
  <2> QED BY <1>1, <1>2, <1>3, <2>1
<1>7. ~(Found /\ Other) /\ (Found \/ Other => ~Open)
  <2>1. Found => l = 4 \/ l = 5
    BY <1>3, WordsAre
  <2>2. Other => l = 3 \/ l = 8
    BY <1>3, WordsAre
  <2>3. Found \/ Other => w \in AllKeywords
    BY DEF AllKeywords
  <2>4. Open => w \notin AllKeywords
    OBVIOUS
  <2> HIDE DEF Found, Other, Open
  <2>5. ~(Found /\ Other)
    <3> SUFFICES ASSUME Found, Other PROVE FALSE
      OBVIOUS
    <3>1. (l = 4 \/ l = 5) /\ (l = 3 \/ l = 8)
      BY <2>1, <2>2
    <3> QED BY <3>1
  <2>6. Found \/ Other => ~Open
    BY <2>3, <2>4, Zenon
  <2> QED BY <2>5, <2>6, Zenon
<1> HIDE DEF Found, Other, Open
<1>8. CASE Found
  <2>1. PICK type : t = Token(type, w, end)
    BY <1>5, <1>7, <1>8
  <2> QED BY <1>1, <1>2, <1>6, <1>8, <2>1, TokenReads
<1>9. CASE Other /\ AllowNonfinite
  <2>1. t = Token("NONFINITE", w, end)
    BY <1>5, <1>7, <1>9
  <2> QED BY <1>1, <1>2, <1>6, <1>9, <2>1, TokenReads
<1>10. CASE Other /\ ~AllowNonfinite
  <2>1. t = Refused("NONFINITE", end, NoToken)
    BY <1>5, <1>7, <1>10
  <2> QED BY <1>1, <1>2, <1>4, <2>1, RefusedReads
<1>11. CASE ~Found /\ ~Other /\ Open
  <2>1. t = Incomplete(p, NoToken)
    BY <1>5, <1>11
  <2>2. t.at = p /\ t.tb = NoToken /\ t.status = "INCOMPLETE"
    BY <2>1 DEF Incomplete, Refused
  <2> QED BY <1>1, <1>4, <2>2 DEF Reads, Keeps
<1>12. CASE ~Found /\ ~Other /\ ~Open
  <2>1. t = Refused("BAD_TOKEN", p, NoToken)
    BY <1>5, <1>12
  <2> QED BY <1>1, <1>4, <2>1, RefusedReads
<1> QED BY <1>8, <1>9, <1>10, <1>11, <1>12

LEMMA MinusLexed ==
  ASSUME NEW b \in Seq(STRING), NEW p \in 0..Len(b), NEW streaming,
         NEW t, t = LexMinus(b, p, streaming)
  PROVE  Reads(t, b, p, NoToken) /\ (CleanMinus(b) => Keeps(t, b, p, NoToken))
<1>1. PICK n \in Nat : n = Len(b) /\ p \in Nat /\ p <= n
  BY LenProperties
<1>2. NoToken.type = "NONE" /\ IsBuffer(NoToken)
  BY NoTokenIsBuffer
<1>3. CASE ~AtNegInfinity(b, p)
  <2>1. t = LexNumber(b, p, NoToken, streaming)
    BY <1>3 DEF LexMinus
  <2> QED BY <1>2, <2>1, NumberLexed
<1>4. CASE AtNegInfinity(b, p)
  <2>1. PICK end \in p..n : end = p + 9 /\ end > p
    <3>1. Len(Piece(b, p, p + 9)) = 9
      BY <1>4, NegInfinityIs DEF AtNegInfinity
    <3>2. PICK q \in Nat : q = p + 9 /\ p <= q
      BY <1>1
    <3>3. PICK s \in Seq(STRING) : s = Piece(b, p, q) /\ Len(s) <= Len(b) - p
      BY <3>2, PieceIs
    <3>4. 9 <= n - p
      BY <1>1, <3>1, <3>2, <3>3
    <3> QED BY <1>1, <3>2, <3>4
  <2>2. CASE AllowNonfinite
    <3>1. t = Token("NONFINITE", NegInfinity, end)
      BY <1>4, <2>1, <2>2 DEF LexMinus
    <3> QED BY <1>1, <2>1, <3>1, TokenReads
  <2>3. CASE ~AllowNonfinite
    <3>1. t = Refused("NONFINITE", end, NoToken)
      BY <1>4, <2>1, <2>3 DEF LexMinus
    <3> QED BY <1>1, <1>2, <2>1, <3>1, RefusedReads
  <2> QED BY <2>2, <2>3
<1> QED BY <1>3, <1>4


LEMMA LexedAt ==
  ASSUME NEW b \in Seq(STRING), NEW p \in 0..Len(b), p < Len(b), NEW streaming,
         NEW t, t = LexAt(b, p, streaming)
  PROVE  Reads(t, b, p, NoToken) /\ (CleanMinus(b) => Keeps(t, b, p, NoToken))
<1>1. PICK n \in Nat : n = Len(b) /\ p \in Nat /\ p \in p..n /\ p + 1 \in p..n /\ p + 1 > p
  <2>1. Len(b) \in Nat
    BY LenProperties
  <2> QED BY <2>1
<1>2. NoToken.type = "NONE" /\ IsBuffer(NoToken)
  BY NoTokenIsBuffer
<1> DEFINE c == At(b, p)
           Mark1 == \E k \in DOMAIN Punctuation : Punctuation[k] = c
           Quote == c = "\"" \/ (c = "'" /\ AllowSingleQuotes)
<1>3. t = CASE Mark1 -> Token(CHOOSE k \in DOMAIN Punctuation : Punctuation[k] = c, <<c>>, p + 1)
            [] Quote -> LexString(b, p, NoToken)
            [] c = "-"       -> LexMinus(b, p, streaming)
            [] c \in Digits  -> LexNumber(b, p, NoToken, streaming)
            [] c \in Letters -> LexWord(b, p, streaming)
            [] OTHER         -> Refused("BAD_TOKEN", p, NoToken)
  BY DEF LexAt
<1>4. Mark1 => c \in {"{", "}", "[", "]", ":", ","}
  <2>1. \A k \in DOMAIN Punctuation : Punctuation[k] \in {"{", "}", "[", "]", ":", ","}
    <3>1. DOMAIN Punctuation = {"LBRACE", "RBRACE", "LBRACKET", "RBRACKET", "COLON", "COMMA"}
      BY DEF Punctuation
    <3>2. /\ Punctuation["LBRACE"] = "{" /\ Punctuation["RBRACE"] = "}"
          /\ Punctuation["LBRACKET"] = "[" /\ Punctuation["RBRACKET"] = "]"
          /\ Punctuation["COLON"] = ":" /\ Punctuation["COMMA"] = ","
      BY DEF Punctuation
    <3> QED BY <3>1, <3>2
  <2> HIDE DEF c
  <2> QED BY <2>1
<1> HIDE DEF Mark1, c
<1>5. CASE Mark1
  <2>1. PICK type, lexeme : t = Token(type, lexeme, p + 1)
    BY <1>3, <1>4, <1>5 DEF Digits, Letters
  <2> QED BY <1>1, <2>1, TokenReads
<1>6. CASE ~Mark1 /\ Quote
  <2>1. t = LexString(b, p, NoToken)
    BY <1>3, <1>6 DEF Digits, Letters
  <2> QED BY <1>2, <2>1, StringLexed
<1>7. CASE ~Mark1 /\ ~Quote /\ c = "-"
  <2>1. t = LexMinus(b, p, streaming)
    BY <1>3, <1>7 DEF Digits, Letters
  <2> QED BY <2>1, MinusLexed
<1>8. CASE ~Mark1 /\ ~Quote /\ c # "-" /\ c \in Digits
  <2>1. t = LexNumber(b, p, NoToken, streaming)
    BY <1>3, <1>8 DEF Digits, Letters
  <2> QED BY <1>2, <2>1, NumberLexed
<1>9. CASE ~Mark1 /\ ~Quote /\ c # "-" /\ c \notin Digits /\ c \in Letters
  <2>1. t = LexWord(b, p, streaming)
    BY <1>3, <1>9
  <2> QED BY <2>1, WordLexed
<1>10. CASE ~Mark1 /\ ~Quote /\ c # "-" /\ c \notin Digits /\ c \notin Letters
  <2>1. t = Refused("BAD_TOKEN", p, NoToken)
    BY <1>3, <1>10
  <2> QED BY <1>1, <1>2, <2>1, RefusedReads
<1> QED BY <1>5, <1>6, <1>7, <1>8, <1>9, <1>10

\* Whatever the lexer gives, it keeps what it did not deliver.
LEMMA Lexes ==
  ASSUME NEW b \in Seq(STRING), NEW p \in 0..Len(b), NEW cut, IsBuffer(cut), NEW streaming,
         NEW t, t = Lex(b, p, cut, streaming)
  PROVE  Reads(t, b, p, cut) /\ (CleanMinus(b) => Keeps(t, b, p, cut))
<1>1. cut.type \in {"NONE", "STRING", "NUMBER"}
  BY DEF IsBuffer, Buffers
<1>2. CASE cut.type = "STRING"
  <2>1. t = LexString(b, p, cut)
    BY <1>2 DEF Lex
  <2> QED BY <1>2, <2>1, StringLexed
<1>3. CASE cut.type = "NUMBER"
  <2>1. t = LexNumber(b, p, cut, streaming)
    BY <1>3 DEF Lex
  <2> QED BY <1>3, <2>1, NumberLexed
<1>4. CASE cut.type = "NONE"
  <2>1. cut = NoToken
    BY <1>4 DEF IsBuffer
  <2>2. PICK n \in Nat : n = Len(b) /\ p \in Nat /\ p <= n
    BY LenProperties
  <2>3. PICK q \in p..n : q = SkipWhitespace(b, p) /\ q \in 0..Len(b)
    BY <2>2, FirstFrom DEF SkipWhitespace
  <2> DEFINE skipped == SkipComments(b, q)
  <2>4. PICK a \in p..n : a = skipped.at /\ a \in 0..Len(b)
    BY <2>2, <2>3, CommentsSkipped
  <2> HIDE DEF skipped
  <2>5. CASE ~skipped.closed
    <3>1. t = Refused("BAD_TOKEN", a, NoToken)
      BY <1>4, <2>1, <2>3, <2>4, <2>5 DEF Lex, skipped
    <3> QED BY <1>4, <2>2, <2>4, <3>1, RefusedReads
  <2>6. CASE skipped.closed /\ a = n
    <3>1. t = Token("EOF", <<>>, a)
      BY <1>4, <2>1, <2>2, <2>3, <2>4, <2>6 DEF Lex, skipped
    <3>2. t.at = a /\ t.tb = NoToken /\ t.status = "OK" /\ t.type = "EOF"
      BY <3>1 DEF Token
    <3> QED BY <1>4, <2>2, <2>4, <3>2, NoTokenIsBuffer DEF Reads, Keeps
  <2>7. CASE skipped.closed /\ a # n
    <3>1. t = LexAt(b, a, streaming)
      BY <1>4, <2>1, <2>2, <2>3, <2>4, <2>7 DEF Lex, skipped
    <3>2. a < Len(b)
      BY <2>2, <2>4, <2>7
    <3>3. Reads(t, b, a, NoToken) /\ (CleanMinus(b) => Keeps(t, b, a, NoToken))
      BY <2>4, <3>1, <3>2, LexedAt
    <3>4. Reads(t, b, p, NoToken)
      BY <2>2, <2>4, <3>3 DEF Reads, NoToken
    <3>5. Keeps(t, b, a, NoToken) => Keeps(t, b, p, NoToken)
      BY <2>2, <2>4 DEF Keeps, NoToken
    <3> QED BY <2>1, <3>3, <3>4, <3>5
  <2> QED BY <2>5, <2>6, <2>7
<1> QED BY <1>1, <1>2, <1>3, <1>4

-----------------------------------------------------------------------------
(* The lexer: what it says of the end of the input.                        *)

\* No token, or one that is not the end.
NotTheEnd(t) == (t.status = "OK" \/ t.type = "ERROR") /\ t.type # "EOF"

LEMMA RefusedIsNoEnd ==
  ASSUME NEW code, NEW p, NEW x
  PROVE  NotTheEnd(Refused(code, p, x)) /\ NotTheEnd(Incomplete(p, x))
BY DEF NotTheEnd, Refused, Incomplete

LEMMA TokenIsNoEnd ==
  ASSUME NEW type, type # "EOF", NEW lexeme, NEW p
  PROVE  NotTheEnd(Token(type, lexeme, p))
BY DEF NotTheEnd, Token

LEMMA StringIsNoEnd ==
  ASSUME NEW b, NEW p, NEW cut
  PROVE  NotTheEnd(LexString(b, p, cut))
<1> DEFINE resuming == cut.type = "STRING"
           held  == IF resuming THEN cut ELSE [NoToken EXCEPT !.type = "STRING", !.bytes = <<At(b, p)>>]
           first == IF resuming THEN p ELSE p + 1
           r     == FoldLeft(Scanned, [bytes |-> held.bytes, inEscape |-> held.inEscape,
                              hexLeft |-> held.hexLeft, closed |-> FALSE, bad |-> FALSE],
                             Piece(b, first, Len(b)))
           kept  == [held EXCEPT !.bytes = r.bytes, !.inEscape = r.inEscape, !.hexLeft = r.hexLeft]
           end   == first + Len(r.bytes) - Len(held.bytes)
           Valid == Decodes(SubSeq(r.bytes, 2, Len(r.bytes) - 1))
<1>1. PICK t : t = LexString(b, p, cut)
  OBVIOUS
<1>2. t = CASE r.bad -> Refused("BAD_UNICODE", p, NoToken)
            [] ~r.bad /\ ~r.closed -> Incomplete(Len(b), kept)
            [] r.closed /\ ~Valid -> Refused("BAD_ESCAPE", p, NoToken)
            [] OTHER -> Token("STRING", r.bytes, end)
  BY <1>1 DEF LexString
<1> HIDE DEF r, kept, end, Valid
<1>3. \/ t = Refused("BAD_UNICODE", p, NoToken) \/ t = Refused("BAD_ESCAPE", p, NoToken)
      \/ t = Incomplete(Len(b), kept) \/ t = Token("STRING", r.bytes, end)
  BY <1>2
<1>4. "STRING" # "EOF"
  OBVIOUS
<1> QED BY <1>1, <1>3, <1>4, RefusedIsNoEnd, TokenIsNoEnd

LEMMA NumberIsNoEnd ==
  ASSUME NEW b, NEW p, NEW cut, NEW streaming
  PROVE  NotTheEnd(LexNumber(b, p, cut, streaming))
<1>1. "NUMBER" # "EOF"
  OBVIOUS
<1>2. PICK t : t = LexNumber(b, p, cut, streaming)
  OBVIOUS
<1>3. \/ \E code, q, x : t = Refused(code, q, x)
      \/ \E q, x : t = Incomplete(q, x)
      \/ \E lexeme, q : t = Token("NUMBER", lexeme, q)
  BY <1>2, ZenonT(30) DEF LexNumber, NumberToken
<1> QED BY <1>1, <1>2, <1>3, RefusedIsNoEnd, TokenIsNoEnd

LEMMA WordIsNoEnd ==
  ASSUME NEW b, NEW p, NEW streaming
  PROVE  NotTheEnd(LexWord(b, p, streaming))
<1> DEFINE w == Word(b, p)
           end == p + Len(w)
           named == CHOOSE k \in DOMAIN Keywords : Keywords[k] = w
           Known  == \E k \in DOMAIN Keywords : Keywords[k] = w
           Number == w \in {NaN, Infinity}
           Begins1 == w \notin AllKeywords /\ IsKeywordPrefix(w)
<1>1. PICK t : t = LexWord(b, p, streaming)
  OBVIOUS
<1>5. t = CASE Known -> Token(named, w, end)
            [] Number /\ AllowNonfinite  -> Token("NONFINITE", w, end)
            [] Number /\ ~AllowNonfinite -> Refused("NONFINITE", end, NoToken)
            [] streaming /\ Begins1 -> Incomplete(p, NoToken)
            [] OTHER -> Refused("BAD_TOKEN", p, NoToken)
  BY <1>1 DEF LexWord
<1> HIDE DEF end, named, Known, Number, Begins1, w
<1>2. \/ \E code, q, x : t = Refused(code, q, x)
      \/ \E q, x : t = Incomplete(q, x)
      \/ \E q : t = Token("NONFINITE", w, q)
      \/ Known /\ \E q : t = Token(named, w, q)
  BY <1>5
<1> USE DEF Known, w, named
<1>3. (\E k \in DOMAIN Keywords : Keywords[k] = w) => named # "EOF"
  <2>1. DOMAIN Keywords = {"NULL", "TRUE", "FALSE"}
    BY DEF Keywords
  <2>2. (\E k \in DOMAIN Keywords : Keywords[k] = w) => named \in DOMAIN Keywords
    <3> HIDE DEF w
    <3> QED OBVIOUS
  <2> HIDE DEF named, w
  <2> QED BY <2>1, <2>2
<1>4. "NONFINITE" # "EOF"
  OBVIOUS
<1> HIDE DEF w, named
<1> QED BY <1>1, <1>2, <1>3, <1>4, RefusedIsNoEnd, TokenIsNoEnd

LEMMA MinusIsNoEnd ==
  ASSUME NEW b, NEW p, NEW streaming
  PROVE  NotTheEnd(LexMinus(b, p, streaming))
<1>1. "NONFINITE" # "EOF"
  OBVIOUS
<1>2. PICK t : t = LexMinus(b, p, streaming)
  OBVIOUS
<1>3. \/ t = LexNumber(b, p, NoToken, streaming)
      \/ \E code, q, x : t = Refused(code, q, x)
      \/ \E lexeme, q : t = Token("NONFINITE", lexeme, q)
  BY <1>2, Zenon DEF LexMinus
<1> QED BY <1>1, <1>2, <1>3, NumberIsNoEnd, RefusedIsNoEnd, TokenIsNoEnd

LEMMA TokenAtIsNoEnd ==
  ASSUME NEW b, NEW p, NEW streaming
  PROVE  NotTheEnd(LexAt(b, p, streaming))
<1> DEFINE c == At(b, p)
           named == CHOOSE k \in DOMAIN Punctuation : Punctuation[k] = c
           Mark1 == \E k \in DOMAIN Punctuation : Punctuation[k] = c
           Quote == c = "\"" \/ (c = "'" /\ AllowSingleQuotes)
           Minus == c = "-"
           Digit == c \in Digits
           Letter == c \in Letters
<1>1. PICK t : t = LexAt(b, p, streaming)
  OBVIOUS
<1>4. t = CASE Mark1 -> Token(named, <<c>>, p + 1)
            [] Quote -> LexString(b, p, NoToken)
            [] Minus  -> LexMinus(b, p, streaming)
            [] Digit  -> LexNumber(b, p, NoToken, streaming)
            [] Letter -> LexWord(b, p, streaming)
            [] OTHER         -> Refused("BAD_TOKEN", p, NoToken)
  BY <1>1 DEF LexAt
<1> HIDE DEF Mark1, Quote, Minus, Digit, Letter, c, named
<1>2. \/ Mark1 /\ \E lexeme, q : t = Token(named, lexeme, q)
      \/ t = LexString(b, p, NoToken)
      \/ t = LexMinus(b, p, streaming)
      \/ t = LexNumber(b, p, NoToken, streaming)
      \/ t = LexWord(b, p, streaming)
      \/ \E code, q, x : t = Refused(code, q, x)
  BY <1>4
<1> USE DEF Mark1, c, named
<1>3. (\E k \in DOMAIN Punctuation : Punctuation[k] = c) => named # "EOF"
  <2>1. DOMAIN Punctuation = {"LBRACE", "RBRACE", "LBRACKET", "RBRACKET", "COLON", "COMMA"}
    BY DEF Punctuation
  <2>2. (\E k \in DOMAIN Punctuation : Punctuation[k] = c) => named \in DOMAIN Punctuation
    <3> HIDE DEF c
    <3> QED OBVIOUS
  <2> HIDE DEF named, c
  <2> QED BY <2>1, <2>2
<1> HIDE DEF c, named
<1> QED
  BY <1>1, <1>2, <1>3, StringIsNoEnd, NumberIsNoEnd, WordIsNoEnd, MinusIsNoEnd, RefusedIsNoEnd, TokenIsNoEnd

\* The lexer is at the end when it says so, which does not depend on streaming.
LEMMA LexEnds ==
  ASSUME NEW b, NEW p, NEW cut, IsBuffer(cut), NEW streaming,
         NEW t, t = Lex(b, p, cut, streaming)
  PROVE  /\ t.status = "OK" \/ t.type = "ERROR"
         /\ t.type = "EOF" => /\ cut.type = "NONE" /\ t.at = Len(b)
                              /\ \A other : Lex(b, p, cut, other) = t
<1> DEFINE skipped == SkipComments(b, SkipWhitespace(b, p))
<1>1. cut.type \in {"NONE", "STRING", "NUMBER"}
  BY DEF IsBuffer, Buffers
<1>2. CASE cut.type = "STRING"
  BY <1>2, StringIsNoEnd DEF Lex, NotTheEnd
<1>3. CASE cut.type = "NUMBER"
  BY <1>3, NumberIsNoEnd DEF Lex, NotTheEnd
<1>4. CASE cut.type = "NONE" /\ ~skipped.closed
  <2>1. t = Refused("BAD_TOKEN", skipped.at, cut)
    BY <1>4 DEF Lex
  <2> QED BY <2>1, RefusedIsNoEnd DEF NotTheEnd
<1>5. CASE cut.type = "NONE" /\ skipped.closed /\ skipped.at = Len(b)
  <2>1. \A other : Lex(b, p, cut, other) = Token("EOF", <<>>, skipped.at)
    BY <1>5 DEF Lex
  <2>2. t.status = "OK" /\ t.at = skipped.at
    BY <2>1 DEF Token
  <2> QED BY <1>5, <2>1, <2>2
<1>6. CASE cut.type = "NONE" /\ skipped.closed /\ skipped.at # Len(b)
  <2>1. t = LexAt(b, skipped.at, streaming)
    BY <1>6 DEF Lex
  <2> HIDE DEF skipped
  <2> QED BY <2>1, TokenAtIsNoEnd DEF NotTheEnd
<1> QED BY <1>1, <1>2, <1>3, <1>4, <1>5, <1>6

-----------------------------------------------------------------------------
(* What the token loops work on.                                           *)

HasInput ==
    /\ text \in Texts /\ fed \in 0..Len(Bytes)
    /\ buffer \in Seq(STRING) /\ processed \in 0..Len(buffer) /\ IsBuffer(tb)
HasWindow ==
    /\ window \in 0..Len(buffer) /\ at \in 0..window
    /\ pc \in {"idle", "process", "complete", "rest", "final"}
    /\ pc \in {"idle", "final"} => at = 0 /\ window = 0
    /\ pc = "process" => window = Len(buffer)
    /\ pc \in {"complete", "rest"} => call # "feed"
Buffered == HasInput /\ HasWindow

LEMMA BytesAre ==
  ASSUME text \in Texts
  PROVE  Bytes \in Seq(STRING)
<1>1. text \in Seq(Seq(STRING))
  BY StreamAssumption
<1> QED BY <1>1, FlattenSeqType DEF Bytes

LEMMA UnprocessedIs ==
  ASSUME Buffered
  PROVE  /\ Unprocessed \in Seq(STRING)
         /\ \E l \in Nat : /\ Len(buffer) = processed + l
                           /\ Copies(Unprocessed, buffer, processed, l)
<1>1. PICK n \in Nat : n = Len(buffer)
  BY LenProperties DEF Buffered, HasInput
<1>2. PICK p \in Nat : p = processed /\ p <= n
  BY <1>1 DEF Buffered, HasInput
<1>3. PICK l \in Nat : n = p + l
  <2>1. n - p \in Nat /\ n = p + (n - p)
    BY <1>2
  <2> QED BY <2>1
<1>4. buffer \in Seq(STRING)
  BY DEF Buffered, HasInput
<1>5. PICK q \in Nat : q = p + 1
  OBVIOUS
<1>6. PICK s : s = SubSeq(buffer, q, n)
  OBVIOUS
<1>7. \A i \in q..n : buffer[i] \in STRING
  BY <1>1, <1>4, <1>5, ElementOfSeq
<1>8. /\ s \in Seq(STRING) /\ Len(s) = IF q <= n THEN n - q + 1 ELSE 0
      /\ \A i \in 1..(n - q + 1) : s[i] = buffer[q + i - 1]
  BY <1>5, <1>6, <1>7, SubSeqProperties
<1>9. Len(s) = l
  BY <1>3, <1>5, <1>8
<1>10. ASSUME NEW k \in 1..l PROVE s[k] = buffer[p + k]
  <2>1. k \in 1..(n - q + 1) /\ q + k - 1 = p + k
    BY <1>3, <1>5
  <2> QED BY <1>8, <2>1
<1>11. Unprocessed = s
  BY <1>1, <1>2, <1>5, <1>6 DEF Unprocessed
<1> QED BY <1>1, <1>2, <1>3, <1>8, <1>9, <1>10, <1>11 DEF Copies

LEMMA WindowIs ==
  ASSUME Buffered
  PROVE  /\ SubSeq(buffer, 1, window) \in Seq(STRING) /\ Len(SubSeq(buffer, 1, window)) = window
         /\ pc = "process" => SubSeq(buffer, 1, window) = buffer
<1>1. PICK n \in Nat : n = Len(buffer)
  BY LenProperties DEF Buffered, HasInput
<1>2. PICK w \in Nat : w = window /\ w <= n
  BY <1>1 DEF Buffered, HasWindow
<1>3. buffer \in Seq(STRING)
  BY DEF Buffered, HasInput
<1>4. \A i \in 1..w : buffer[i] \in STRING
  BY <1>1, <1>2, <1>3, ElementOfSeq
<1>5. SubSeq(buffer, 1, w) \in Seq(STRING) /\ Len(SubSeq(buffer, 1, w)) = IF 1 <= w THEN w - 1 + 1 ELSE 0
  BY <1>2, <1>4, SubSeqProperties
<1>6. Len(SubSeq(buffer, 1, w)) = w
  BY <1>5
<1>7. pc = "process" => SubSeq(buffer, 1, w) = buffer
  BY <1>2, <1>3, SubSeqFull DEF Buffered, HasWindow
<1> QED BY <1>2, <1>5, <1>6, <1>7

\* What the lexer gives a token loop.
LEMMA LexedReads ==
  ASSUME Buffered, NEW streaming, NEW t, t = Lexed(streaming)
  PROVE  /\ Reads(t, SubSeq(buffer, 1, window), at, tb)
         /\ t.at \in at..window /\ t.at \in 0..Len(buffer) /\ IsBuffer(t.tb)
         /\ CleanMinus(SubSeq(buffer, 1, window)) => Keeps(t, SubSeq(buffer, 1, window), at, tb)
<1>1. PICK b \in Seq(STRING) : b = SubSeq(buffer, 1, window) /\ Len(b) = window
  BY WindowIs
<1>2. at \in 0..Len(b) /\ IsBuffer(tb)
  BY <1>1 DEF Buffered, HasInput, HasWindow
<1>3. t = Lex(b, at, tb, streaming)
  BY <1>1 DEF Lexed
<1>4. Reads(t, b, at, tb) /\ (CleanMinus(b) => Keeps(t, b, at, tb))
  BY <1>2, <1>3, Lexes
<1>5. t.at \in at..window /\ IsBuffer(t.tb)
  BY <1>1, <1>4 DEF Reads
<1>6. t.at \in 0..Len(buffer)
  <2>1. PICK n \in Nat : n = Len(buffer)
    BY LenProperties DEF Buffered, HasInput
  <2>2. PICK w \in Nat : w = window /\ w <= n
    BY <2>1 DEF Buffered, HasWindow
  <2>3. PICK p \in Nat : p = at
    BY <2>2 DEF Buffered, HasWindow
  <2> QED BY <1>5, <2>1, <2>2, <2>3
<1> QED BY <1>1, <1>4, <1>5, <1>6

LEMMA LoopStarts ==
  ASSUME NEW loop \in {"process", "complete", "rest"}, NEW bytes \in Seq(STRING), StartLoop(loop, bytes),
         NEW n \in Nat, Len(buffer') = n, Len(bytes) <= n,
         loop = "process" => Len(bytes) = n, loop # "process" => call' # "feed"
  PROVE  HasWindow'
<1>1. PICK w \in Nat : w = Len(bytes) /\ w <= n
  BY LenProperties
<1>2. StartOf(bytes, AllowBom) \in 0..w
  BY <1>1, StartIs
<1>3. at' \in 0..w /\ window' = w /\ pc' = loop
  BY <1>1, <1>2 DEF StartLoop
<1> QED BY <1>1, <1>3 DEF HasWindow

LEMMA LoopEnds ==
  ASSUME NEW n \in Nat, Len(buffer') = n, pc' \in {"idle", "final"}, at' = 0, window' = 0
  PROVE  HasWindow'
BY DEF HasWindow

LEMMA AfterLoopIs ==
  ASSUME buffer \in Seq(STRING), buffer' = buffer, call' = call, processed' \in 0..Len(buffer),
         NEW done \in {"process", "complete", "rest"}, AfterLoop(done)
  PROVE  /\ HasWindow'
         /\ pc' # done /\ pc' # "process"
         /\ pc' = "idle" => call = "feed"
<1>1. PICK n \in Nat : n = Len(buffer)
  BY LenProperties
<1>2. PICK left \in Nat : left <= n /\ left = n - processed'
  BY <1>1
<1>3. PICK next : next = CASE call = "feed" -> "idle"
                           [] call = "finish" /\ done = "process" /\ tb'.type # "NONE" -> "complete"
                           [] call = "finish" /\ done # "rest" /\ left > 0
                              /\ ~(done = "process" /\ tb'.type # "NONE") -> "rest"
                           [] OTHER -> "final"
  OBVIOUS
<1>4. IF next \in {"complete", "rest"} THEN StartLoop(next, SubSeq(buffer, 1, left))
      ELSE pc' = next /\ at' = 0 /\ window' = 0
  BY <1>1, <1>2, <1>3 DEF AfterLoop
<1>5. \/ call = "feed" /\ next = "idle"
      \/ call = "finish" /\ done = "process" /\ next = "complete"
      \/ call = "finish" /\ done # "rest" /\ next = "rest"
      \/ next = "final"
  BY <1>3
<1>6. CASE next \in {"complete", "rest"}
  <2>1. \A i \in 1..left : buffer[i] \in STRING
    BY <1>1, <1>2, ElementOfSeq
  <2>2. PICK bytes \in Seq(STRING) : bytes = SubSeq(buffer, 1, left) /\ Len(bytes) <= n
    <3>1. left \in Nat /\ left <= n
      BY <1>1, <1>2
    <3>2. /\ SubSeq(buffer, 1, left) \in Seq(STRING)
          /\ Len(SubSeq(buffer, 1, left)) = IF 1 <= left THEN left - 1 + 1 ELSE 0
      BY <2>1, <3>1, SubSeqProperties
    <3>3. PICK l : l = Len(SubSeq(buffer, 1, left))
      OBVIOUS
    <3>4. l <= n
      BY <3>1, <3>2, <3>3
    <3> QED BY <3>2, <3>3, <3>4
  <2>3. StartLoop(next, bytes) /\ pc' = next
    BY <1>4, <1>6, <2>2 DEF StartLoop
  <2>4. call' # "feed" /\ next # "process" /\ next \in {"process", "complete", "rest"}
    BY <1>5, <1>6
  <2>5. HasWindow'
    BY <1>1, <2>2, <2>3, <2>4, LoopStarts
  <2> QED BY <1>5, <1>6, <2>3, <2>5
<1>7. CASE next \notin {"complete", "rest"}
  <2>1. pc' = next /\ at' = 0 /\ window' = 0 /\ next \in {"idle", "final"}
    BY <1>4, <1>5, <1>7
  <2>2. HasWindow'
    BY <1>1, <2>1, LoopEnds
  <2> QED BY <1>5, <2>1, <2>2
<1> QED BY <1>6, <1>7

\* The next n bytes.
LEMMA NextBytes ==
  ASSUME Buffered, NEW n \in 1..(Len(Bytes) - fed)
  PROVE  /\ SubSeq(Bytes, fed + 1, fed + n) \in Seq(STRING)
         /\ Copies(SubSeq(Bytes, fed + 1, fed + n), Bytes, fed, n)
         /\ fed + n \in 0..Len(Bytes)
<1>1. PICK b \in Seq(STRING) : b = Bytes
  BY BytesAre DEF Buffered, HasInput
<1>2. PICK l \in Nat : l = Len(b)
  BY LenProperties
<1>3. PICK f \in Nat : f = fed /\ f <= l
  BY <1>1, <1>2 DEF Buffered, HasInput
<1>4. n \in Nat /\ n >= 1 /\ f + n <= l
  BY <1>1, <1>2, <1>3
<1>5. PICK q \in Nat : q = f + 1
  OBVIOUS
<1>6. PICK e \in Nat : e = f + n
  BY <1>4
<1>7. \A i \in q..e : b[i] \in STRING
  BY <1>2, <1>4, <1>5, <1>6, ElementOfSeq
<1>8. PICK s : s = SubSeq(b, q, e)
  OBVIOUS
<1>9. /\ s \in Seq(STRING) /\ Len(s) = IF q <= e THEN e - q + 1 ELSE 0
      /\ \A i \in 1..(e - q + 1) : s[i] = b[q + i - 1]
  BY <1>5, <1>6, <1>7, <1>8, SubSeqProperties
<1>10. Len(s) = n
  BY <1>4, <1>5, <1>6, <1>9
<1>11. ASSUME NEW k \in 1..n PROVE s[k] = b[f + k]
  <2>1. k \in 1..(e - q + 1) /\ q + k - 1 = f + k
    BY <1>4, <1>5, <1>6
  <2> QED BY <1>9, <2>1
<1>12. s = SubSeq(Bytes, fed + 1, fed + n)
  BY <1>1, <1>3, <1>5, <1>6, <1>8
<1>13. Copies(s, b, f, n) /\ f + n \in 0..l
  BY <1>4, <1>10, <1>11 DEF Copies
<1> QED BY <1>1, <1>2, <1>3, <1>9, <1>12, <1>13

LEMMA FeedBuffered ==
  ASSUME Buffered, NEW n \in 1..(Len(Bytes) - fed), Feed(n)
  PROVE  Buffered'
<1>1. PICK new \in Seq(STRING) : new = SubSeq(Bytes, fed + 1, fed + n)
  BY NextBytes
<1>2. PICK bytes \in Seq(STRING) : bytes = Unprocessed \o new
  BY UnprocessedIs, ConcatProperties
<1>3. PICK m \in Nat : m = Len(bytes)
  BY LenProperties
<1>4. buffer' = bytes /\ processed' = 0 /\ tb' = tb /\ text' = text /\ fed' = fed + n /\ call' = "feed"
  BY <1>1, <1>2 DEF Feed
<1>5. HasInput'
  <2>1. Bytes' = Bytes
    BY <1>4 DEF Bytes
  <2>2. fed' \in 0..Len(Bytes')
    BY <1>4, <2>1, NextBytes
  <2>3. processed' \in 0..Len(buffer')
    BY <1>3, <1>4
  <2>4. text \in Texts /\ IsBuffer(tb)
    BY DEF Buffered, HasInput
  <2> QED BY <1>4, <2>2, <2>3, <2>4 DEF HasInput
<1>6. CASE fed + n > MaxTotal
  <2>1. pc' = "idle" /\ at' = 0 /\ window' = 0
    BY <1>6 DEF Feed, Return
  <2>2. HasWindow'
    BY <1>3, <1>4, <2>1, LoopEnds
  <2> QED BY <1>5, <2>2 DEF Buffered
<1>7. CASE ~(fed + n > MaxTotal)
  <2>1. StartLoop("process", bytes)
    BY <1>1, <1>2, <1>7 DEF Feed
  <2>2. HasWindow'
    BY <1>3, <1>4, <2>1, LoopStarts
  <2> QED BY <1>5, <2>2 DEF Buffered
<1> QED BY <1>6, <1>7

LEMMA FinishBuffered ==
  ASSUME Buffered, Finish
  PROVE  Buffered'
<1>1. text' = text /\ fed' = fed /\ tb' = tb /\ Bytes' = Bytes /\ call' = "finish" /\ pc = "idle"
  BY DEF Finish, Bytes
<1>2. CASE state = "ERROR"
  <2>1. UNCHANGED <<buffer, processed, at, window, pc>>
    BY <1>2 DEF Finish
  <2>2. HasInput' /\ HasWindow'
    BY <1>1, <2>1 DEF Buffered, HasInput, HasWindow
  <2> QED BY <2>2 DEF Buffered
<1>3. CASE state # "ERROR"
  <2>1. PICK bytes \in Seq(STRING) : bytes = Unprocessed
    BY UnprocessedIs
  <2>2. PICK m \in Nat : m = Len(bytes)
    BY LenProperties
  <2>3. buffer' = bytes /\ processed' = 0
    BY <1>3, <2>1 DEF Finish
  <2>4. HasInput'
    BY <1>1, <2>2, <2>3 DEF Buffered, HasInput
  <2>5. CASE bytes # <<>>
    <3>1. StartLoop("process", bytes)
      BY <1>3, <2>1, <2>5 DEF Finish
    <3>2. HasWindow'
      BY <2>2, <2>3, <3>1, LoopStarts
    <3> QED BY <2>4, <3>2 DEF Buffered
  <2>6. CASE bytes = <<>> /\ tb.type # "NONE"
    <3>1. StartLoop("complete", <<>>)
      BY <1>3, <2>1, <2>6 DEF Finish
    <3>2. <<>> \in Seq(STRING) /\ Len(<<>>) = 0 /\ Len(<<>>) <= m
      BY <2>2, <2>6
    <3>3. HasWindow'
      BY <1>1, <2>2, <2>3, <3>1, <3>2, LoopStarts
    <3> QED BY <2>4, <3>3 DEF Buffered
  <2>7. CASE bytes = <<>> /\ tb.type = "NONE"
    <3>1. pc' = "final" /\ at' = at /\ window' = window
      BY <1>3, <2>1, <2>7 DEF Finish
    <3>2. at = 0 /\ window = 0
      BY <1>1 DEF Buffered, HasWindow
    <3>3. HasWindow'
      BY <2>2, <2>3, <3>1, <3>2, LoopEnds
    <3> QED BY <2>4, <3>3 DEF Buffered
  <2> QED BY <2>5, <2>6, <2>7
<1> QED BY <1>2, <1>3

\* A turn that leaves its loop, and one that goes on.
LEMMA TurnBuffered ==
  ASSUME Buffered, UNCHANGED <<text, fed, buffer, call>>,
         processed' \in 0..Len(buffer), IsBuffer(tb'),
         HasWindow' \/ Return
  PROVE  Buffered'
<1>1. HasInput'
  <2>1. Bytes' = Bytes
    BY DEF Bytes
  <2> QED BY <2>1 DEF Buffered, HasInput
<1>2. CASE Return
  <2>1. PICK n \in Nat : n = Len(buffer')
    BY <1>1, LenProperties DEF HasInput
  <2>2. pc' = "idle" /\ at' = 0 /\ window' = 0
    BY <1>2 DEF Return
  <2>3. HasWindow'
    BY <2>1, <2>2, LoopEnds
  <2> QED BY <1>1, <2>3 DEF Buffered
<1> QED BY <1>1, <1>2 DEF Buffered

LEMMA HandledBuffered ==
  ASSUME Buffered, UNCHANGED <<text, fed, buffer, call>>, NEW loop \in {"process", "complete", "rest"}, pc = loop,
         NEW streaming, NEW t, t = Lexed(streaming), Handled(t, loop)
  PROVE  Buffered' /\ (pc' = pc => status' = "OK" /\ at' = t.at) /\ (pc' = "idle" /\ status' = "OK" => call = "feed")
<1>1. t.at \in at..window /\ t.at \in 0..Len(buffer) /\ IsBuffer(t.tb)
  BY LexedReads
<1>2. tb' = t.tb /\ (processed' = t.at \/ processed' = processed)
  BY DEF Handled
<1>3. processed' \in 0..Len(buffer) /\ IsBuffer(tb')
  BY <1>1, <1>2 DEF Buffered, HasInput
<1>4. CASE status' # "OK"
  <2>1. Return
    BY <1>4 DEF Handled
  <2>2. Buffered'
    BY <1>3, <2>1, TurnBuffered
  <2> QED BY <1>4, <2>1, <2>2 DEF Return
<1>5. CASE status' = "OK" /\ state' \in Over
  <2>1. AfterLoop(loop)
    BY <1>5 DEF Handled
  <2>2. HasWindow' /\ pc' # loop /\ (pc' = "idle" => call = "feed")
    <3>1. buffer \in Seq(STRING)
      BY DEF Buffered, HasInput
    <3> QED BY <1>3, <2>1, <3>1, AfterLoopIs
  <2>3. Buffered'
    BY <1>3, <2>2, TurnBuffered
  <2> QED BY <2>2, <2>3
<1>6. CASE status' = "OK" /\ state' \notin Over
  <2>1. pc' = loop /\ at' = t.at /\ window' = window
    BY <1>6 DEF Handled
  <2>2. at' \in 0..window
    <3>1. PICK n \in Nat : n = Len(buffer)
      BY LenProperties DEF Buffered, HasInput
    <3>2. PICK w \in Nat : w = window /\ w <= n
      BY <3>1 DEF Buffered, HasWindow
    <3>3. PICK p \in Nat : p = at
      BY <3>2 DEF Buffered, HasWindow
    <3> QED BY <1>1, <2>1, <3>2, <3>3
  <2>3. HasWindow'
    BY <2>1, <2>2 DEF Buffered, HasWindow
  <2>4. Buffered'
    BY <1>3, <2>3, TurnBuffered
  <2> QED BY <1>6, <2>1, <2>4
<1> QED BY <1>4, <1>5, <1>6

LEMMA TokenFails ==
  ASSUME NEW t, HandleToken(t), status' # "OK"
  PROVE  state' \in Over
<1>1. "ERROR" \in Over
  BY DEF Over
<1>2. ASSUME NEW code, SetError(code) PROVE state' \in Over
  BY <1>1, <1>2 DEF SetError
<1>3. ASSUME NEW next, Pass(next) PROVE status' = "OK"
  BY <1>3 DEF Pass
<1>4. ASSUME NEW type, NEW lexeme, NEW next, NEW sk, NEW n, Tell(type, lexeme, next, sk, n)
      PROVE  state' \in Over
  BY <1>1, <1>4 DEF Tell, RefusedEvent
<1>5. ASSUME NEW kind, NEW type, NEW next, BeginContainer(kind, type, next, t) PROVE state' \in Over
  BY <1>1, <1>5, <1>2 DEF BeginContainer, Begun
<1>6. CASE Scalar(t)
  BY <1>1, <1>4, <1>6 DEF Scalar, RefusedEvent
<1>7. CASE HandleValue(t)
  BY <1>2, <1>5, <1>6, <1>7 DEF HandleValue
<1>8. CASE HandleEnd(t)
  BY <1>2, <1>4, <1>8 DEF HandleEnd, EndContainer
<1>9. CASE AfterValue(t)
  BY <1>2, <1>3, <1>8, <1>9 DEF AfterValue
<1>10. CASE ExpectedValue(t)
  BY <1>7, <1>8, <1>10 DEF ExpectedValue
<1>11. CASE ObjectKey(t)
  BY <1>2, <1>4, <1>11 DEF ObjectKey
<1>12. CASE ObjectValue(t)
  BY <1>2, <1>3, <1>12 DEF ObjectValue
<1>13. CASE state \in Over /\ UNCHANGED parser
  BY <1>13 DEF parser
<1> QED BY <1>7, <1>9, <1>10, <1>11, <1>12, <1>13 DEF HandleToken

Advances == at' > at \/ (tb.type # "NONE" /\ tb'.type = "NONE")

LEMMA ProcessBuffered ==
  ASSUME Buffered, Process
  PROVE  Buffered' /\ (pc' = pc => Advances) /\ pc \in {"process"}
<1>1. PICK t : t = Lexed(TRUE)
  OBVIOUS
<1>2. /\ t.at \in at..window /\ t.at \in 0..Len(buffer) /\ IsBuffer(t.tb)
      /\ Reads(t, SubSeq(buffer, 1, window), at, tb)
  BY <1>1, LexedReads
<1>3. UNCHANGED <<text, fed, buffer, call>> /\ pc = "process"
  BY DEF Process
<1>4. buffer \in Seq(STRING) /\ buffer' = buffer /\ call' = call /\ processed \in 0..Len(buffer)
  BY <1>3 DEF Buffered, HasInput
<1>5. ASSUME processed' \in 0..Len(buffer), tb' = t.tb, AfterLoop("process") PROVE Buffered' /\ pc' # pc
  <2>1. HasWindow' /\ pc' # "process"
    BY <1>4, <1>5, AfterLoopIs
  <2>2. IsBuffer(tb')
    BY <1>2, <1>5
  <2> QED BY <1>3, <1>5, <2>1, <2>2, TurnBuffered
<1>6. CASE NoTokenYet(t)
  <2>1. processed' \in {processed, t.at} /\ tb' = t.tb /\ AfterLoop("process")
    BY <1>6 DEF NoTokenYet, ProcessedUpTo
  <2>2. processed' \in 0..Len(buffer)
    BY <1>2, <1>4, <2>1
  <2> QED BY <1>3, <1>5, <2>1, <2>2
<1>7. CASE processed' = t.at /\ tb' = t.tb /\ AfterLoop("process")
  BY <1>2, <1>3, <1>5, <1>7
<1>8. CASE t.status = "OK" /\ t.type # "EOF" /\ Handled(t, "process")
  <2>1. Buffered' /\ (pc' = pc => at' = t.at)
    BY <1>1, <1>3, <1>8, HandledBuffered
  <2>2. tb' = t.tb
    BY <1>8 DEF Handled
  <2>3. t.tb = NoToken /\ (tb.type = "NONE" => t.at > at)
    BY <1>2, <1>8 DEF Reads
  <2>4. tb'.type = "NONE"
    BY <2>2, <2>3, NoTokenIsBuffer
  <2> QED BY <1>3, <2>1, <2>3, <2>4 DEF Advances
<1>9. \/ NoTokenYet(t)
      \/ processed' = t.at /\ tb' = t.tb /\ AfterLoop("process")
      \/ t.status = "OK" /\ t.type # "EOF" /\ Handled(t, "process")
  BY <1>1 DEF Process
<1> QED BY <1>3, <1>6, <1>7, <1>8, <1>9

LEMMA ForcedBuffered ==
  ASSUME Buffered, NEW loop \in {"complete", "rest"}, Forced(loop)
  PROVE  /\ Buffered' /\ (pc' = pc => Advances) /\ pc = loop
         /\ pc' # "process" /\ (pc' = "idle" => state' \in Over)
<1>1. PICK t : t = Lexed(FALSE)
  OBVIOUS
<1>2. /\ t.at \in at..window /\ t.at \in 0..Len(buffer) /\ IsBuffer(t.tb)
      /\ Reads(t, SubSeq(buffer, 1, window), at, tb)
  BY <1>1, LexedReads
<1>3. UNCHANGED <<text, fed, buffer, call>> /\ pc = loop
  BY DEF Forced
<1>4. /\ buffer \in Seq(STRING) /\ buffer' = buffer /\ call' = call /\ processed \in 0..Len(buffer)
      /\ call # "feed" /\ loop \in {"process", "complete", "rest"} /\ loop # "idle" /\ loop # "process"
  BY <1>3 DEF Buffered, HasInput, HasWindow
<1>5. CASE SetError(t.status) /\ tb' = t.tb /\ processed' = processed /\ Return
  <2>1. processed' \in 0..Len(buffer) /\ IsBuffer(tb')
    BY <1>2, <1>4, <1>5
  <2>2. Buffered'
    BY <1>3, <1>5, <2>1, TurnBuffered
  <2>3. pc' = "idle" /\ state' = "ERROR"
    BY <1>5 DEF Return, SetError
  <2> QED BY <1>3, <1>4, <2>2, <2>3 DEF Over
<1>6. CASE processed' = t.at /\ tb' = t.tb /\ AfterLoop(loop)
  <2>1. processed' \in 0..Len(buffer) /\ IsBuffer(tb')
    BY <1>2, <1>6
  <2>2. HasWindow' /\ pc' # loop /\ pc' # "process" /\ (pc' = "idle" => call = "feed")
    BY <1>4, <1>6, <2>1, AfterLoopIs
  <2>3. Buffered'
    BY <1>3, <2>1, <2>2, TurnBuffered
  <2> QED BY <1>3, <1>4, <2>2, <2>3
<1>7. CASE t.status = "OK" /\ t.type # "EOF" /\ Handled(t, loop)
  <2>1. /\ Buffered' /\ (pc' = pc => at' = t.at)
        /\ (pc' = "idle" /\ status' = "OK" => call = "feed")
    BY <1>1, <1>3, <1>4, <1>7, HandledBuffered
  <2>2. tb' = t.tb
    BY <1>7 DEF Handled
  <2>3. t.tb = NoToken /\ (tb.type = "NONE" => t.at > at)
    BY <1>2, <1>7 DEF Reads
  <2>4. tb'.type = "NONE"
    BY <2>2, <2>3, NoTokenIsBuffer
  <2>5. pc' = "idle" => state' \in Over
    <3>1. status' # "OK" => state' \in Over
      BY <1>7, TokenFails DEF Handled
    <3> QED BY <1>4, <2>1, <3>1
  <2>6. pc' # "process"
    <3>1. CASE status' # "OK"
      BY <1>7, <3>1 DEF Handled, Return
    <3>2. CASE status' = "OK" /\ state' \in Over
      <4>1. AfterLoop(loop) /\ processed' = t.at
        BY <1>7, <3>2 DEF Handled
      <4> QED BY <1>2, <1>4, <4>1, AfterLoopIs
    <3>3. CASE status' = "OK" /\ state' \notin Over
      BY <1>4, <1>7, <3>3 DEF Handled
    <3> QED BY <3>1, <3>2, <3>3
  <2> QED BY <1>3, <2>1, <2>3, <2>4, <2>5, <2>6 DEF Advances
<1>8. \/ SetError(t.status) /\ tb' = t.tb /\ processed' = processed /\ Return
      \/ processed' = t.at /\ tb' = t.tb /\ AfterLoop(loop)
      \/ t.status = "OK" /\ t.type # "EOF" /\ Handled(t, loop)
  BY <1>1 DEF Forced
<1> QED BY <1>5, <1>6, <1>7, <1>8

LEMMA StarvesBuffered ==
  ASSUME Buffered, TokenStarves
  PROVE  Buffered' /\ pc' # pc /\ state' \in Over
<1>1. /\ UNCHANGED <<text, fed, buffer, processed, call>> /\ tb' \in {tb, NoToken}
      /\ pc \in {"process", "complete", "rest"} /\ state' = "ERROR"
  BY DEF TokenStarves
<1>2. buffer \in Seq(STRING) /\ processed' \in 0..Len(buffer) /\ IsBuffer(tb')
  <2>1. IsBuffer(tb) /\ IsBuffer(NoToken)
    BY NoTokenIsBuffer DEF Buffered, HasInput
  <2> QED BY <1>1, <2>1 DEF Buffered, HasInput
<1>3. CASE pc = "process"
  <2>1. AfterLoop("process")
    BY <1>3 DEF TokenStarves
  <2>2. HasWindow' /\ pc' # "process"
    BY <1>1, <1>2, <2>1, AfterLoopIs
  <2>3. Buffered'
    BY <1>1, <1>2, <2>2, TurnBuffered
  <2> QED BY <1>1, <1>3, <2>2, <2>3 DEF Over
<1>4. CASE pc # "process"
  <2>1. Return
    BY <1>4 DEF TokenStarves
  <2>2. Buffered'
    BY <1>1, <1>2, <2>1, TurnBuffered
  <2> QED BY <1>1, <2>1, <2>2 DEF Over, Return
<1> QED BY <1>3, <1>4

LEMMA FinalBuffered ==
  ASSUME Buffered, Final
  PROVE  Buffered' /\ pc' # pc /\ state' \in Over
<1>1. UNCHANGED <<text, fed, buffer, processed, tb, at, window, call>> /\ pc = "final" /\ pc' = "idle"
  BY DEF Final, input
<1>2. state' \in Over
  BY DEF Final, Over
<1>3. at = 0 /\ window = 0
  BY <1>1 DEF Buffered, HasWindow
<1>4. PICK n \in Nat : n = Len(buffer')
  BY <1>1, LenProperties DEF Buffered, HasInput
<1>5. HasWindow'
  BY <1>1, <1>3, <1>4, LoopEnds
<1>6. processed' \in 0..Len(buffer) /\ IsBuffer(tb')
  BY <1>1 DEF Buffered, HasInput
<1>7. Buffered'
  BY <1>1, <1>5, <1>6, TurnBuffered
<1> QED BY <1>1, <1>2, <1>7

LEMMA StillBuffered ==
  ASSUME Buffered, UNCHANGED <<text, input, at, window, pc>>, fed' \in 0..Len(Bytes),
         pc \in {"complete", "rest"} => call' # "feed"
  PROVE  Buffered'
<1>1. UNCHANGED <<buffer, processed, tb, Bytes>>
  BY DEF input, Bytes
<1>2. HasInput' /\ HasWindow'
  BY <1>1 DEF Buffered, HasInput, HasWindow
<1> QED BY <1>2 DEF Buffered

LEMMA NextBuffered ==
  ASSUME Buffered, [Next]_vars
  PROVE  Buffered' /\ [pc # "idle" /\ pc' = pc => Advances]_vars
<1>1. ASSUME NEW n \in 1..(Len(Bytes) - fed), Feed(n) \/ FeedStarves(n) \/ FeedLate(n)
      PROVE  Buffered' /\ pc = "idle"
  <2>1. pc = "idle"
    BY <1>1 DEF Feed, FeedStarves, FeedLate
  <2>2. CASE Feed(n)
    BY <1>1, <2>1, <2>2, FeedBuffered
  <2>3. CASE FeedStarves(n) \/ FeedLate(n)
    <3>1. UNCHANGED <<text, input, at, window, pc>> /\ fed' = fed + n
      BY <2>3 DEF FeedStarves, FeedLate
    <3>2. fed' \in 0..Len(Bytes)
      BY <1>1, <3>1, NextBytes
    <3> QED BY <2>1, <3>1, <3>2, StillBuffered
  <2> QED BY <1>1, <2>2, <2>3
<1>2. CASE Finish
  BY <1>2, FinishBuffered DEF Finish
<1>3. CASE Process
  BY <1>3, ProcessBuffered
<1>4. CASE Complete \/ Rest
  BY <1>4, ForcedBuffered DEF Complete, Rest
<1>5. CASE TokenStarves \/ Final
  BY <1>5, StarvesBuffered, FinalBuffered
<1>6. CASE UNCHANGED vars
  <2>1. UNCHANGED <<text, fed, input, at, window, pc, call>>
    BY <1>6 DEF vars
  <2>2. fed' \in 0..Len(Bytes) /\ (pc \in {"complete", "rest"} => call' # "feed")
    BY <2>1 DEF Buffered, HasInput, HasWindow
  <2> QED BY <1>6, <2>1, <2>2, StillBuffered
<1> QED BY <1>1, <1>2, <1>3, <1>4, <1>5, <1>6 DEF Next, Loop

LEMMA InitBuffered == Init => Buffered
<1> SUFFICES ASSUME Init PROVE Buffered
  OBVIOUS
<1>1. text \in Texts /\ fed = 0 /\ buffer = <<>> /\ processed = 0 /\ tb = NoToken
  BY DEF Init
<1>2. at = 0 /\ window = 0 /\ pc = "idle"
  BY DEF Init
<1>3. Len(Bytes) \in Nat
  BY <1>1, BytesAre, LenProperties
<1>4. buffer \in Seq(STRING) /\ Len(buffer) = 0
  BY <1>1
<1>5. HasInput
  BY <1>1, <1>3, <1>4, NoTokenIsBuffer DEF HasInput
<1>6. HasWindow
  BY <1>2, <1>4 DEF HasWindow
<1> QED BY <1>5, <1>6 DEF Buffered

\* No token loop of json_stream_process_tokens or gtext_json_stream_finish
\* turns forever: a turn that stays in its loop takes input or empties the
\* token buffer.
THEOREM EveryLoopAdvances == Spec => LoopsAdvance
<1>1. Init => Buffered
  BY InitBuffered
<1>2. Buffered /\ [Next]_vars => Buffered' /\ [pc # "idle" /\ pc' = pc => Advances]_vars
  BY NextBuffered
<1> QED BY <1>1, <1>2, PTL DEF Spec, LoopsAdvance, Advances

-----------------------------------------------------------------------------
(* What is held between calls.                                             *)

\* bf is the end of the first f bytes of bs, and tk the bytes right before the
\* unprocessed part of bf.
IsTail(bs, f, bf, done, tk) ==
    \E base \in Nat : \E l \in Nat : \E s \in Nat : \E m \in Nat :
        /\ f = base + l /\ Copies(bf, bs, base, l)
        /\ s + m = base + done /\ Copies(tk, bs, s, m)

LEMMA NothingCopied ==
  ASSUME NEW b, NEW p
  PROVE  Copies(<<>>, b, p, 0)
<1>1. Len(<<>>) = 0 /\ 1..0 = {}
  OBVIOUS
<1> QED BY <1>1 DEF Copies

LEMMA CopiesJoin ==
  ASSUME NEW S, NEW x \in Seq(S), NEW y \in Seq(S), NEW b, NEW p \in Nat, NEW l \in Nat,
         NEW q \in Nat, q = p + l, NEW m \in Nat, Copies(x, b, p, l), Copies(y, b, q, m),
         NEW e, e = l + m
  PROVE  x \o y \in Seq(S) /\ Copies(x \o y, b, p, e)
<1>1. Len(x) = l /\ Len(y) = m /\ (\A k \in 1..l : x[k] = b[p + k]) /\ \A k \in 1..m : y[k] = b[q + k]
  BY DEF Copies
<1>2. PICK z : z = x \o y
  OBVIOUS
<1>3. /\ z \in Seq(S) /\ Len(z) = l + m
      /\ \A k \in 1..(l + m) : z[k] = IF k <= l THEN x[k] ELSE y[k - l]
  <2>1. /\ z \in Seq(S) /\ Len(z) = Len(x) + Len(y)
        /\ \A k \in 1..(Len(x) + Len(y)) : z[k] = IF k <= Len(x) THEN x[k] ELSE y[k - Len(x)]
    BY <1>2, ConcatProperties, Zenon
  <2>2. Len(x) = l /\ Len(y) = m
    BY <1>1
  <2> QED BY <2>1, <2>2, Zenon
<1>4. ASSUME NEW k \in 1..(l + m) PROVE z[k] = b[p + k]
  <2>1. CASE k <= l
    BY <1>1, <1>3, <2>1
  <2>2. CASE ~(k <= l)
    <3>1. PICK j \in 1..m : j = k - l
      BY <2>2
    <3>2. z[k] = y[j] /\ y[j] = b[q + j]
      BY <1>1, <1>3, <2>2, <3>1
    <3>3. q + j = p + k
      BY <3>1
    <3> QED BY <3>2, <3>3
  <2> QED BY <2>1, <2>2
<1> QED BY <1>2, <1>3, <1>4 DEF Copies

\* What is copied from a copy.
LEMMA CopiesOfCopy ==
  ASSUME NEW x, NEW y, NEW b, NEW p \in Nat, NEW q \in Nat, NEW l \in Nat, NEW m \in Nat, NEW n \in Nat,
         Copies(x, y, q, m), Copies(y, b, p, n), NEW top, top = q + m, top <= n, NEW e, e = p + q
  PROVE  Copies(x, b, e, m)
<1>1. Len(x) = m /\ (\A k \in 1..m : x[k] = y[q + k]) /\ \A k \in 1..n : y[k] = b[p + k]
  BY DEF Copies
<1>2. ASSUME NEW k \in 1..m PROVE x[k] = b[e + k]
  <2>1. PICK i \in 1..n : i = q + k
    OBVIOUS
  <2>2. p + i = e + k
    BY <2>1
  <2>3. x[k] = y[i] /\ y[i] = b[p + i]
    BY <1>1, <2>1
  <2> QED BY <2>2, <2>3
<1> QED BY <1>1, <1>2 DEF Copies

LEMMA CopyIs ==
  ASSUME NEW S, NEW b \in Seq(S), NEW x \in Seq(S), NEW p \in Nat, NEW l \in Nat, NEW e \in Nat, e = p + l,
         e <= Len(b), Copies(x, b, p, l)
  PROVE  x = Piece(b, p, e)
<1>1. PICK y \in Seq(S) : y = Piece(b, p, e) /\ Copies(y, b, p, l)
  BY PieceTo
<1>2. Len(x) = l /\ Len(y) = l /\ \A k \in 1..l : x[k] = b[p + k] /\ y[k] = b[p + k]
  BY <1>1 DEF Copies
<1>3. x = y
  BY <1>2, SeqEqual
<1> QED BY <1>1, <1>3

LEMMA PieceInside ==
  ASSUME NEW S, NEW b \in Seq(S), NEW p, NEW e \in Nat, e <= Len(b)
  PROVE  Piece(b, p, e) = SubSeq(b, p + 1, e)
<1>1. PICK n \in Nat : n = Len(b) /\ e <= n
  BY LenProperties
<1>2. Min({e, n}) = e
  BY <1>1, MinOfTwo
<1> QED BY <1>1, <1>2 DEF Piece

LEMMA CopiesOfHeld ==
  ASSUME NEW S, NEW new \in Seq(S), NEW old \in Seq(S), NEW b \in Seq(S), NEW bs, NEW base \in Nat, NEW l \in Nat,
         NEW q \in Nat, NEW d \in Nat, NEW a, a = q + d, a <= l, Holds(new, old, b, q, a),
         Copies(b, bs, base, l), NEW s \in Nat, NEW m \in Nat, s + m = base + q, Copies(old, bs, s, m),
         NEW n, n = m + d
  PROVE  Copies(new, bs, s, n)
<1>1. /\ Len(old) = m /\ (\A k \in 1..m : old[k] = bs[s + k])
      /\ \A k \in 1..l : b[k] = bs[base + k]
  BY DEF Copies
<1>3. a - q = d
  OBVIOUS
<1>4. Len(new) = m + d /\ (\A k \in 1..m : new[k] = old[k]) /\ \A k \in 1..d : new[m + k] = b[q + k]
  BY <1>1, <1>3 DEF Holds
<1>6. ASSUME NEW k \in 1..n PROVE new[k] = bs[s + k]
  <2>1. CASE k <= m
    BY <1>1, <1>4, <2>1
  <2>2. CASE ~(k <= m)
    <3>1. PICK j \in 1..d : k = m + j
      <4>1. k - m \in 1..d /\ k = m + (k - m)
        BY <2>2
      <4> QED BY <4>1
    <3>2. PICK i \in 1..l : i = q + j
      OBVIOUS
    <3>3. new[k] = b[i] /\ b[i] = bs[base + i]
      BY <1>1, <1>4, <3>1, <3>2
    <3>4. base + i = s + k
      BY <3>1, <3>2
    <3> QED BY <3>3, <3>4
  <2> QED BY <2>1, <2>2
<1> QED BY <1>4, <1>6 DEF Copies

LEMMA TailAt ==
  ASSUME NEW bs, NEW f, NEW bf, NEW done, NEW tk, IsTail(bs, f, bf, done, tk), NEW a \in Nat
  PROVE  IsTail(bs, f, bf, a, <<>>)
<1>1. PICK base \in Nat : \E l \in Nat : f = base + l /\ Copies(bf, bs, base, l)
  BY DEF IsTail
<1>2. PICK l \in Nat : f = base + l /\ Copies(bf, bs, base, l)
  BY <1>1
<1>3. PICK s \in Nat : s = base + a
  BY <1>1
<1>4. s + 0 = base + a /\ 0 \in Nat
  BY <1>3
<1>5. Copies(<<>>, bs, s, 0)
  BY NothingCopied
<1> QED BY <1>1, <1>2, <1>3, <1>4, <1>5, Zenon DEF IsTail

LEMMA TailKept ==
  ASSUME NEW S, NEW bs, NEW f, NEW bf \in Seq(S), NEW q \in Nat, NEW old \in Seq(S), IsTail(bs, f, bf, q, old),
         NEW new \in Seq(S), NEW a \in Nat, q <= a, a <= Len(bf), Holds(new, old, bf, q, a)
  PROVE  IsTail(bs, f, bf, a, new)
<1>1. PICK base \in Nat : \E l \in Nat : \E s \in Nat : \E m \in Nat :
        /\ f = base + l /\ Copies(bf, bs, base, l)
        /\ s + m = base + q /\ Copies(old, bs, s, m)
  BY DEF IsTail
<1>2. PICK l \in Nat : \E s \in Nat : \E m \in Nat :
        /\ f = base + l /\ Copies(bf, bs, base, l)
        /\ s + m = base + q /\ Copies(old, bs, s, m)
  BY <1>1
<1>3. PICK s \in Nat : \E m \in Nat :
        /\ f = base + l /\ Copies(bf, bs, base, l)
        /\ s + m = base + q /\ Copies(old, bs, s, m)
  BY <1>2
<1>4. PICK m \in Nat :
        /\ f = base + l /\ Copies(bf, bs, base, l)
        /\ s + m = base + q /\ Copies(old, bs, s, m)
  BY <1>3
<1>5. a <= l
  BY <1>4 DEF Copies
<1>6. PICK d \in Nat : a = q + d
  <2>1. a - q \in Nat /\ a = q + (a - q)
    OBVIOUS
  <2> QED BY <2>1
<1>7. PICK n \in Nat : n = m + d
  BY <1>4, <1>6
<1>8. Copies(new, bs, s, n)
  <2>1. base \in Nat /\ l \in Nat /\ s \in Nat /\ m \in Nat
    BY <1>1, <1>2, <1>3, <1>4
  <2> QED BY <1>4, <1>5, <1>6, <1>7, <2>1, CopiesOfHeld
<1>9. s + n = base + a
  BY <1>1, <1>3, <1>4, <1>6, <1>7
<1> QED BY <1>1, <1>2, <1>3, <1>4, <1>7, <1>8, <1>9, Zenon DEF IsTail

LEMMA TailDropped ==
  ASSUME NEW bs, NEW f, NEW bf, NEW done \in Nat, NEW tk, IsTail(bs, f, bf, done, tk),
         NEW r, NEW k \in Nat, Len(bf) = done + k, Copies(r, bf, done, k)
  PROVE  IsTail(bs, f, r, 0, tk)
<1>1. PICK base \in Nat : \E l \in Nat : \E s \in Nat : \E m \in Nat :
        /\ f = base + l /\ Copies(bf, bs, base, l)
        /\ s + m = base + done /\ Copies(tk, bs, s, m)
  BY DEF IsTail
<1>2. PICK l \in Nat : \E s \in Nat : \E m \in Nat :
        /\ f = base + l /\ Copies(bf, bs, base, l)
        /\ s + m = base + done /\ Copies(tk, bs, s, m)
  BY <1>1
<1>3. PICK s \in Nat : \E m \in Nat :
        /\ f = base + l /\ Copies(bf, bs, base, l)
        /\ s + m = base + done /\ Copies(tk, bs, s, m)
  BY <1>2
<1>4. PICK m \in Nat :
        /\ f = base + l /\ Copies(bf, bs, base, l)
        /\ s + m = base + done /\ Copies(tk, bs, s, m)
  BY <1>3
<1>5. l = done + k
  BY <1>4 DEF Copies
<1>6. PICK from \in Nat : from = base + done
  BY <1>1
<1>7. PICK top : top = done + k /\ top <= l
  BY <1>5
<1>8. Copies(r, bs, from, k)
  BY <1>1, <1>2, <1>4, <1>6, <1>7, CopiesOfCopy
<1>9. f = from + k /\ s + m = from + 0
  BY <1>1, <1>2, <1>4, <1>5, <1>6
<1> QED BY <1>3, <1>4, <1>6, <1>8, <1>9, Zenon DEF IsTail

LEMMA TailGrown ==
  ASSUME NEW S, NEW bs, NEW f, NEW bf \in Seq(S), NEW tk, IsTail(bs, f, bf, 0, tk),
         NEW new \in Seq(S), NEW n \in Nat, Copies(new, bs, f, n), NEW e, e = f + n
  PROVE  IsTail(bs, e, bf \o new, 0, tk)
<1>1. PICK base \in Nat : \E l \in Nat : \E s \in Nat : \E m \in Nat :
        /\ f = base + l /\ Copies(bf, bs, base, l)
        /\ s + m = base + 0 /\ Copies(tk, bs, s, m)
  BY DEF IsTail
<1>2. PICK l \in Nat : \E s \in Nat : \E m \in Nat :
        /\ f = base + l /\ Copies(bf, bs, base, l)
        /\ s + m = base + 0 /\ Copies(tk, bs, s, m)
  BY <1>1
<1>3. PICK s \in Nat : \E m \in Nat : s + m = base + 0 /\ Copies(tk, bs, s, m)
  BY <1>2
<1>4. PICK m \in Nat : s + m = base + 0 /\ Copies(tk, bs, s, m)
  BY <1>3
<1>5. f = base + l /\ f \in Nat /\ Copies(bf, bs, base, l)
  BY <1>1, <1>2
<1>6. PICK k \in Nat : k = l + n
  BY <1>2
<1>7. Copies(bf \o new, bs, base, k)
  BY <1>1, <1>2, <1>5, <1>6, CopiesJoin
<1>8. e = base + k
  BY <1>1, <1>2, <1>5, <1>6
<1> QED BY <1>1, <1>3, <1>4, <1>6, <1>7, <1>8, Zenon DEF IsTail

\* Between a token that is held and its rest no byte order mark is skipped, if
\* there is none.
LEMMA NoMarkSkipped ==
  ASSUME NEW bs \in Seq(STRING), NEW f \in Nat, f <= Len(bs), CutsAreClean(bs),
         NEW bf \in Seq(STRING), NEW tk \in Seq(STRING), tk # <<>>, IsTail(bs, f, bf, 0, tk)
  PROVE  StartOf(bf, AllowBom) = 0
<1>1. PICK base \in Nat : \E l \in Nat : \E s \in Nat : \E m \in Nat :
        /\ f = base + l /\ Copies(bf, bs, base, l)
        /\ s + m = base + 0 /\ Copies(tk, bs, s, m)
  BY DEF IsTail
<1>2. PICK l \in Nat : \E s \in Nat : \E m \in Nat :
        /\ f = base + l /\ Copies(bf, bs, base, l)
        /\ s + m = base + 0 /\ Copies(tk, bs, s, m)
  BY <1>1
<1>3. PICK s \in Nat : \E m \in Nat : s + m = base + 0 /\ Copies(tk, bs, s, m)
  BY <1>2
<1>4. PICK m \in Nat : s + m = base + 0 /\ Copies(tk, bs, s, m)
  BY <1>3
<1>5. base >= 1
  <2>1. m # 0
    BY <1>4, EmptySeq DEF Copies
  <2> QED BY <1>1, <1>3, <1>4, <2>1
<1>6. f = base + l /\ Copies(bf, bs, base, l) /\ Len(bf) = l
  BY <1>2 DEF Copies
<1> SUFFICES ASSUME StartOf(bf, AllowBom) # 0 PROVE FALSE
  OBVIOUS
<1>7. AllowBom /\ Len(bf) >= 3 /\ SubSeq(bf, 1, 3) = Mark
  BY StartIs
<1>8. 3 <= l /\ 3 = 0 + 3 /\ 3 <= Len(bf) /\ 0 \in Nat /\ 3 \in Nat
  BY <1>6, <1>7
<1>9. PICK x \in Seq(STRING) : x = Piece(bf, 0, 3) /\ Copies(x, bf, 0, 3)
  BY <1>8, PieceTo
<1>10. x = Mark
  <2>1. Min({3, l}) = 3
    BY <1>2, <1>8, MinOfTwo
  <2>2. Piece(bf, 0, 3) = SubSeq(bf, 1, 3)
    BY <1>6, <2>1 DEF Piece
  <2> QED BY <1>7, <1>9, <2>2
<1>11. PICK e \in Nat : e = base + 3
  BY <1>1
<1>12. Copies(x, bs, base, 3)
  <2>1. base = base + 0
    BY <1>1
  <2> QED BY <1>1, <1>2, <1>6, <1>8, <1>9, <2>1, CopiesOfCopy, ZenonT(60)
<1>13. PICK n \in Nat : n = Len(bs) /\ f <= n
  BY LenProperties
<1>14. e <= n /\ e <= Len(bs) /\ base \in 1..(n - 3)
  BY <1>1, <1>2, <1>5, <1>6, <1>8, <1>11, <1>13
<1>15. x = SubSeq(bs, base + 1, e)
  <2>1. e <= Len(bs) /\ 3 \in Nat
    BY <1>14
  <2>2. x = Piece(bs, base, e)
    BY <1>1, <1>9, <1>11, <1>12, <2>1, CopyIs
  <2>3. Piece(bs, base, e) = SubSeq(bs, base + 1, e)
    BY <2>1, PieceInside, Zenon
  <2> QED BY <2>2, <2>3
<1> QED BY <1>7, <1>10, <1>11, <1>13, <1>14, <1>15 DEF CutsAreClean

LEMMA TailIsClean ==
  ASSUME NEW bs \in Seq(STRING), NEW f \in Nat, f <= Len(bs), CutsAreClean(bs),
         NEW bf, NEW done, NEW tk, IsTail(bs, f, bf, done, tk)
  PROVE  CleanMinus(bf)
<1>1. PICK base \in Nat : \E l \in Nat : f = base + l /\ Copies(bf, bs, base, l)
  BY DEF IsTail
<1>2. PICK l \in Nat : f = base + l /\ Copies(bf, bs, base, l)
  BY <1>1
<1>3. PICK n \in Nat : n = Len(bs) /\ f <= n
  BY LenProperties
<1>4. Len(bf) = l /\ \A k \in 1..l : bf[k] = bs[base + k]
  BY <1>2 DEF Copies
<1>5. ASSUME AllowNonfinite, NEW k \in 1..(l - 1), bf[k] = "-" PROVE bf[k + 1] \in Digits
  <2>1. PICK i \in 1..(n - 1) : i = base + k
    BY <1>1, <1>2, <1>3, <1>5
  <2>2. k \in 1..l /\ k + 1 \in 1..l /\ base + (k + 1) = i + 1
    BY <1>1, <1>2, <1>5, <2>1
  <2>3. bs[i] = "-" /\ bf[k + 1] = bs[i + 1]
    BY <1>4, <1>5, <2>1, <2>2
  <2> QED BY <1>3, <1>5, <2>1, <2>3 DEF CutsAreClean
<1> QED BY <1>4, <1>5 DEF CleanMinus

Tracked ==
    CutsAreClean(Bytes) /\ state \notin Over /\ pc \in {"idle", "process"} =>
        /\ IsTail(Bytes, fed, buffer, processed, tb.bytes)
        /\ pc = "process" /\ tb.type # "NONE" => at = 0 /\ processed = 0 /\ buffer # <<>>

\* A call begins to read: what it reads is what was not processed, and more.
LEMMA CallTracked ==
  ASSUME Buffered, Buffered', text' = text, tb' = tb, state' \notin Over /\ CutsAreClean(Bytes) =>
           /\ IsTail(Bytes, fed', buffer', 0, tb.bytes)
           /\ pc' = "process" => StartLoop("process", buffer') /\ buffer' # <<>>,
         processed' = 0
  PROVE  Tracked'
<1>1. Bytes' = Bytes
  BY DEF Bytes
<1> SUFFICES ASSUME CutsAreClean(Bytes), state' \notin Over
             PROVE  /\ IsTail(Bytes, fed', buffer', processed', tb'.bytes)
                    /\ pc' = "process" /\ tb'.type # "NONE" => at' = 0 /\ processed' = 0 /\ buffer' # <<>>
  BY <1>1 DEF Tracked
<1>2. IsTail(Bytes, fed', buffer', 0, tb.bytes)
  OBVIOUS
<1>3. ASSUME pc' = "process", tb'.type # "NONE" PROVE at' = 0 /\ buffer' # <<>>
  <2>1. StartLoop("process", buffer') /\ buffer' # <<>>
    BY <1>3
  <2>2. tb.bytes \in Seq(STRING) /\ tb.bytes # <<>>
    BY <1>3 DEF Buffered, HasInput, IsBuffer, Buffers
  <2>3. PICK bs \in Seq(STRING) : bs = Bytes
    BY BytesAre DEF Buffered, HasInput
  <2>4. PICK bf \in Seq(STRING) : bf = buffer'
    BY DEF Buffered, HasInput
  <2>5. PICK f \in Nat : f = fed' /\ f <= Len(bs)
    <3>1. fed' \in 0..Len(bs)
      BY <1>1, <2>3 DEF Buffered, HasInput
    <3>2. Len(bs) \in Nat
      BY <2>3, LenProperties
    <3> QED BY <3>1, <3>2
  <2>6. IsTail(bs, f, bf, 0, tb.bytes) /\ CutsAreClean(bs)
    BY <1>2, <2>3, <2>4, <2>5
  <2>7. StartOf(bf, AllowBom) = 0
    BY <2>2, <2>3, <2>4, <2>5, <2>6, NoMarkSkipped
  <2> QED BY <2>1, <2>4, <2>7 DEF StartLoop
<1> QED BY <1>2, <1>3

LEMMA UnprocessedTail ==
  ASSUME Buffered, Tracked, state \notin Over, pc \in {"idle", "process"}, CutsAreClean(Bytes)
  PROVE  IsTail(Bytes, fed, Unprocessed, 0, tb.bytes)
<1>1. IsTail(Bytes, fed, buffer, processed, tb.bytes)
  BY DEF Tracked
<1>2. processed \in Nat
  BY LenProperties DEF Buffered, HasInput
<1>3. PICK l \in Nat : Len(buffer) = processed + l /\ Copies(Unprocessed, buffer, processed, l)
  BY UnprocessedIs
<1> QED BY <1>1, <1>2, <1>3, TailDropped

LEMMA FeedTracked ==
  ASSUME Buffered, Tracked, NEW n \in 1..(Len(Bytes) - fed), Feed(n)
  PROVE  Tracked'
<1>1. PICK new \in Seq(STRING) : new = SubSeq(Bytes, fed + 1, fed + n) /\ Copies(new, Bytes, fed, n)
  BY NextBytes
<1>2. PICK old \in Seq(STRING) : old = Unprocessed
  BY UnprocessedIs
<1>3. /\ buffer' = old \o new /\ processed' = 0 /\ tb' = tb /\ text' = text /\ fed' = fed + n
      /\ pc = "idle" /\ state \notin Over
  BY <1>1, <1>2 DEF Feed
<1>4. n \in Nat /\ n >= 1
  <2>1. fed \in Nat /\ Len(Bytes) \in Nat
    BY BytesAre, LenProperties DEF Buffered, HasInput
  <2> QED BY <2>1
<1>5. buffer' # <<>>
  <2>1. Len(new) = n
    BY <1>1 DEF Copies
  <2>2. new # <<>>
    BY <1>4, <2>1, EmptySeq
  <2> QED BY <1>1, <1>2, <1>3, <2>2, ConcatEqualIffEmpty
<1>6. ASSUME CutsAreClean(Bytes) PROVE IsTail(Bytes, fed', buffer', 0, tb.bytes)
  <2>1. IsTail(Bytes, fed, old, 0, tb.bytes)
    BY <1>2, <1>3, <1>6, UnprocessedTail
  <2> QED BY <1>1, <1>2, <1>3, <1>4, <2>1, TailGrown
<1>7. ASSUME state' \notin Over PROVE StartLoop("process", buffer')
  <2>1. CASE fed + n > MaxTotal
    BY <1>7, <2>1 DEF Feed, SetError, Over
  <2>2. CASE ~(fed + n > MaxTotal)
    BY <1>1, <1>2, <1>3, <2>2 DEF Feed
  <2> QED BY <2>1, <2>2
<1>8. Buffered'
  BY FeedBuffered
<1> QED BY <1>3, <1>5, <1>6, <1>7, <1>8, CallTracked

LEMMA FinishTracked ==
  ASSUME Buffered, Tracked, Finish
  PROVE  Tracked'
<1>1. text' = text /\ fed' = fed /\ tb' = tb /\ pc = "idle"
  BY DEF Finish
<1>2. CASE state = "ERROR"
  <2>1. state' \in Over
    BY <1>2 DEF Finish, Over
  <2> QED BY <2>1 DEF Tracked
<1>3. CASE state # "ERROR"
  <2>1. PICK old \in Seq(STRING) : old = Unprocessed
    BY UnprocessedIs
  <2>2. buffer' = old /\ processed' = 0
    BY <1>3, <2>1 DEF Finish
  <2>3. state' \in Over \/ state \notin Over
    <3>1. state' = state \/ state' = Resumed
      BY <1>3 DEF Finish
    <3>2. CASE state = "DONE"
      BY <3>1, <3>2 DEF Resumed, Over
    <3> QED BY <1>3, <3>2 DEF Over
  <2>4. ASSUME CutsAreClean(Bytes), state' \notin Over PROVE IsTail(Bytes, fed', buffer', 0, tb.bytes)
    BY <1>1, <2>1, <2>2, <2>3, <2>4, UnprocessedTail
  <2>5. ASSUME pc' = "process" PROVE StartLoop("process", buffer') /\ buffer' # <<>>
    <3>1. CASE old # <<>>
      BY <1>3, <2>1, <2>2, <3>1 DEF Finish
    <3>2. CASE old = <<>>
      BY <1>3, <2>1, <2>5, <3>2 DEF Finish, StartLoop
    <3> QED BY <3>1, <3>2
  <2>6. Buffered'
    BY FinishBuffered
  <2> QED BY <1>1, <2>2, <2>4, <2>5, <2>6, CallTracked
<1> QED BY <1>2, <1>3

\* json_stream_process_tokens keeps what the token buffer holds and what is not
\* processed the last bytes fed.
LEMMA ProcessTracked ==
  ASSUME Buffered, Tracked, Process
  PROVE  Tracked'
<1>1. PICK t : t = Lexed(TRUE)
  OBVIOUS
<1>2. UNCHANGED <<text, fed, buffer, call>> /\ pc = "process" /\ Bytes' = Bytes
  BY DEF Process, Bytes
<1> SUFFICES ASSUME CutsAreClean(Bytes), state' \notin Over, pc' \in {"idle", "process"}
             PROVE  /\ IsTail(Bytes, fed, buffer, processed', tb'.bytes)
                    /\ pc' = "process" /\ tb'.type # "NONE" => at' = 0 /\ processed' = 0 /\ buffer' # <<>>
  BY <1>2 DEF Tracked
<1>3. state \notin Over
  <2>1. ASSUME state \in Over PROVE FALSE
    <3>1. CASE NoTokenYet(t)
      BY <2>1, <3>1 DEF NoTokenYet, Over
    <3>2. CASE UNCHANGED parser
      BY <2>1, <3>2 DEF parser
    <3>3. (NoTokenYet(t) \/ UNCHANGED parser)
      BY <1>1, <2>1 DEF Process
    <3> QED BY <3>1, <3>2, <3>3
  <2> QED BY <2>1
<1>4. /\ IsTail(Bytes, fed, buffer, processed, tb.bytes)
      /\ tb.type # "NONE" => at = 0 /\ processed = 0 /\ buffer # <<>>
  BY <1>2, <1>3 DEF Tracked
<1>5. PICK bf \in Seq(STRING) : bf = buffer /\ bf = SubSeq(buffer, 1, window) /\ Len(bf) = window
  BY <1>2, WindowIs
<1>6. /\ IsBuffer(tb) /\ IsBuffer(t.tb) /\ tb.bytes \in Seq(STRING) /\ t.tb.bytes \in Seq(STRING)
      /\ tb.type = "NONE" => tb.bytes = <<>>
      /\ t.tb.type = "NONE" => t.tb.bytes = <<>>
  <2>1. IsBuffer(tb) /\ IsBuffer(t.tb)
    BY <1>1, LexedReads DEF Buffered, HasInput
  <2> QED BY <2>1, NoTokenIsBuffer DEF IsBuffer, Buffers
<1>7. /\ Reads(t, bf, at, tb)
      /\ CleanMinus(bf) => Keeps(t, bf, at, tb)
      /\ t.at \in at..window
  BY <1>1, <1>5, LexedReads
<1>8. PICK p \in Nat : p = at
  <2>1. window \in Nat
    BY <1>5, LenProperties
  <2> QED BY <2>1 DEF Buffered, HasWindow
<1>9. PICK a \in Nat : a = t.at /\ p <= a /\ a <= Len(bf)
  <2>1. window \in Nat
    BY <1>5, LenProperties
  <2> QED BY <1>5, <1>7, <1>8, <2>1
<1>10. IsTail(Bytes, fed, buffer, a, <<>>)
  BY <1>4, TailAt
<1>11. CASE NoTokenYet(t)
  <2>1. tb' = t.tb /\ AfterLoop("process") /\ (t.status = "INCOMPLETE" \/ t.at >= window)
    BY <1>11 DEF NoTokenYet, Over
  <2>2. processed' = IF t.tb.type # "NONE" /\ t.status = "INCOMPLETE" THEN t.at ELSE processed
    BY <1>11 DEF NoTokenYet, ProcessedUpTo
  <2>3. pc' # "process"
    <3>1. processed' \in 0..Len(buffer) /\ buffer \in Seq(STRING)
      <4>1. processed \in 0..Len(buffer) /\ buffer \in Seq(STRING)
        BY DEF Buffered, HasInput
      <4> QED BY <1>1, <2>2, <4>1, LexedReads
    <3> QED BY <1>2, <2>1, <3>1, AfterLoopIs
  <2>4. CASE t.tb.type # "NONE"
    <3>1. CleanMinus(bf)
      <4>1. PICK bs \in Seq(STRING) : bs = Bytes
        BY BytesAre DEF Buffered, HasInput
      <4>2. PICK f \in Nat : f = fed /\ f <= Len(bs)
        <5>1. fed \in 0..Len(bs) /\ Len(bs) \in Nat
          BY <4>1, LenProperties DEF Buffered, HasInput
        <5> QED BY <5>1
      <4>3. IsTail(bs, f, bf, processed, tb.bytes) /\ CutsAreClean(bs)
        BY <1>4, <1>5, <4>1, <4>2
      <4> QED BY <4>1, <4>2, <4>3, TailIsClean
    <3>2. PICK q \in p..a : /\ tb.type # "NONE" => q = p
                            /\ Holds(t.tb.bytes, tb.bytes, bf, q, a)
      BY <1>7, <1>8, <1>9, <2>4, <3>1 DEF Keeps
    <3>3. q \in Nat /\ q <= a
      BY <1>8, <1>9, <3>2
    <3>4. IsTail(Bytes, fed, bf, q, tb.bytes)
      <4>1. CASE tb.type = "NONE"
        BY <1>4, <1>5, <1>6, <3>3, <4>1, TailAt
      <4>2. CASE tb.type # "NONE"
        BY <1>4, <1>5, <1>8, <3>2, <4>2
      <4> QED BY <4>1, <4>2
    <3>5. IsTail(Bytes, fed, bf, a, t.tb.bytes)
      BY <1>6, <1>9, <3>2, <3>3, <3>4, TailKept
    <3>6. processed' = a
      BY <1>7, <1>9, <2>2, <2>4 DEF Reads
    <3> QED BY <1>5, <2>1, <2>3, <3>5, <3>6
  <2>5. CASE t.tb.type = "NONE"
    <3>1. processed' = processed /\ tb'.bytes = <<>>
      BY <1>6, <2>1, <2>2, <2>5
    <3>2. processed \in Nat
      BY LenProperties DEF Buffered, HasInput
    <3>3. IsTail(Bytes, fed, buffer, processed, <<>>)
      BY <1>4, <3>2, TailAt
    <3> QED BY <2>3, <3>1, <3>3
  <2> QED BY <2>4, <2>5
<1>12. CASE t.status = "OK"
  <2>1. tb' = NoToken /\ processed' = a
    <3>1. t.tb = NoToken
      BY <1>7, <1>12 DEF Reads
    <3>2. tb' = t.tb /\ processed' = t.at
      BY <1>1, <1>12 DEF Process, Handled
    <3> QED BY <1>9, <3>1, <3>2
  <2> QED BY <1>10, <2>1, NoTokenIsBuffer
<1>13. NoTokenYet(t) \/ t.status = "OK"
  BY <1>1 DEF Process
<1> QED BY <1>11, <1>12, <1>13

LEMMA NextTracked ==
  ASSUME Buffered, Tracked, [Next]_vars
  PROVE  Tracked'
<1>1. ASSUME NEW n \in 1..(Len(Bytes) - fed), Feed(n) PROVE Tracked'
  BY <1>1, FeedTracked
<1>2. ASSUME state' \in Over PROVE Tracked'
  BY <1>2 DEF Tracked
<1>3. ASSUME NEW n, FeedStarves(n) \/ FeedLate(n) PROVE Tracked'
  BY <1>2, <1>3 DEF FeedStarves, FeedLate, parser, Over
<1>4. CASE Finish
  BY <1>4, FinishTracked
<1>5. CASE Process
  BY <1>5, ProcessTracked
<1>6. CASE Complete \/ Rest
  <2>1. pc' # "process" /\ (pc' = "idle" => state' \in Over)
    BY <1>6, ForcedBuffered DEF Complete, Rest
  <2> QED BY <2>1 DEF Tracked
<1>7. CASE TokenStarves \/ Final
  BY <1>2, <1>7, StarvesBuffered, FinalBuffered
<1>8. CASE UNCHANGED vars
  BY <1>8 DEF vars, parser, input, Tracked, Bytes
<1> QED BY <1>1, <1>3, <1>4, <1>5, <1>6, <1>7, <1>8 DEF Next, Loop

LEMMA InitTracked == Init => Tracked
<1> SUFFICES ASSUME Init PROVE Tracked
  OBVIOUS
<1>1. fed = 0 /\ buffer = <<>> /\ processed = 0 /\ tb = NoToken /\ pc = "idle"
  BY DEF Init
<1>2. Copies(<<>>, Bytes, 0, 0)
  BY NothingCopied
<1>3. 0 \in Nat /\ 0 = 0 + 0
  OBVIOUS
<1>4. IsTail(Bytes, 0, <<>>, 0, <<>>)
  BY <1>2, <1>3, Zenon DEF IsTail
<1> QED BY <1>1, <1>4, NoTokenIsBuffer DEF Tracked

LEMMA TrackedIsFed ==
  ASSUME Buffered, Tracked
  PROVE  HeldBytesAreFed
<1> SUFFICES ASSUME pc = "idle", state \notin Over, CutsAreClean(Bytes)
             PROVE  LET held == tb.bytes \o Unprocessed
                    IN  Len(held) <= fed /\ held = SubSeq(Bytes, fed - Len(held) + 1, fed)
  BY DEF HeldBytesAreFed
<1>1. PICK bs \in Seq(STRING) : bs = Bytes
  BY BytesAre DEF Buffered, HasInput
<1>2. PICK f \in Nat : f = fed /\ f <= Len(bs)
  <2>1. fed \in 0..Len(bs) /\ Len(bs) \in Nat
    BY <1>1, LenProperties DEF Buffered, HasInput
  <2> QED BY <2>1
<1>3. PICK tk \in Seq(STRING) : tk = tb.bytes
  BY DEF Buffered, HasInput, IsBuffer, Buffers
<1>4. PICK r \in Seq(STRING) : r = Unprocessed
  BY UnprocessedIs
<1>5. IsTail(bs, f, r, 0, tk)
  BY <1>1, <1>2, <1>3, <1>4, UnprocessedTail
<1>6. PICK base \in Nat : \E l \in Nat : \E s \in Nat : \E m \in Nat :
        /\ f = base + l /\ Copies(r, bs, base, l)
        /\ s + m = base + 0 /\ Copies(tk, bs, s, m)
  BY <1>5 DEF IsTail
<1>7. PICK l \in Nat : \E s \in Nat : \E m \in Nat :
        /\ f = base + l /\ Copies(r, bs, base, l)
        /\ s + m = base + 0 /\ Copies(tk, bs, s, m)
  BY <1>6
<1>8. PICK s \in Nat : \E m \in Nat :
        /\ f = base + l /\ Copies(r, bs, base, l)
        /\ s + m = base + 0 /\ Copies(tk, bs, s, m)
  BY <1>7
<1>9. PICK m \in Nat :
        /\ f = base + l /\ Copies(r, bs, base, l)
        /\ s + m = base + 0 /\ Copies(tk, bs, s, m)
  BY <1>8
<1>10. base \in Nat /\ l \in Nat /\ s \in Nat /\ m \in Nat /\ base = s + m
  BY <1>6, <1>7, <1>8, <1>9
<1>11. PICK k \in Nat : k = m + l
  BY <1>10
<1>12. PICK held \in Seq(STRING) : held = tk \o r /\ Copies(held, bs, s, k)
  <2>1. tk \o r \in Seq(STRING) /\ Copies(tk \o r, bs, s, k)
    BY <1>3, <1>4, <1>9, <1>10, <1>11, CopiesJoin
  <2> QED BY <2>1
<1>13. f = s + k /\ Len(held) = k /\ f - k = s
  BY <1>9, <1>10, <1>11, <1>12 DEF Copies
<1>14. held = Piece(bs, s, f)
  BY <1>2, <1>10, <1>11, <1>12, <1>13, CopyIs
<1>15. Piece(bs, s, f) = SubSeq(bs, s + 1, f)
  BY <1>2, PieceInside, Zenon
<1>16. Len(held) <= f
  BY <1>10, <1>11, <1>13
<1>17. held = SubSeq(bs, f - Len(held) + 1, f)
  BY <1>13, <1>14, <1>15
<1> QED BY <1>1, <1>2, <1>3, <1>4, <1>12, <1>16, <1>17

\* Between calls the token buffer and the input that is not processed are
\* together the last bytes fed, whatever the chunks: json_token_buffer and
\* input_buffer_processed neither lose a byte nor keep one twice.  Not claimed of a
\* text with one of the two shapes that CutsAreClean excludes: behind its first byte
\* a byte order mark, where such are allowed, or a minus without a digit behind it,
\* where -Infinity is allowed.
THEOREM HeldBytesAreKept == Spec => []HeldBytesAreFed
<1>1. Init => Buffered /\ Tracked
  BY InitBuffered, InitTracked
<1>2. (Buffered /\ Tracked) /\ [Next]_vars => (Buffered /\ Tracked)'
  BY NextBuffered, NextTracked
<1>3. Buffered /\ Tracked => HeldBytesAreFed
  BY TrackedIsFed
<1> QED BY <1>1, <1>2, <1>3, PTL DEF Spec


-----------------------------------------------------------------------------
(* How many containers began and ended.                                    *)

BeginTypes == {Protocol!Begins[k] : k \in Kinds}
EndTypes   == {Protocol!Ends[k] : k \in Kinds}
OtherTypes == Protocol!Scalars \union {"KEY"}
EventTypes == BeginTypes \union EndTypes \union OtherTypes

LEMMA TypesAre ==
  /\ BeginTypes = {"ARRAY_BEGIN", "OBJECT_BEGIN"} /\ EndTypes = {"ARRAY_END", "OBJECT_END"}
  /\ OtherTypes = {"NULL", "BOOL", "NUMBER", "STRING", "KEY"}
  /\ \A k \in Kinds : Protocol!Begins[k] \in BeginTypes /\ Protocol!Ends[k] \in EndTypes
<1>1. Protocol!Begins["ARRAY"] = "ARRAY_BEGIN" /\ Protocol!Begins["OBJECT"] = "OBJECT_BEGIN"
  BY DEF Protocol!Begins
<1>2. Protocol!Ends["ARRAY"] = "ARRAY_END" /\ Protocol!Ends["OBJECT"] = "OBJECT_END"
  BY DEF Protocol!Ends
<1>3. BeginTypes = {"ARRAY_BEGIN", "OBJECT_BEGIN"}
  BY <1>1 DEF BeginTypes, Kinds
<1>4. EndTypes = {"ARRAY_END", "OBJECT_END"}
  BY <1>2 DEF EndTypes, Kinds
<1>5. OtherTypes = {"NULL", "BOOL", "NUMBER", "STRING", "KEY"}
  BY DEF OtherTypes, Protocol!Scalars
<1>6. \A k \in Kinds : Protocol!Begins[k] \in BeginTypes /\ Protocol!Ends[k] \in EndTypes
  BY DEF BeginTypes, EndTypes
<1> QED BY <1>3, <1>4, <1>5, <1>6

\* How many of the events are among those (Protocol!Times, of any sequence).
Many(types, among) == Cardinality({k \in 1..Len(types) : types[k] \in among})

LEMMA NoneAreMany == ASSUME NEW among PROVE Many(<<>>, among) = 0
<1>1. {k \in 1..Len(<<>>) : <<>>[k] \in among} = {}
  OBVIOUS
<1> QED BY <1>1, FS_EmptySet DEF Many

LEMMA OneMore ==
  ASSUME NEW T, NEW types \in Seq(T), NEW x \in T, NEW among
  PROVE  /\ Many(types, among) \in Nat
         /\ Many(Append(types, x), among) = Many(types, among) + (IF x \in among THEN 1 ELSE 0)
<1>1. PICK n \in Nat : n = Len(types)
  BY LenProperties
<1>2. PICK new : new = Append(types, x)
  OBVIOUS
<1>3. Len(new) = n + 1 /\ new[n + 1] = x /\ \A k \in 1..n : new[k] = types[k]
  BY <1>1, <1>2, AppendProperties
<1> DEFINE old  == {k \in 1..n : types[k] \in among}
           more == {k \in 1..(n + 1) : new[k] \in among}
<1>4. IsFiniteSet(old)
  <2>1. IsFiniteSet(1..n)
    BY <1>1, FS_Interval
  <2>2. old \subseteq 1..n
    OBVIOUS
  <2> QED BY <2>1, <2>2, FS_Subset
<1>5. Cardinality(old) \in Nat
  BY <1>4, FS_CardinalityType
<1>6. n + 1 \notin old
  BY <1>1
<1>7. Many(types, among) = Cardinality(old) /\ Many(new, among) = Cardinality(more)
  BY <1>1, <1>3 DEF Many
<1>8. CASE x \in among
  <2>1. more = old \union {n + 1}
    BY <1>1, <1>3, <1>8
  <2>2. Cardinality(more) = Cardinality(old) + 1
    BY <1>4, <1>6, <2>1, FS_AddElement
  <2> QED BY <1>2, <1>5, <1>7, <1>8, <2>2
<1>9. CASE x \notin among
  <2>1. more = old
    BY <1>1, <1>3, <1>9
  <2> HIDE DEF more, old
  <2>2. Many(new, among) = Many(types, among) + 0
    BY <1>5, <1>7, <2>1
  <2> QED BY <1>2, <1>5, <1>7, <1>9, <2>2
<1> QED BY <1>8, <1>9

\* As many containers ended as began, but for those that are open.
Balanced(types, sk) ==
    /\ types \in Seq(EventTypes)
    /\ Many(types, BeginTypes) = Many(types, EndTypes) + Len(sk)

LEMMA OtherBalanced ==
  ASSUME NEW types, NEW sk, Balanced(types, sk), NEW x \in OtherTypes
  PROVE  Balanced(Append(types, x), sk)
<1>1. x \notin BeginTypes /\ x \notin EndTypes /\ x \in EventTypes
  BY TypesAre DEF EventTypes
<1>2. types \in Seq(EventTypes) /\ Append(types, x) \in Seq(EventTypes)
  BY <1>1, AppendProperties DEF Balanced
<1>3. PICK b \in Nat : b = Many(types, BeginTypes) /\ Many(Append(types, x), BeginTypes) = b + 0
  BY <1>1, <1>2, OneMore
<1>4. PICK e \in Nat : e = Many(types, EndTypes) /\ Many(Append(types, x), EndTypes) = e + 0
  BY <1>1, <1>2, OneMore
<1> QED BY <1>2, <1>3, <1>4 DEF Balanced

LEMMA BeginBalanced ==
  ASSUME NEW types, NEW sk \in Seq(Kinds), Balanced(types, sk), NEW x \in BeginTypes, NEW kind \in Kinds
  PROVE  Balanced(Append(types, x), Append(sk, kind))
<1>1. x \notin EndTypes /\ x \in EventTypes
  BY TypesAre DEF EventTypes
<1>2. types \in Seq(EventTypes) /\ Append(types, x) \in Seq(EventTypes)
  BY <1>1, AppendProperties DEF Balanced
<1>3. PICK b \in Nat : b = Many(types, BeginTypes) /\ Many(Append(types, x), BeginTypes) = b + 1
  BY <1>1, <1>2, OneMore
<1>4. PICK e \in Nat : e = Many(types, EndTypes) /\ Many(Append(types, x), EndTypes) = e + 0
  BY <1>1, <1>2, OneMore
<1>5. PICK n \in Nat : n = Len(sk) /\ Len(Append(sk, kind)) = n + 1
  BY LenProperties, AppendProperties
<1>6. b = e + n
  BY <1>3, <1>4, <1>5 DEF Balanced
<1> QED BY <1>2, <1>3, <1>4, <1>5, <1>6 DEF Balanced

LEMMA EndBalanced ==
  ASSUME NEW types, NEW sk \in Seq(Kinds), sk # <<>>, Balanced(types, sk), NEW x \in EndTypes
  PROVE  Balanced(Append(types, x), Front(sk))
<1>1. x \notin BeginTypes /\ x \in EventTypes
  BY TypesAre DEF EventTypes
<1>2. types \in Seq(EventTypes) /\ Append(types, x) \in Seq(EventTypes)
  BY <1>1, AppendProperties DEF Balanced
<1>3. PICK b \in Nat : b = Many(types, BeginTypes) /\ Many(Append(types, x), BeginTypes) = b + 0
  BY <1>1, <1>2, OneMore
<1>4. PICK e \in Nat : e = Many(types, EndTypes) /\ Many(Append(types, x), EndTypes) = e + 1
  BY <1>1, <1>2, OneMore
<1>5. PICK n \in Nat : n = Len(sk) /\ Len(Front(sk)) = n - 1
  BY LenProperties, FrontProperties
<1>6. b = e + n
  BY <1>3, <1>4, <1>5 DEF Balanced
<1> QED BY <1>2, <1>3, <1>4, <1>5, <1>6 DEF Balanced


\* What a token that is taken makes of the events and the containers.
Moves ==
    \/ state # "INIT" /\ told' = told /\ stack' = stack
    \/ \E x \in OtherTypes : told' = Append(told, x) /\ stack' = stack
    \/ \E k \in Kinds : told' = Append(told, Protocol!Begins[k]) /\ stack' = Append(stack, k)
    \/ /\ stack # <<>> /\ stack' = Front(stack)
       /\ \E k \in Kinds : told' = Append(told, Protocol!Ends[k])
\* A token is taken, or the call fails.
Outcome ==
    \/ status' = "OK" /\ state' \notin {"INIT", "ERROR"} /\ Moves
    \/ status' # "OK" /\ state' = "ERROR" /\ (told' = told \/ \E x \in EventTypes : told' = Append(told, x))
    \/ status' # "OK" /\ state \in Over /\ UNCHANGED parser

LEMMA ErrorOutcome ==
  ASSUME NEW code, code # "OK", SetError(code)
  PROVE  Outcome
BY DEF SetError, history, Outcome

LEMMA ScalarOutcome ==
  ASSUME NEW t, t.type \in DOMAIN ScalarType, Scalar(t)
  PROVE  Outcome
<1>1. ScalarType[t.type] \in OtherTypes /\ ScalarType[t.type] \in EventTypes
  <2>1. ScalarType[t.type] \in Protocol!Scalars
    BY DEF ScalarType, Protocol!Scalars
  <2> QED BY <2>1 DEF OtherTypes, EventTypes
<1>2. /\ told' = Append(told, ScalarType[t.type]) /\ stack' = stack
      /\ \/ state' \in {"DONE", "VALUE"} /\ status' = "OK"
         \/ state' = "ERROR" /\ status' \in {"ABORT", "LIMIT"}
  BY DEF Scalar, Tell, RefusedEvent, Says
<1> QED BY <1>1, <1>2 DEF Outcome, Moves

LEMMA ContainerOutcome ==
  ASSUME NEW kind \in Kinds, NEW next \in {"EXPECT_VALUE", "OBJECT_KEY"}, NEW t,
         BeginContainer(kind, Protocol!Begins[kind], next, t)
  PROVE  Outcome
<1>1. CASE MayPush
  <2>1. /\ told' = Append(told, Protocol!Begins[kind]) /\ stack' = Append(stack, kind)
        /\ (state' = next /\ status' = "OK") \/ (state' = "ERROR" /\ status' = "ABORT")
    BY <1>1 DEF BeginContainer, Begun, Says
  <2>2. Protocol!Begins[kind] \in EventTypes
    BY TypesAre DEF EventTypes
  <2> QED BY <2>1, <2>2 DEF Outcome, Moves
<1>2. CASE ~MayPush
  BY <1>2, ErrorOutcome DEF BeginContainer
<1> QED BY <1>1, <1>2

LEMMA ValueOutcome ==
  ASSUME NEW t, HandleValue(t)
  PROVE  Outcome
<1>1. CASE t.type \in DOMAIN ScalarType
  <2>1. Scalar(t)
    BY <1>1 DEF HandleValue, ScalarType
  <2> QED BY <1>1, <2>1, ScalarOutcome
<1>2. CASE t.type = "LBRACKET"
  <2>1. BeginContainer("ARRAY", "ARRAY_BEGIN", "EXPECT_VALUE", t)
    BY <1>2 DEF HandleValue, ScalarType
  <2>2. PICK kind \in Kinds : kind = "ARRAY"
    BY DEF Kinds
  <2> QED BY <2>1, <2>2, ContainerOutcome DEF Protocol!Begins
<1>3. CASE t.type = "LBRACE"
  <2>1. BeginContainer("OBJECT", "OBJECT_BEGIN", "OBJECT_KEY", t)
    BY <1>3 DEF HandleValue, ScalarType
  <2>2. PICK kind \in Kinds : kind = "OBJECT"
    BY DEF Kinds
  <2> QED BY <2>1, <2>2, ContainerOutcome DEF Protocol!Begins
<1>4. CASE t.type \notin DOMAIN ScalarType /\ t.type \notin {"LBRACKET", "LBRACE"}
  BY <1>4, ErrorOutcome DEF HandleValue
<1> QED BY <1>1, <1>2, <1>3, <1>4

LEMMA EndOutcome ==
  ASSUME NEW t, HandleEnd(t)
  PROVE  Outcome
<1>1. ASSUME NEW k \in Kinds, EndContainer(Protocol!Ends[k], t), stack # <<>> PROVE Outcome
  <2>1. told' = Append(told, Protocol!Ends[k])
    BY <1>1 DEF EndContainer, Tell, RefusedEvent, Says
  <2>2. \/ state' \in {"DONE", "VALUE"} /\ stack' = Front(stack) /\ status' = "OK"
        \/ state' = "ERROR" /\ status' = "ABORT"
    BY <1>1 DEF EndContainer, Tell, RefusedEvent, AfterEnd
  <2>3. Protocol!Ends[k] \in EventTypes
    BY TypesAre DEF EventTypes
  <2> QED BY <1>1, <2>1, <2>2, <2>3 DEF Outcome, Moves
<1>2. CASE t.type = "RBRACKET" /\ InArray
  <2>1. EndContainer("ARRAY_END", t) /\ stack # <<>>
    BY <1>2 DEF HandleEnd, InArray
  <2>2. PICK k \in Kinds : k = "ARRAY"
    BY DEF Kinds
  <2> QED BY <1>1, <2>1, <2>2 DEF Protocol!Ends
<1>3. CASE t.type = "RBRACE" /\ InObject
  <2>1. EndContainer("OBJECT_END", t) /\ stack # <<>>
    BY <1>3 DEF HandleEnd, InObject
  <2>2. PICK k \in Kinds : k = "OBJECT"
    BY DEF Kinds
  <2> QED BY <1>1, <2>1, <2>2 DEF Protocol!Ends
<1>4. CASE ~(t.type = "RBRACKET" /\ InArray) /\ ~(t.type = "RBRACE" /\ InObject)
  BY <1>4, ErrorOutcome DEF HandleEnd
<1> QED BY <1>2, <1>3, <1>4

LEMMA TokenOutcome ==
  ASSUME NEW t, HandleToken(t)
  PROVE  Outcome
<1>1. ASSUME state # "INIT", NEW next \in States \ {"INIT", "ERROR"}, Pass(next) PROVE Outcome
  BY <1>1 DEF Pass, history, Outcome, Moves
<1>2. CASE state = "VALUE" /\ AfterValue(t)
  <2>1. \/ Pass(AfterComma)
        \/ HandleEnd(t)
        \/ SetError("BAD_TOKEN")
    BY <1>2 DEF AfterValue
  <2>2. AfterComma \in States \ {"INIT", "ERROR"}
    BY DEF AfterComma, States
  <2> QED BY <1>1, <1>2, <2>1, <2>2, EndOutcome, ErrorOutcome
<1>3. CASE state = "EXPECT_VALUE" /\ ExpectedValue(t)
  BY <1>3, EndOutcome, ValueOutcome DEF ExpectedValue
<1>4. CASE state = "OBJECT_KEY" /\ ObjectKey(t)
  <2>1. CASE SetError("BAD_TOKEN")
    BY <2>1, ErrorOutcome
  <2>2. CASE Tell("KEY", t.lexeme, "OBJECT_VALUE", stack, elems)
    <3>1. /\ told' = Append(told, "KEY") /\ stack' = stack
          /\ \/ state' = "OBJECT_VALUE" /\ status' = "OK"
             \/ state' = "ERROR" /\ status' = "ABORT"
      BY <2>2 DEF Tell, RefusedEvent, Says
    <3>2. "KEY" \in OtherTypes /\ "KEY" \in EventTypes
      BY DEF OtherTypes, EventTypes
    <3> QED BY <3>1, <3>2 DEF Outcome, Moves
  <2> QED BY <1>4, <2>1, <2>2 DEF ObjectKey
<1>5. CASE state = "OBJECT_VALUE" /\ ObjectValue(t)
  <2>1. "EXPECT_VALUE" \in States \ {"INIT", "ERROR"}
    BY DEF States
  <2> QED BY <1>1, <1>5, <2>1, ErrorOutcome DEF ObjectValue
<1>6. CASE state \in Over /\ status' = "STATE" /\ UNCHANGED parser
  BY <1>6 DEF Outcome
<1> QED BY <1>2, <1>3, <1>4, <1>5, <1>6, ValueOutcome DEF HandleToken

\* As long as something is told, the events and the open containers balance.
Counted == told \in Seq(EventTypes) /\ (state # "ERROR" \/ pc # "idle" => Balanced(told, stack))

LEMMA QuietCounted ==
  ASSUME Counted, told' = told, stack' = stack,
         state # "ERROR" \/ pc # "idle" \/ (state' = "ERROR" /\ pc' = "idle")
  PROVE  Counted'
BY DEF Counted, Balanced

LEMMA HandledCounted ==
  ASSUME Seats, Counted, pc # "idle", NEW t, NEW loop, Handled(t, loop)
  PROVE  Counted'
<1>1. Outcome
  BY TokenOutcome DEF Handled
<1>2. Balanced(told, stack) /\ told \in Seq(EventTypes) /\ stack \in Seq(Kinds)
  BY DEF Counted, Seats
<1>3. CASE Moves
  <2>1. CASE told' = told /\ stack' = stack
    BY <2>1, QuietCounted
  <2>2. ASSUME Balanced(told', stack') PROVE Counted'
    BY <2>2 DEF Counted, Balanced
  <2>3. CASE \E x \in OtherTypes : told' = Append(told, x) /\ stack' = stack
    BY <1>2, <2>2, <2>3, OtherBalanced
  <2>4. CASE \E k \in Kinds : told' = Append(told, Protocol!Begins[k]) /\ stack' = Append(stack, k)
    <3>1. PICK k \in Kinds : told' = Append(told, Protocol!Begins[k]) /\ stack' = Append(stack, k)
      BY <2>4
    <3>2. PICK x \in BeginTypes : x = Protocol!Begins[k]
      BY TypesAre
    <3>3. Balanced(Append(told, x), Append(stack, k))
      BY <1>2, BeginBalanced
    <3> QED BY <2>2, <3>1, <3>2, <3>3
  <2>5. CASE /\ stack # <<>> /\ stack' = Front(stack)
             /\ \E k \in Kinds : told' = Append(told, Protocol!Ends[k])
    <3>1. PICK k \in Kinds : told' = Append(told, Protocol!Ends[k])
      BY <2>5
    <3>2. PICK x \in EndTypes : x = Protocol!Ends[k]
      BY TypesAre
    <3>3. Balanced(Append(told, x), Front(stack))
      BY <1>2, <2>5, EndBalanced
    <3> QED BY <2>2, <2>5, <3>1, <3>2, <3>3
  <2> QED BY <1>3, <2>1, <2>3, <2>4, <2>5 DEF Moves
<1>4. CASE status' # "OK" /\ state' = "ERROR" /\ (told' = told \/ \E x \in EventTypes : told' = Append(told, x))
  <2>1. pc' = "idle"
    BY <1>4 DEF Handled, Return
  <2>2. told' \in Seq(EventTypes)
    BY <1>2, <1>4, AppendProperties
  <2> QED BY <1>4, <2>1, <2>2 DEF Counted
<1>5. CASE UNCHANGED parser
  BY <1>5, QuietCounted DEF parser
<1> QED BY <1>1, <1>3, <1>4, <1>5 DEF Outcome

LEMMA NextCounted ==
  ASSUME Seats, Counted, [Next]_vars
  PROVE  Counted'
<1>1. ASSUME NEW n, Feed(n) \/ FeedStarves(n) \/ FeedLate(n) PROVE Counted'
  <2>1. told' = told /\ stack' = stack
    BY <1>1 DEF Feed, FeedStarves, FeedLate, parser, history, SetError
  <2>2. state # "ERROR" \/ (state' = "ERROR" /\ pc' = "idle")
    BY <1>1 DEF Feed, FeedStarves, FeedLate, parser, Over
  <2> QED BY <2>1, <2>2, QuietCounted
<1>2. CASE Finish
  <2>1. told' = told /\ stack' = stack
    BY <1>2 DEF Finish, history
  <2>2. state # "ERROR" \/ (state' = "ERROR" /\ pc' = "idle")
    BY <1>2 DEF Finish
  <2> QED BY <2>1, <2>2, QuietCounted
<1>3. CASE Process
  <2>1. PICK t : t = Lexed(TRUE)
    BY Zenon
  <2>2. pc # "idle"
    BY <1>3 DEF Process
  <2>3. \/ NoTokenYet(t) \/ UNCHANGED parser \/ Handled(t, "process")
    BY <1>3, <2>1 DEF Process
  <2>4. ASSUME NoTokenYet(t) \/ UNCHANGED parser PROVE told' = told /\ stack' = stack
    BY <2>4 DEF NoTokenYet, history, parser
  <2> QED BY <2>2, <2>3, <2>4, QuietCounted, HandledCounted
<1>4. ASSUME NEW loop \in {"complete", "rest"}, Forced(loop) PROVE Counted'
  <2>1. PICK t : t = Lexed(FALSE)
    BY Zenon
  <2>2. pc # "idle"
    BY <1>4 DEF Forced
  <2>3. \/ SetError(t.status) \/ UNCHANGED parser \/ Handled(t, loop)
    BY <1>4, <2>1 DEF Forced
  <2>4. ASSUME SetError(t.status) \/ UNCHANGED parser PROVE told' = told /\ stack' = stack
    BY <2>4 DEF SetError, history, parser
  <2> QED BY <2>2, <2>3, <2>4, QuietCounted, HandledCounted
<1>5. CASE TokenStarves \/ Final
  BY <1>5, QuietCounted DEF TokenStarves, Final, history
<1>6. CASE UNCHANGED vars
  BY <1>6 DEF vars, parser, Counted, Balanced
<1> QED BY <1>1, <1>2, <1>3, <1>4, <1>5, <1>6 DEF Next, Loop, Complete, Rest

LEMMA InitCounted == Init => Counted
<1> SUFFICES ASSUME told = <<>>, stack = <<>> PROVE Counted
  BY DEF Init
<1>1. told \in Seq(EventTypes)
  OBVIOUS
<1>2. Many(told, BeginTypes) = 0 /\ Many(told, EndTypes) = 0 /\ Len(stack) = 0
  BY NoneAreMany
<1> QED BY <1>1, <1>2 DEF Counted, Balanced


-----------------------------------------------------------------------------
(* What a stream that has told nothing yet has read.                       *)

\* What was fed so far holds no whole token, and reading it again changes nothing.
Stalled ==
    /\ processed = 0 /\ tb = NoToken
    /\ LET t == Lex(buffer, StartOf(buffer, AllowBom), NoToken, TRUE)
       IN  t.status # "OK" /\ t.tb = NoToken /\ (t.status = "INCOMPLETE" \/ t.at >= Len(buffer))
AtStart == at = StartOf(buffer, AllowBom)
NothingSaid ==
    \/ pc = "idle" /\ (Unprocessed = <<>> \/ Stalled)
    \/ pc = "process" /\ call = "feed" /\ processed = 0 /\ AtStart
    \/ pc = "process" /\ call = "finish" /\ Stalled /\ AtStart /\ buffer # <<>>
    \/ pc = "complete" /\ tb.type # "NONE"
    \/ pc = "rest" /\ Stalled /\ AtStart /\ window = Len(buffer)
    \/ pc = "final" /\ buffer = <<>>
Spoken == state \notin {"INIT", "ERROR"} \/ (state = "ERROR" /\ pc # "idle") => told # <<>>
Ended ==
    pc = "idle" /\ call = "finish" /\ status = "OK" =>
        told # <<>> /\ Many(told, BeginTypes) = Many(told, EndTypes)
Started == CutsAreClean(Bytes) => (state = "INIT" => NothingSaid) /\ Spoken /\ Ended

LEMMA NotEmptied ==
  ASSUME Counted, NEW x \in EventTypes
  PROVE  Append(told, x) # <<>>
<1>1. PICK n \in Nat : n = Len(told) /\ Len(Append(told, x)) = n + 1
  BY LenProperties, AppendProperties DEF Counted
<1>2. Len(Append(told, x)) # 0
  BY <1>1
<1>3. Append(told, x) \in Seq(EventTypes)
  BY AppendProperties DEF Counted
<1> QED BY <1>2, <1>3, EmptySeq

LEMMA HandledSpeaks ==
  ASSUME Counted, Spoken, pc # "idle", NEW t, NEW loop, Handled(t, loop)
  PROVE  state' # "INIT" /\ Spoken'
<1>1. Outcome
  BY TokenOutcome DEF Handled
<1>2. CASE status' = "OK" /\ state' \notin {"INIT", "ERROR"} /\ Moves
  <2>1. CASE state # "INIT" /\ told' = told
    BY <1>2, <2>1 DEF Spoken
  <2>2. CASE \E x \in EventTypes : told' = Append(told, x)
    BY <1>2, <2>2, NotEmptied DEF Spoken
  <2>3. (state # "INIT" /\ told' = told) \/ \E x \in EventTypes : told' = Append(told, x)
    BY <1>2, TypesAre DEF Moves, EventTypes
  <2> QED BY <1>2, <2>1, <2>2, <2>3
<1>3. CASE status' # "OK" /\ state' = "ERROR"
  <2>1. pc' = "idle"
    BY <1>3 DEF Handled, Return
  <2> QED BY <1>3, <2>1 DEF Spoken
<1>4. CASE state \in Over /\ UNCHANGED parser
  BY <1>4 DEF Spoken, parser, Over
<1> QED BY <1>1, <1>2, <1>3, <1>4 DEF Outcome

LEMMA FeedEnds ==
  ASSUME NEW done, AfterLoop(done), call = "feed"
  PROVE  pc' = "idle"
BY DEF AfterLoop

LEMMA AllProcessed ==
  ASSUME NEW b \in Seq(STRING), NEW p, p = Len(b)
  PROVE  SubSeq(b, p + 1, Len(b)) = <<>>
<1>1. PICK n \in Nat : n = Len(b)
  BY LenProperties
<1>2. PICK q \in Nat : q = n + 1
  BY <1>1
<1>3. \A i \in q..n : b[i] \in STRING
  BY <1>1, <1>2
<1>4. /\ SubSeq(b, q, n) \in Seq(STRING)
      /\ Len(SubSeq(b, q, n)) = IF q <= n THEN n - q + 1 ELSE 0
  BY <1>1, <1>2, <1>3, SubSeqProperties
<1>5. Len(SubSeq(b, q, n)) = 0
  BY <1>1, <1>2, <1>4
<1>6. SubSeq(b, q, n) = <<>>
  BY <1>4, <1>5, EmptySeq
<1> QED BY <1>1, <1>2, <1>6

\* A minus that may become -Infinity is the last byte, or the first of a number.
LEMMA MinusIsLast ==
  ASSUME NEW bs \in Seq(STRING), NEW f \in Nat, f <= Len(bs), CutsAreClean(bs), AllowNonfinite,
         NEW bf \in Seq(STRING), NEW a \in Nat, a < Len(bf), bf[a + 1] \notin Digits,
         NEW tk \in Seq(STRING), tk # <<>>, IsPrefix(tk, NegInfinity), IsTail(bs, f, bf, a, tk)
  PROVE  FALSE
<1>1. PICK base \in Nat : \E l \in Nat : \E s \in Nat : \E m \in Nat :
        /\ f = base + l /\ Copies(bf, bs, base, l)
        /\ s + m = base + a /\ Copies(tk, bs, s, m)
  BY DEF IsTail
<1>2. PICK l \in Nat : \E s \in Nat : \E m \in Nat :
        /\ f = base + l /\ Copies(bf, bs, base, l)
        /\ s + m = base + a /\ Copies(tk, bs, s, m)
  BY <1>1
<1>3. PICK s \in Nat : \E m \in Nat : s + m = base + a /\ Copies(tk, bs, s, m)
  BY <1>2
<1>4. PICK m \in Nat : s + m = base + a /\ Copies(tk, bs, s, m)
  BY <1>3
<1>5. Len(bf) = l /\ f = base + l /\ \A k \in 1..l : bf[k] = bs[base + k]
  BY <1>2 DEF Copies
<1>6. Len(tk) = m /\ m # 0 /\ \A k \in 1..m : tk[k] = bs[s + k]
  BY <1>4, EmptySeq DEF Copies
<1>7. PICK n \in Nat : n = Len(bs) /\ f <= n
  BY LenProperties
<1>8. \A k \in 1..m : tk[k] = NegInfinity[k]
  <2>1. NegInfinity \in Seq({"-"} \union Letters)
    BY NegInfinityIs
  <2>2. \A k \in 1..Len(tk) : tk[k] = NegInfinity[k]
    BY <2>1, PrefixIs
  <2> QED BY <1>6, <2>2
<1>9. NegInfinity[1] = "-" /\ NegInfinity[2] = "I" /\ "I" \notin Digits
  BY NegInfinityIs DEF Digits
<1>10. PICK i \in Nat : i = s + 1
  BY <1>3
<1>11. i \in 1..(n - 1) /\ i + 1 = s + 2
  BY <1>1, <1>2, <1>3, <1>4, <1>5, <1>6, <1>7, <1>10
<1>12. bs[i] = "-"
  <2>1. 1 \in 1..m
    BY <1>4, <1>6
  <2> QED BY <1>6, <1>8, <1>9, <1>10, <2>1
<1>13. bs[i + 1] \in Digits
  BY <1>7, <1>11, <1>12 DEF CutsAreClean
<1>14. CASE m = 1
  <2>1. a + 1 \in 1..l /\ base + (a + 1) = i + 1
    BY <1>1, <1>2, <1>3, <1>4, <1>5, <1>10, <1>14
  <2> QED BY <1>5, <1>13, <2>1
<1>15. CASE m # 1
  <2>1. 2 \in 1..m
    BY <1>4, <1>6, <1>15
  <2>2. tk[2] = bs[s + 2]
    BY <1>6, <2>1
  <2> QED BY <1>8, <1>9, <1>11, <1>13, <2>1, <2>2
<1> QED BY <1>14, <1>15


LEMMA WholeWindow ==
  ASSUME Buffered, window = Len(buffer), NEW streaming
  PROVE  Lexed(streaming) = Lex(buffer, at, tb, streaming)
<1>1. PICK b \in Seq(STRING) : b = buffer /\ window = Len(b)
  BY DEF Buffered, HasInput
<1>2. SubSeq(b, 1, Len(b)) = b
  BY SubSeqFull
<1> QED BY <1>1, <1>2 DEF Lexed

\* The process loop of finish reads again what was stalled.
LEMMA StalledTurn ==
  ASSUME Buffered, state = "INIT", pc = "process", call = "finish", Stalled, AtStart, buffer # <<>>, Process
  PROVE  state' = "INIT" /\ told' = told /\ NothingSaid' /\ pc' = "rest"
<1>1. PICK t : t = Lexed(TRUE)
  BY Zenon
<1>2. PICK b \in Seq(STRING) : b = buffer /\ b # <<>>
  BY DEF Buffered, HasInput
<1>3. PICK n \in Nat : n = Len(b) /\ n > 0
  BY <1>2, LenProperties, EmptySeq
<1>4. window = n
  BY <1>2, <1>3 DEF Buffered, HasWindow
<1>5. t = Lex(buffer, StartOf(buffer, AllowBom), NoToken, TRUE)
  BY <1>1, <1>2, <1>3, <1>4, WholeWindow DEF Stalled, AtStart
<1>6. t.status # "OK" /\ t.tb = NoToken /\ (t.status = "INCOMPLETE" \/ t.at >= n)
  BY <1>2, <1>3, <1>5 DEF Stalled
<1>7. NoTokenYet(t) /\ UNCHANGED <<text, fed, buffer, call>>
  BY <1>1, <1>6 DEF Process
<1>8. processed' = 0 /\ tb' = NoToken
  BY <1>6, <1>7, NoTokenIsBuffer DEF NoTokenYet, ProcessedUpTo, Stalled
<1>9. state' = "INIT" /\ told' = told /\ AfterLoop("process")
  BY <1>4, <1>6, <1>7 DEF NoTokenYet, history
<1>10. StartLoop("rest", SubSeq(b, 1, n - 0))
  <2>1. n - 0 > 0 /\ NoToken.type = "NONE"
    BY <1>3, NoTokenIsBuffer
  <2> QED BY <1>2, <1>3, <1>8, <1>9, <2>1 DEF AfterLoop
<1>11. SubSeq(b, 1, n - 0) = b
  BY <1>3, SubSeqFull
<1>12. pc' = "rest" /\ at' = StartOf(b, AllowBom) /\ window' = n
  BY <1>3, <1>10, <1>11 DEF StartLoop
<1>13. buffer' = b
  BY <1>2, <1>7
<1>14. Stalled' /\ AtStart'
  BY <1>2, <1>8, <1>12, <1>13 DEF Stalled, AtStart
<1> QED BY <1>3, <1>9, <1>12, <1>13, <1>14 DEF NothingSaid

\* Input that holds no whole token leaves feed waiting for more.
LEMMA FirstTurn ==
  ASSUME Buffered, Tracked, Counted, Spoken, CutsAreClean(Bytes), state = "INIT",
         pc = "process", call = "feed", processed = 0, AtStart, Process
  PROVE  (state' = "INIT" => NothingSaid') /\ Spoken'
<1>1. PICK t : t = Lexed(TRUE)
  BY Zenon
<1>2. PICK b \in Seq(STRING) : b = buffer
  BY DEF Buffered, HasInput
<1>3. PICK n \in Nat : n = Len(b) /\ window = n
  BY <1>2, LenProperties DEF Buffered, HasWindow
<1>4. t = Lex(b, at, tb, TRUE) /\ UNCHANGED <<text, fed, buffer, call>> /\ IsBuffer(tb)
  BY <1>1, <1>2, <1>3, WholeWindow DEF Process, Buffered, HasInput
<1>5. CASE Handled(t, "process")
  BY <1>5, HandledSpeaks
<1>6. ASSUME AfterLoop("process"), state' \in {"INIT", "ERROR"} PROVE pc' = "idle" /\ Spoken'
  BY <1>6, FeedEnds DEF Spoken
<1>7. ASSUME pc' = "idle", processed' = n PROVE NothingSaid'
  <2>1. SubSeq(b, n + 1, Len(b)) = <<>>
    BY <1>3, AllProcessed
  <2>2. Unprocessed' = <<>>
    BY <1>2, <1>3, <1>4, <1>7, <2>1 DEF Unprocessed
  <2> QED BY <1>7, <2>2 DEF NothingSaid
<1>8. CASE t.type = "EOF" /\ processed' = t.at /\ UNCHANGED parser /\ AfterLoop("process")
  <2>1. t.at = n
    BY <1>3, <1>4, <1>8, LexEnds
  <2> QED BY <1>6, <1>7, <1>8, <2>1 DEF parser
<1>9. CASE t.status # "OK" /\ NoTokenYet(t)
  <2>1. /\ AfterLoop("process") /\ state' \in {"INIT", "ERROR"} /\ tb' = t.tb
        /\ state' = "INIT" => t.status = "INCOMPLETE" \/ t.at >= n
        /\ processed' = IF t.status = "INCOMPLETE" /\ t.tb.type # "NONE" THEN t.at ELSE 0
    BY <1>3, <1>9 DEF NoTokenYet, ProcessedUpTo
  <2>2. pc' = "idle" /\ Spoken'
    BY <1>6, <2>1
  <2>3. Reads(t, b, at, tb) /\ (CleanMinus(b) => Keeps(t, b, at, tb)) /\ IsBuffer(t.tb)
    <3>1. SubSeq(buffer, 1, window) = b
      BY <1>2, <1>3, SubSeqFull
    <3> QED BY <1>1, <3>1, LexedReads
  <2> SUFFICES ASSUME state' = "INIT" PROVE NothingSaid'
    BY <2>2
  <2>4. CASE t.tb.type # "NONE"
    <3>1. processed' = t.at /\ t.status = "INCOMPLETE"
      BY <2>1, <2>3, <2>4 DEF Reads
    <3>2. PICK bs \in Seq(STRING) : bs = Bytes /\ CutsAreClean(bs)
      BY BytesAre DEF Buffered, HasInput
    <3>3. PICK f \in Nat : f = fed /\ f <= Len(bs)
      <4>1. fed \in 0..Len(bs) /\ Len(bs) \in Nat
        BY <3>2, LenProperties DEF Buffered, HasInput
      <4> QED BY <4>1
    <3>4. IsTail(bs, f, b, t.at, t.tb.bytes)
      <4>1. Tracked'
        BY ProcessTracked
      <4>2. Bytes' = Bytes /\ state' \notin Over
        BY <1>4 DEF Bytes, Over
      <4> QED BY <1>2, <1>4, <2>1, <2>2, <3>1, <3>2, <3>3, <4>1, <4>2 DEF Tracked
    <3>5. Waits(t, b, tb)
      <4>1. CleanMinus(b)
        BY <3>2, <3>3, <3>4, TailIsClean
      <4> QED BY <2>3, <2>4, <4>1 DEF Keeps
    <3>6. CASE t.at = Len(b)
      BY <1>3, <1>7, <2>2, <3>1, <3>6
    <3>7. CASE /\ AllowNonfinite /\ t.at < Len(b)
               /\ IsPrefix(t.tb.bytes, NegInfinity) /\ b[t.at + 1] \notin Digits
      <4>1. t.tb.bytes \in Seq(STRING) /\ t.tb.bytes # <<>>
        BY <2>3, <2>4 DEF IsBuffer, Buffers
      <4>2. PICK a \in Nat : a = t.at
        <5>1. at \in 0..n
          BY <1>3 DEF Buffered, HasWindow
        <5> QED BY <1>3, <2>3, <5>1 DEF Reads
      <4> QED BY <3>2, <3>3, <3>4, <3>7, <4>1, <4>2, MinusIsLast
    <3> QED BY <3>5, <3>6, <3>7 DEF Waits
  <2>5. CASE t.tb.type = "NONE" /\ tb.type # "NONE"
    <3>1. t.at = at /\ t.status # "INCOMPLETE"
      BY <1>9, <2>3, <2>5 DEF Reads
    <3>2. at = 0 /\ b # <<>>
      BY <1>2, <2>5 DEF Tracked, Over
    <3>3. n # 0
      BY <1>3, <3>2, EmptySeq
    <3> QED BY <1>3, <2>1, <3>1, <3>2, <3>3
  <2>6. CASE t.tb.type = "NONE" /\ tb.type = "NONE"
    <3>1. tb = NoToken /\ t.tb = NoToken
      BY <1>4, <2>3, <2>6 DEF IsBuffer
    <3>2. processed' = 0 /\ tb' = NoToken /\ buffer' = b
      BY <1>2, <1>4, <2>1, <2>6, <3>1
    <3>3. t = Lex(b, StartOf(b, AllowBom), NoToken, TRUE) /\ t.status # "OK"
      BY <1>2, <1>4, <1>9, <3>1 DEF AtStart
    <3>4. t.status = "INCOMPLETE" \/ t.at >= Len(b)
      BY <1>3, <2>1
    <3>5. PICK u : u = Lex(b, StartOf(b, AllowBom), NoToken, TRUE)
      BY Zenon
    <3>6. u.status # "OK" /\ u.tb = NoToken /\ (u.status = "INCOMPLETE" \/ u.at >= Len(b))
      <4>1. u = t
        BY <3>3, <3>5, Zenon
      <4> QED BY <3>1, <3>3, <3>4, <4>1, Zenon
    <3>7. Stalled'
      BY <3>2, <3>5, <3>6 DEF Stalled
    <3> QED BY <2>2, <3>7 DEF NothingSaid
  <2> QED BY <2>4, <2>5, <2>6
<1>10. \/ t.status # "OK" /\ NoTokenYet(t)
       \/ t.type = "EOF" /\ processed' = t.at /\ UNCHANGED parser /\ AfterLoop("process")
       \/ Handled(t, "process")
  BY <1>1 DEF Process, Over
<1> QED BY <1>5, <1>8, <1>9, <1>10


\* The loops that force what is held to its end tell it, or fail.
LEMMA ForcedTells ==
  ASSUME Counted, Spoken, pc # "idle", NEW loop, Forced(loop),
         state = "INIT" => Lexed(FALSE).type # "EOF"
  PROVE  state' # "INIT" /\ Spoken'
<1>1. PICK t : t = Lexed(FALSE)
  BY Zenon
<1>2. CASE SetError(t.status) /\ Return
  BY <1>2 DEF SetError, Return, Spoken
<1>3. CASE t.type = "EOF" /\ UNCHANGED parser
  <2>1. state # "INIT"
    BY <1>1, <1>3
  <2> QED BY <1>3, <2>1 DEF parser, Spoken
<1>4. CASE Handled(t, loop)
  BY <1>4, HandledSpeaks
<1> QED BY <1>1, <1>2, <1>3, <1>4 DEF Forced

\* The lexers of finish and of feed.
LexForced(b, p, cut)    == Lex(b, p, cut, FALSE)
LexStreaming(b, p, cut) == Lex(b, p, cut, TRUE)

LEMMA ForcedLexEnds ==
  ASSUME NEW b, NEW p, NEW cut, IsBuffer(cut), NEW t, t = LexForced(b, p, cut)
  PROVE  /\ t.status = "OK" \/ t.type = "ERROR"
         /\ t.type = "EOF" => cut.type = "NONE" /\ LexStreaming(b, p, cut) = t
<1>1. PICK streaming \in BOOLEAN : streaming = FALSE
  OBVIOUS
<1>2. t = Lex(b, p, cut, streaming)
  BY <1>1 DEF LexForced
<1>3. PICK other \in BOOLEAN : other = TRUE
  OBVIOUS
<1>4. PICK u : u = Lex(b, p, cut, streaming)
  BY Zenon
<1>5. /\ u.status = "OK" \/ u.type = "ERROR"
      /\ u.type = "EOF" => cut.type = "NONE" /\ \A v : Lex(b, p, cut, v) = u
  BY <1>4, LexEnds
<1>6. u.type = "EOF" => Lex(b, p, cut, other) = u
  BY <1>5
<1>7. u = t
  BY <1>2, <1>4
<1>8. u.type = "EOF" => LexStreaming(b, p, cut) = u
  BY <1>3, <1>6 DEF LexStreaming
<1> QED BY <1>5, <1>7, <1>8

LEMMA StreamingLexEnds ==
  ASSUME NEW b, NEW p, NEW cut, IsBuffer(cut), NEW t, t = LexStreaming(b, p, cut)
  PROVE  t.status = "OK" \/ t.type = "ERROR"
<1>1. PICK streaming \in BOOLEAN : streaming = TRUE
  OBVIOUS
<1>2. t = Lex(b, p, cut, streaming)
  BY <1>1 DEF LexStreaming
<1>3. PICK u : u = Lex(b, p, cut, streaming)
  BY Zenon
<1>4. u.status = "OK" \/ u.type = "ERROR"
  BY <1>3, LexEnds
<1> QED BY <1>2, <1>3, <1>4

LEMMA HeldIsNoEnd ==
  ASSUME Buffered, pc = "complete", tb.type # "NONE"
  PROVE  Lexed(FALSE).type # "EOF"
<1>1. IsBuffer(tb)
  BY DEF Buffered, HasInput
<1>2. PICK t : t = LexForced(SubSeq(buffer, 1, window), at, tb)
  BY Zenon
<1>3. t.type = "EOF" => tb.type = "NONE"
  BY <1>1, <1>2, ForcedLexEnds
<1> QED BY <1>2, <1>3 DEF Lexed, LexForced

LEMMA StalledIsNoEnd ==
  ASSUME Buffered, pc = "rest", Stalled, AtStart, window = Len(buffer)
  PROVE  Lexed(FALSE).type # "EOF"
<1>1. PICK p : p = StartOf(buffer, AllowBom) /\ p = at
  BY DEF AtStart
<1>2. LexStreaming(buffer, p, NoToken).status # "OK"
  BY <1>1 DEF Stalled, LexStreaming
<1>3. PICK t : t = LexForced(buffer, p, NoToken)
  BY Zenon
<1>4. ASSUME t.type = "EOF" PROVE FALSE
  <2>1. t.status = "OK" \/ t.type = "ERROR"
    BY <1>3, NoTokenIsBuffer, ForcedLexEnds
  <2>2. LexStreaming(buffer, p, NoToken) = t
    BY <1>3, <1>4, NoTokenIsBuffer, ForcedLexEnds
  <2> QED BY <1>2, <1>4, <2>1, <2>2
<1>5. Lexed(FALSE) = t
  BY <1>1, <1>3, WholeWindow DEF Stalled, LexForced
<1> QED BY <1>4, <1>5

LEMMA StarvesSpeaks ==
  ASSUME Buffered, Spoken, state = "INIT" => NothingSaid, TokenStarves
  PROVE  state' = "ERROR" /\ Spoken'
<1>1. state' = "ERROR" /\ told' = told /\ call' = call /\ pc # "idle"
  BY DEF TokenStarves
<1>2. CASE pc # "process"
  BY <1>1, <1>2 DEF TokenStarves, Return, Spoken
<1>3. CASE pc = "process" /\ state # "INIT"
  BY <1>1, <1>3 DEF Spoken
<1>4. CASE pc = "process" /\ state = "INIT" /\ call = "feed"
  <2>1. pc' = "idle"
    BY <1>4, FeedEnds DEF TokenStarves
  <2> QED BY <1>1, <2>1 DEF Spoken
<1>5. CASE pc = "process" /\ state = "INIT" /\ call # "feed"
  <2>1. Stalled /\ AtStart
    BY <1>5 DEF NothingSaid
  <2>2. window = Len(buffer)
    BY <1>5 DEF Buffered, HasWindow
  <2>3. PICK t : t = Lexed(TRUE)
    BY Zenon
  <2>4. t = Lex(buffer, StartOf(buffer, AllowBom), NoToken, TRUE)
    BY <2>1, <2>2, <2>3, WholeWindow DEF Stalled, AtStart
  <2>5. t.status # "OK" /\ t.tb = NoToken /\ tb = NoToken
    BY <2>1, <2>4 DEF Stalled
  <2>6. t.type = "ERROR"
    <3>1. t = LexStreaming(buffer, StartOf(buffer, AllowBom), NoToken)
      BY <2>4 DEF LexStreaming
    <3> QED BY <2>5, <3>1, NoTokenIsBuffer, StreamingLexEnds
  <2> QED BY <1>5, <2>3, <2>5, <2>6, NoTokenIsBuffer DEF TokenStarves
<1> QED BY <1>2, <1>3, <1>4, <1>5

LEMMA FinalSpeaks ==
  ASSUME Counted, Spoken, state = "INIT" => NothingSaid, Final
  PROVE  state' # "INIT" /\ Spoken' /\ Ended'
<1>1. UNCHANGED <<told, stack, call>> /\ pc = "final" /\ pc' = "idle" /\ status' = FinalStatus
  BY DEF Final, history
<1>2. state' = IF status' = "OK" THEN "DONE" ELSE "ERROR"
  BY DEF Final
<1>3. CASE status' = "OK"
  <2>1. stack = <<>> /\ ~(state = "INIT" /\ buffer = <<>>)
    BY <1>1, <1>3 DEF FinalStatus
  <2>2. state # "INIT"
    BY <1>1, <2>1 DEF NothingSaid
  <2>3. told # <<>>
    BY <1>1, <2>2 DEF Spoken
  <2>4. Balanced(told, stack)
    BY <1>1 DEF Counted
  <2>5. Many(told, EndTypes) \in Nat
    <3>1. told \in Seq(EventTypes) /\ "KEY" \in EventTypes
      BY <2>4 DEF Balanced, EventTypes, OtherTypes
    <3> QED BY <3>1, OneMore
  <2>6. Len(stack) = 0
    BY <2>1
  <2>7. Many(told, BeginTypes) = Many(told, EndTypes)
    BY <2>4, <2>5, <2>6 DEF Balanced
  <2> QED BY <1>1, <1>2, <1>3, <2>3, <2>7 DEF Spoken, Ended
<1>4. CASE status' # "OK"
  BY <1>1, <1>2, <1>4 DEF Spoken, Ended
<1> QED BY <1>3, <1>4

LEMMA FeedSpeaks ==
  ASSUME Seats, Spoken, NEW n, Feed(n)
  PROVE  (state' = "INIT" => NothingSaid') /\ Spoken' /\ Ended'
<1>1. told' = told /\ call' = "feed" /\ processed' = 0 /\ state \notin Over
  BY DEF Feed, SetError, history
<1>2. Ended'
  BY <1>1 DEF Ended
<1>3. CASE SetError("LIMIT") /\ Return
  BY <1>2, <1>3 DEF SetError, Return, Spoken
<1>4. CASE state' = Resumed /\ StartLoop("process", buffer')
  <2>1. state' = "INIT" <=> state = "INIT"
    BY <1>4 DEF Resumed, Seats
  <2>2. state' # "ERROR"
    BY <1>1, <1>4 DEF Resumed, Over
  <2>3. Spoken'
    BY <1>1, <2>1, <2>2 DEF Spoken, Over
  <2>4. NothingSaid'
    BY <1>1, <1>4 DEF NothingSaid, StartLoop, AtStart
  <2> QED BY <1>2, <2>3, <2>4
<1> QED BY <1>3, <1>4 DEF Feed

LEMMA FinishSpeaks ==
  ASSUME Seats, Buffered, Spoken, pc = "idle", state = "INIT" => NothingSaid, Finish
  PROVE  (state' = "INIT" => NothingSaid') /\ Spoken' /\ Ended'
<1>1. told' = told /\ tb' = tb /\ call' = "finish"
  BY DEF Finish, history
<1>2. CASE state = "ERROR"
  BY <1>1, <1>2 DEF Finish, Spoken, Ended
<1>3. CASE state # "ERROR"
  <2>1. buffer' = Unprocessed /\ processed' = 0 /\ pc' # "idle"
    BY <1>3 DEF Finish, StartLoop
  <2>2. Ended'
    BY <2>1 DEF Ended
  <2>3. CASE Unprocessed # <<>>
    <3>1. state' = Resumed /\ StartLoop("process", buffer')
      BY <1>3, <2>1, <2>3 DEF Finish
    <3>2. (state' = "INIT" <=> state = "INIT") /\ state' # "ERROR"
      BY <1>3, <3>1 DEF Resumed, Seats
    <3>3. Spoken'
      BY <1>1, <1>3, <3>2 DEF Spoken
    <3>4. ASSUME state = "INIT" PROVE NothingSaid'
      <4>1. Stalled
        BY <2>3, <3>4 DEF NothingSaid
      <4>2. PICK b \in Seq(STRING) : b = buffer
        BY DEF Buffered, HasInput
      <4>3. Unprocessed = b
        <5>1. SubSeq(b, 1, Len(b)) = b
          BY SubSeqFull
        <5>2. processed + 1 = 1
          BY <4>1 DEF Stalled
        <5> QED BY <4>2, <5>1, <5>2 DEF Unprocessed
      <4>4. buffer' = buffer /\ tb' = tb /\ processed' = processed
        BY <1>1, <2>1, <4>1, <4>2, <4>3 DEF Stalled
      <4>5. Stalled'
        BY <4>1, <4>4 DEF Stalled
      <4>6. AtStart' /\ pc' = "process" /\ buffer' # <<>>
        BY <2>1, <2>3, <3>1 DEF StartLoop, AtStart
      <4> QED BY <1>1, <4>5, <4>6 DEF NothingSaid
    <3> QED BY <2>2, <3>2, <3>3, <3>4
  <2>4. CASE Unprocessed = <<>>
    <3>1. state' = state
      BY <1>3, <2>4 DEF Finish
    <3>2. Spoken'
      BY <1>1, <1>3, <3>1 DEF Spoken
    <3>3. NothingSaid'
      BY <1>1, <1>3, <2>1, <2>4 DEF Finish, StartLoop, NothingSaid
    <3> QED BY <2>2, <3>2, <3>3
  <2> QED BY <2>3, <2>4
<1> QED BY <1>2, <1>3

\* Between calls that say OK, the last call was feed.
LEMMA TurnEnds ==
  ASSUME Buffered, Process \/ Complete \/ Rest \/ TokenStarves
  PROVE  Ended'
<1> SUFFICES ASSUME pc' = "idle", status' = "OK" PROVE call' = "feed"
  BY DEF Ended
<1>1. UNCHANGED <<text, fed, buffer, call>>
  BY DEF Process, Complete, Rest, Forced, TokenStarves
<1>2. buffer \in Seq(STRING) /\ processed \in 0..Len(buffer)
  BY DEF Buffered, HasInput
<1>3. ASSUME NEW done \in {"process", "complete", "rest"}, AfterLoop(done), processed' \in 0..Len(buffer)
      PROVE  call = "feed"
  BY <1>1, <1>2, <1>3, AfterLoopIs
<1>4. ASSUME NEW loop \in {"process", "complete", "rest"}, pc = loop, NEW streaming, NEW t, t = Lexed(streaming),
             Handled(t, loop)
      PROVE  call = "feed"
  BY <1>1, <1>4, HandledBuffered
<1>5. CASE Process
  <2>1. PICK t : t = Lexed(TRUE)
    BY Zenon
  <2>2. t.at \in 0..Len(buffer)
    BY <2>1, LexedReads
  <2>3. CASE Handled(t, "process")
    BY <1>1, <1>4, <1>5, <2>1, <2>3 DEF Process
  <2>4. CASE AfterLoop("process") /\ processed' \in {processed, t.at}
    BY <1>1, <1>2, <1>3, <2>2, <2>4
  <2>5. Handled(t, "process") \/ (AfterLoop("process") /\ processed' \in {processed, t.at})
    BY <1>5, <2>1 DEF Process, NoTokenYet, ProcessedUpTo
  <2> QED BY <2>3, <2>4, <2>5
<1>6. ASSUME NEW loop \in {"complete", "rest"}, Forced(loop) PROVE call = "feed"
  <2>1. PICK t : t = Lexed(FALSE)
    BY Zenon
  <2>2. t.at \in 0..Len(buffer) /\ pc = loop
    BY <1>6, <2>1, LexedReads DEF Forced
  <2>3. CASE Handled(t, loop)
    BY <1>4, <1>6, <2>1, <2>2, <2>3
  <2>4. CASE AfterLoop(loop) /\ processed' = t.at
    BY <1>3, <1>6, <2>2, <2>4
  <2>5. CASE t.status # "OK" /\ SetError(t.status)
    BY <2>5 DEF SetError
  <2> QED BY <1>6, <2>1, <2>3, <2>4, <2>5 DEF Forced
<1>7. CASE TokenStarves
  <2>1. AfterLoop("process") /\ processed' = processed
    BY <1>7 DEF TokenStarves
  <2> QED BY <1>1, <1>2, <1>3, <2>1
<1> QED BY <1>1, <1>5, <1>6, <1>7 DEF Complete, Rest


LEMMA ProcessSpeaks ==
  ASSUME Buffered, Tracked, Counted, Spoken, CutsAreClean(Bytes), state = "INIT" => NothingSaid, Process
  PROVE  (state' = "INIT" => NothingSaid') /\ Spoken'
<1>1. PICK t : t = Lexed(TRUE)
  BY Zenon
<1>2. pc = "process"
  BY DEF Process
<1>3. CASE state # "INIT"
  <2>1. ASSUME told' = told, state' \in {state, "ERROR"} PROVE state' # "INIT" /\ Spoken'
    BY <1>2, <1>3, <2>1 DEF Spoken
  <2>2. NoTokenYet(t) \/ UNCHANGED parser => told' = told /\ state' \in {state, "ERROR"}
    BY DEF NoTokenYet, parser, history
  <2>3. NoTokenYet(t) \/ UNCHANGED parser \/ Handled(t, "process")
    BY <1>1 DEF Process
  <2> QED BY <1>2, <2>1, <2>2, <2>3, HandledSpeaks
<1>4. CASE state = "INIT" /\ call = "feed"
  BY <1>2, <1>4, FirstTurn DEF NothingSaid
<1>5. CASE state = "INIT" /\ call # "feed"
  BY <1>2, <1>5, StalledTurn DEF NothingSaid, Spoken
<1> QED BY <1>3, <1>4, <1>5

LEMMA NextStarted ==
  ASSUME Seats, Buffered, Tracked, Counted, Started, [Next]_vars
  PROVE  Started'
<1>1. Bytes' = Bytes
  BY DEF Next, Loop, Feed, FeedStarves, FeedLate, Finish, Process, Complete, Rest, Forced, TokenStarves, Final,
         vars, Bytes
<1> SUFFICES ASSUME CutsAreClean(Bytes)
             PROVE  (state' = "INIT" => NothingSaid') /\ Spoken' /\ Ended'
  BY <1>1 DEF Started
<1>2. (state = "INIT" => NothingSaid) /\ Spoken /\ Ended
  BY DEF Started
<1>3. ASSUME NEW n, Feed(n) PROVE (state' = "INIT" => NothingSaid') /\ Spoken' /\ Ended'
  BY <1>2, <1>3, FeedSpeaks
<1>4. ASSUME NEW n, FeedStarves(n) PROVE (state' = "INIT" => NothingSaid') /\ Spoken' /\ Ended'
  BY <1>4 DEF FeedStarves, Spoken, Ended
<1>5. ASSUME NEW n, FeedLate(n) PROVE (state' = "INIT" => NothingSaid') /\ Spoken' /\ Ended'
  BY <1>2, <1>5 DEF FeedLate, parser, Over, Spoken, Ended
<1>6. CASE Finish
  <2>1. pc = "idle"
    BY <1>6 DEF Finish
  <2> QED BY <1>2, <1>6, <2>1, FinishSpeaks
<1>7. CASE Process
  BY <1>2, <1>7, ProcessSpeaks, TurnEnds
<1>8. CASE Complete
  <2>1. Forced("complete") /\ pc = "complete"
    BY <1>8 DEF Complete, Forced
  <2>2. state = "INIT" => Lexed(FALSE).type # "EOF"
    BY <1>2, <2>1, HeldIsNoEnd DEF NothingSaid
  <2>3. state' # "INIT" /\ Spoken'
    BY <1>2, <2>1, <2>2, ForcedTells
  <2> QED BY <1>8, <2>3, TurnEnds
<1>9. CASE Rest
  <2>1. Forced("rest") /\ pc = "rest"
    BY <1>9 DEF Rest, Forced
  <2>2. state = "INIT" => Lexed(FALSE).type # "EOF"
    BY <1>2, <2>1, StalledIsNoEnd DEF NothingSaid
  <2>3. state' # "INIT" /\ Spoken'
    BY <1>2, <2>1, <2>2, ForcedTells
  <2> QED BY <1>9, <2>3, TurnEnds
<1>10. CASE TokenStarves
  BY <1>2, <1>10, StarvesSpeaks, TurnEnds
<1>11. CASE Final
  BY <1>2, <1>11, FinalSpeaks
<1>12. CASE UNCHANGED vars
  <2>1. UNCHANGED <<text, fed, state, told, buffer, processed, tb, at, window, pc, call, status>>
    BY <1>12 DEF vars, parser, input
  <2>2. NothingSaid' = NothingSaid
    BY <2>1 DEF NothingSaid, Unprocessed, Stalled, AtStart
  <2> QED BY <1>2, <2>1, <2>2 DEF Spoken, Ended
<1> QED
  BY <1>3, <1>4, <1>5, <1>6, <1>7, <1>8, <1>9, <1>10, <1>11, <1>12 DEF Next, Loop

LEMMA InitStarted == Init => Started
<1> SUFFICES ASSUME Init PROVE Started
  OBVIOUS
<1>1. state = "INIT" /\ pc = "idle" /\ call = "none" /\ buffer = <<>> /\ processed = 0
  BY DEF Init
<1>2. Unprocessed = <<>>
  <2>1. <<>> \in Seq(STRING) /\ Len(<<>>) = 0
    OBVIOUS
  <2>2. SubSeq(<<>>, 0 + 1, Len(<<>>)) = <<>>
    BY <2>1, AllProcessed
  <2> QED BY <1>1, <2>2 DEF Unprocessed
<1> QED BY <1>1, <1>2 DEF Started, NothingSaid, Spoken, Ended

LEMMA EndedIsComplete ==
  ASSUME Started
  PROVE  FinishedIsComplete
<1>1. ASSUME NEW S PROVE Protocol!Cardinality(S) = Cardinality(S)
  BY Zenon DEF Protocol!Cardinality, Cardinality
<1>2. Protocol!Times(BeginTypes) = Many(told, BeginTypes) /\ Protocol!Times(EndTypes) = Many(told, EndTypes)
  BY <1>1 DEF Protocol!Times, Many
<1>3. Protocol!Complete <=> told # <<>> /\ Protocol!Times(BeginTypes) = Protocol!Times(EndTypes)
  BY DEF Protocol!Complete, Protocol!Kinds, BeginTypes, EndTypes, Kinds
<1> QED BY <1>2, <1>3 DEF Started, Ended, FinishedIsComplete

\* gtext_json_stream_finish says OK only when a whole value was told: as many
\* containers ended as began, and at least one event.  Not claimed of a text with one
\* of the two shapes that CutsAreClean excludes (a byte order mark behind its first
\* byte, a minus without a digit behind it): there a token may be passed over.
THEOREM FinishedWasComplete == Spec => []FinishedIsComplete
<1> DEFINE Inv == Seats /\ Buffered /\ Tracked /\ Counted /\ Started
<1>1. Init => Inv
  <2>1. Init => Seats
    BY EmptySeq DEF Init, Seats, States, InObject
  <2> QED BY <2>1, InitBuffered, InitTracked, InitCounted, InitStarted
<1>2. Inv /\ [Next]_vars => Inv'
  <2>1. Seats /\ [Next]_vars => Seats'
    BY NextKept DEF Kept
  <2> QED BY <2>1, NextBuffered, NextTracked, NextCounted, NextStarted
<1>3. Inv => FinishedIsComplete
  BY EndedIsComplete
<1> QED BY <1>1, <1>2, <1>3, PTL DEF Spec

-----------------------------------------------------------------------------
(* The lexer: tokens that are cut.                                         *)

ScanStep == [x \in Scans \X STRING |-> Scanned(x[1], x[2])]

LEMMA SearchFolded ==
  ASSUME NEW base \in Scans, NEW s \in Seq(STRING)
  PROVE  Folded(Scans, ScanStep, base, s, Searched(base, s))
<1> DEFINE N == Len(s)
           e(g, T) == IF T = {} THEN base ELSE Scanned(g[T \ {Max(T)}], s[Max(T)])
           Iter(g) == g = [T \in SUBSET (1..N) |-> e(g, T)]
<1>1. N \in Nat /\ (\A k \in 1..N : s[k] \in STRING) /\ DOMAIN s = 1..N
  BY LenProperties, ElementOfSeq
<1>2. /\ ScanStep \in [Scans \X STRING -> Scans]
      /\ \A r \in Scans, c \in STRING : ScanStep[<<r, c>>] = Scanned(r, c)
  BY ScannedOnce DEF ScanStep
<1>3. ASSUME NEW g, NEW T \in SUBSET (1..N), T # {}, g[T \ {Max(T)}] \in Scans
      PROVE  ScanStep[<<g[T \ {Max(T)}], s[Max(T)]>>] = e(g, T)
  <2>1. s[Max(T)] \in STRING
    BY <1>1, <1>3, MaxIsIn
  <2> QED BY <1>2, <1>3, <2>1
<1>4. \E g : Iter(g)
  <2>1. PICK g : FoldIs(g, ScanStep, base, s) /\ \A T \in SUBSET (1..N) : g[T] \in Scans
    BY <1>2, FoldExists
  <2> DEFINE d(T) == IF T = {} THEN base ELSE ScanStep[<<g[T \ {Max(T)}], s[Max(T)]>>]
  <2>2. ASSUME NEW T \in SUBSET (1..N) PROVE d(T) = e(g, T)
    <3>1. CASE T # {}
      <4>1. g[T \ {Max(T)}] \in Scans
        BY <2>1
      <4> QED BY <1>3, <3>1, <4>1
    <3> QED BY <3>1
  <2>3. g = [T \in SUBSET (1..N) |-> d(T)]
    BY <2>1 DEF FoldIs
  <2> HIDE DEF d, e
  <2>4. g = [T \in SUBSET (1..N) |-> e(g, T)]
    BY <2>2, <2>3
  <2> QED BY <2>4
<1> DEFINE g == CHOOSE g : Iter(g)
<1>5. Iter(g)
  BY <1>4
<1>6. Searched(base, s) = g[1..N]
  BY <1>1 DEF Searched, FoldLeft, MapThenFoldSet
<1> HIDE DEF g
<1>7. g[{}] = base
  <2>1. {} \in SUBSET (1..N)
    OBVIOUS
  <2> QED BY <1>5, <2>1
<1>8. ASSUME NEW T \in SUBSET (1..N), T # {}, g[T \ {Max(T)}] \in Scans
      PROVE  g[T] = ScanStep[<<g[T \ {Max(T)}], s[Max(T)]>>]
  <2>1. g[T] = e(g, T)
    BY <1>5
  <2> QED BY <1>3, <1>8, <2>1
<1>9. Folded(Scans, ScanStep, base, s, g[1..Len(s)])
  BY <1>2, <1>7, <1>8, FoldedBySets
<1> QED BY <1>6, <1>9

LEMMA SearchedBoth ==
  ASSUME NEW base \in Scans, NEW s \in Seq(STRING), NEW t \in Seq(STRING),
         NEW r \in Scans, r = Searched(base, s)
  PROVE  Searched(base, s \o t) = Searched(r, t)
<1>1. s \o t \in Seq(STRING)
  BY ConcatProperties
<1>2. PICK q : q = Searched(r, t)
  OBVIOUS
<1>3. PICK x : x = Searched(base, s \o t)
  OBVIOUS
<1>4. /\ Folded(Scans, ScanStep, base, s, r) /\ Folded(Scans, ScanStep, r, t, q)
      /\ Folded(Scans, ScanStep, base, s \o t, x)
  BY <1>1, <1>2, <1>3, SearchFolded
<1>5. x = q
  BY <1>4, FoldedBoth
<1> QED BY <1>2, <1>3, <1>5

\* The rest of an input that goes on with d.
LEMMA PieceOfBoth ==
  ASSUME NEW c \in Seq(STRING), NEW d \in Seq(STRING), NEW p \in 0..Len(c)
  PROVE  /\ Piece(c \o d, p, Len(c \o d)) = Piece(c, p, Len(c)) \o d
         /\ Piece(c, p, Len(c)) \in Seq(STRING) /\ Len(Piece(c, p, Len(c))) = Len(c) - p
         /\ Piece(d, 0, Len(d)) = d
         /\ c \o d \in Seq(STRING) /\ Len(c \o d) = Len(c) + Len(d)
<1>1. PICK m \in Nat, n \in Nat : m = Len(c) /\ n = Len(d)
  BY LenProperties
<1>2. PICK b \in Seq(STRING) : /\ b = c \o d /\ Len(b) = m + n
                               /\ \A k \in 1..(m + n) : b[k] = IF k <= m THEN c[k] ELSE d[k - m]
  <2>1. /\ c \o d \in Seq(STRING) /\ Len(c \o d) = Len(c) + Len(d)
        /\ \A k \in 1..(Len(c) + Len(d)) :
              (c \o d)[k] = IF k <= Len(c) THEN c[k] ELSE d[k - Len(c)]
    BY ConcatProperties
  <2> QED BY <1>1, <2>1
<1>3. p \in Nat /\ p <= m
  BY <1>1
<1>4. PICK s \in Seq(STRING), l \in Nat : /\ s = Piece(c, p, m) /\ Len(s) = l /\ m = p + l
                                          /\ \A k \in 1..l : s[k] = c[p + k]
  <2>1. m - p \in Nat /\ p + (m - p) = m /\ m <= Len(c)
    BY <1>1, <1>3
  <2>2. Piece(c, p, m) \in Seq(STRING) /\ Copies(Piece(c, p, m), c, p, m - p)
    BY <1>1, <1>3, <2>1, PieceTo
  <2> QED BY <1>1, <1>3, <2>1, <2>2 DEF Copies
<1>5. PICK w \in Seq(STRING) : /\ w = Piece(b, p, m + n) /\ Len(w) = l + n
                               /\ \A k \in 1..(l + n) : w[k] = b[p + k]
  <2>1. l + n \in Nat /\ m + n \in Nat /\ m + n = p + (l + n) /\ m + n <= Len(b)
    BY <1>1, <1>2, <1>3, <1>4
  <2>2. Piece(b, p, m + n) \in Seq(STRING) /\ Copies(Piece(b, p, m + n), b, p, l + n)
    BY <1>3, <2>1, PieceTo
  <2> QED BY <2>2 DEF Copies
<1>6. PICK v \in Seq(STRING) : /\ v = s \o d /\ Len(v) = l + n
                               /\ \A k \in 1..(l + n) : v[k] = IF k <= l THEN s[k] ELSE d[k - l]
  <2>1. /\ s \o d \in Seq(STRING) /\ Len(s \o d) = Len(s) + Len(d)
        /\ \A k \in 1..(Len(s) + Len(d)) :
              (s \o d)[k] = IF k <= Len(s) THEN s[k] ELSE d[k - Len(s)]
    <3>1. s \in Seq(STRING)
      BY <1>4
    <3> QED BY <3>1, ConcatProperties
  <2> QED BY <1>1, <1>4, <2>1
<1>7. w = v
  <2>1. ASSUME NEW k \in 1..(l + n) PROVE w[k] = v[k]
    <3>1. p + k \in 1..(m + n)
      BY <1>3, <1>4
    <3>2. CASE k <= l
      <4>1. p + k <= m /\ k \in 1..l
        BY <1>4, <3>2
      <4> QED BY <1>2, <1>4, <1>5, <1>6, <3>1, <3>2, <4>1
    <3>3. CASE ~(k <= l)
      <4>1. ~(p + k <= m) /\ (p + k) - m = k - l
        BY <1>3, <1>4, <3>3
      <4> QED BY <1>2, <1>5, <1>6, <3>1, <3>3, <4>1
    <3> QED BY <3>2, <3>3
  <2> QED BY <1>5, <1>6, <2>1, SeqEqual
<1>8. Piece(d, 0, n) = d
  <2>1. 0 \in Nat /\ n = 0 + n /\ n <= Len(d)
    BY <1>1
  <2>2. Piece(d, 0, n) \in Seq(STRING) /\ Copies(Piece(d, 0, n), d, 0, n)
    BY <1>1, <2>1, PieceTo
  <2>3. PICK e \in Seq(STRING) : e = Piece(d, 0, n) /\ Len(e) = n /\ \A k \in 1..n : e[k] = d[0 + k]
    BY <2>2 DEF Copies
  <2>4. \A k \in 1..n : e[k] = d[k]
    BY <2>3
  <2> QED BY <1>1, <2>3, <2>4, SeqEqual
<1>9. l = m - p
  BY <1>3, <1>4
<1> QED BY <1>1, <1>2, <1>4, <1>5, <1>6, <1>7, <1>8, <1>9

\* The token read in the next chunk, n bytes on, is the token read at once.
SameToken(rest, whole, n) ==
    /\ rest.status = whole.status /\ rest.type = whole.type
    /\ rest.lexeme = whole.lexeme /\ rest.tb = whole.tb
    /\ whole.status \in {"OK", "INCOMPLETE"} => whole.at = n + rest.at

StringKept(held, r) == [held EXCEPT !.bytes = r.bytes, !.inEscape = r.inEscape, !.hexLeft = r.hexLeft]

\* What LexString makes of the search's result.
StringEnds(r, b, p, held, first) ==
    CASE r.bad -> Refused("BAD_UNICODE", p, NoToken)
      [] ~r.bad /\ ~r.closed
           -> Incomplete(Len(b), StringKept(held, r))
      [] ~r.bad /\ r.closed /\ ~Decodes(SubSeq(r.bytes, 2, Len(r.bytes) - 1))
           -> Refused("BAD_ESCAPE", p, NoToken)
      [] OTHER -> Token("STRING", r.bytes, first + Len(r.bytes) - Len(held.bytes))

LEMMA SameIncomplete ==
  ASSUME NEW a, NEW b, NEW n, b = n + a, NEW kept
  PROVE  SameToken(Incomplete(a, kept), Incomplete(b, kept), n)
BY DEF Incomplete, Refused, SameToken

LEMMA SameComplete ==
  ASSUME NEW a, NEW b, NEW n, b = n + a, NEW type, NEW lexeme
  PROVE  SameToken(Token(type, lexeme, a), Token(type, lexeme, b), n)
BY DEF Token, SameToken

LEMMA SameRefused ==
  ASSUME NEW a, NEW b, NEW n, NEW code, code \notin {"OK", "INCOMPLETE"}, NEW kept
  PROVE  SameToken(Refused(code, a, kept), Refused(code, b, kept), n)
BY DEF Refused, SameToken

LEMMA SameEnd ==
  \A m \in Nat, f \in Nat, l \in Nat, y \in Nat :
     f <= m => f + y - l = m + (0 + y - (l + (m - f)))
OBVIOUS

LEMMA StringGoesOn ==
  ASSUME NEW c \in Seq(STRING), NEW d \in Seq(STRING), NEW first \in 0..Len(c), NEW p,
         NEW start, IsBuffer(start), start.type = "STRING", NEW base,
         base = [bytes |-> start.bytes, inEscape |-> start.inEscape, hexLeft |-> start.hexLeft,
                 closed |-> FALSE, bad |-> FALSE],
         NEW r, r = Searched(base, Piece(c, first, Len(c))), ~r.closed, ~r.bad,
         NEW kept, kept = StringKept(start, r),
         NEW x, x = Searched(base, Piece(c \o d, first, Len(c \o d))),
         NEW whole, whole = StringEnds(x, c \o d, p, start, first)
  PROVE  SameToken(LexString(d, 0, kept), whole, Len(c))
<1>1. PICK m \in Nat, n \in Nat : m = Len(c) /\ n = Len(d)
  BY LenProperties
<1>2. first \in Nat /\ first <= m
  BY <1>1
<1>3. start.bytes \in Seq(STRING) /\ start \in Buffers
  BY DEF IsBuffer, Buffers
<1>4. PICK l \in Nat : l = Len(start.bytes) /\ l # 0
  <2>1. start.bytes # <<>>
    BY DEF IsBuffer
  <2> QED BY <1>3, <2>1, LenProperties, EmptySeq
<1>5. r \in Scans /\ Len(r.bytes) = l + (m - first)
  <2>1. \E r1 \in Scans : \E a \in first..Len(c) :
           /\ r1 = Searched(base, Piece(c, first, Len(c)))
           /\ Holds(r1.bytes, start.bytes, c, first, a)
           /\ ~r1.closed /\ ~r1.bad => a = Len(c)
    BY StringRead
  <2>2. PICK a : Holds(r.bytes, start.bytes, c, first, a) /\ a = m /\ r \in Scans
    BY <1>1, <2>1
  <2> QED BY <1>4, <2>2 DEF Holds
<1>6. /\ r.bytes \in Seq(STRING) /\ r.inEscape \in BOOLEAN /\ r.hexLeft \in Nat
      /\ r = [bytes |-> r.bytes, inEscape |-> r.inEscape, hexLeft |-> r.hexLeft,
              closed |-> FALSE, bad |-> FALSE]
  BY <1>5 DEF Scans
<1>7. /\ kept \in Buffers /\ kept.type = "STRING" /\ kept.bytes = r.bytes
      /\ kept.inEscape = r.inEscape /\ kept.hexLeft = r.hexLeft
  BY <1>3, <1>6 DEF Buffers, StringKept
<1>8. IsBuffer(kept)
  <2>1. Len(r.bytes) # 0
    BY <1>1, <1>2, <1>4, <1>5
  <2>2. r.bytes # <<>>
    BY <1>6, <2>1, EmptySeq
  <2> QED BY <1>7, <2>2 DEF IsBuffer
<1>9. r = [bytes |-> kept.bytes, inEscape |-> kept.inEscape, hexLeft |-> kept.hexLeft,
           closed |-> FALSE, bad |-> FALSE]
  BY <1>6, <1>7
<1>10. x = Searched(r, d)
  <2>1. PICK s \in Seq(STRING) : s = Piece(c, first, Len(c))
    BY PieceOfBoth
  <2>2. x = Searched(base, s \o d)
    BY <2>1, PieceOfBoth
  <2>3. base \in Scans
    BY <1>3 DEF Scans, Buffers
  <2> QED BY <1>5, <2>1, <2>2, <2>3, SearchedBoth
<1>11. x \in Scans
  <2>1. 0 \in 0..Len(d)
    BY <1>1
  <2>2. \E r1 \in Scans : r1 = Searched(r, Piece(d, 0, Len(d)))
    BY <1>8, <1>9, <2>1, StringRead
  <2>3. 0 \in 0..Len(c)
    BY <1>1
  <2>4. Piece(d, 0, Len(d)) = d
    BY <2>3, PieceOfBoth
  <2> QED BY <1>10, <2>2, <2>4
<1>12. x.bytes \in Seq(STRING) /\ Len(x.bytes) \in Nat
  BY <1>11, LenProperties DEF Scans
<1>13. PICK rest : rest = LexString(d, 0, kept)
  OBVIOUS
<1>14. rest = StringEnds(x, d, 0, kept, 0)
  <2>1. 0 \in 0..Len(c)
    BY <1>1
  <2>2. Piece(d, 0, Len(d)) = d
    BY <2>1, PieceOfBoth
  <2> QED BY <1>7, <1>9, <1>10, <1>13, <2>2 DEF LexString, StringEnds, StringKept, Searched
<1>15. PICK more : /\ more = StringKept(start, x)
                   /\ more = StringKept(kept, x)
  BY <1>3 DEF Buffers, StringKept
<1>16. Len(c \o d) = m + n
  <2>1. 0 \in 0..Len(c)
    BY <1>1
  <2> QED BY <1>1, <2>1, PieceOfBoth
<1>17. first + Len(x.bytes) - Len(start.bytes) = m + (0 + Len(x.bytes) - Len(kept.bytes))
  <2>1. PICK y \in Nat : y = Len(x.bytes)
    BY <1>12
  <2>2. PICK f \in Nat : f = first /\ f <= m
    BY <1>2
  <2>3. PICK z : z = Len(kept.bytes) /\ z = l + (m - f)
    BY <1>5, <1>7, <2>2, Zenon
  <2>4. f + y - l = m + (0 + y - z)
    <3>1. PICK u \in Nat, v \in Nat, w \in Nat, t \in Nat : u = m /\ v = f /\ w = l /\ t = y
      OBVIOUS
    <3>2. v <= u => v + t - w = u + (0 + t - (w + (u - v)))
      BY SameEnd
    <3> QED BY <2>2, <2>3, <3>1, <3>2, Zenon
  <2> QED BY <1>4, <2>1, <2>2, <2>3, <2>4, Zenon
<1>18. x.bad \in BOOLEAN /\ x.closed \in BOOLEAN
  BY <1>11 DEF Scans
<1>19. "BAD_UNICODE" \notin {"OK", "INCOMPLETE"} /\ "BAD_ESCAPE" \notin {"OK", "INCOMPLETE"}
  OBVIOUS
<1>20. CASE x.bad
  <2>1. whole = Refused("BAD_UNICODE", p, NoToken) /\ rest = Refused("BAD_UNICODE", 0, NoToken)
    BY <1>14, <1>20 DEF StringEnds
  <2> QED BY <1>13, <1>19, <2>1, SameRefused, Zenon
<1>21. CASE ~x.bad /\ ~x.closed
  <2>1. whole = Incomplete(Len(c \o d), more) /\ rest = Incomplete(Len(d), more)
    BY <1>14, <1>15, <1>21 DEF StringEnds
  <2>2. Len(c \o d) = Len(c) + Len(d)
    BY <1>1, <1>16
  <2> QED BY <1>13, <2>1, <2>2, SameIncomplete, Zenon
<1>22. CASE ~x.bad /\ x.closed /\ ~Decodes(SubSeq(x.bytes, 2, Len(x.bytes) - 1))
  <2>1. whole = Refused("BAD_ESCAPE", p, NoToken) /\ rest = Refused("BAD_ESCAPE", 0, NoToken)
    BY <1>14, <1>22 DEF StringEnds
  <2> QED BY <1>13, <1>19, <2>1, SameRefused, Zenon
<1>23. CASE ~x.bad /\ x.closed /\ Decodes(SubSeq(x.bytes, 2, Len(x.bytes) - 1))
  <2>1. /\ whole = Token("STRING", x.bytes, first + Len(x.bytes) - Len(start.bytes))
        /\ rest = Token("STRING", x.bytes, 0 + Len(x.bytes) - Len(kept.bytes))
    BY <1>14, <1>23 DEF StringEnds
  <2> QED BY <1>1, <1>13, <1>17, <2>1, SameComplete, Zenon
<1> QED BY <1>18, <1>20, <1>21, <1>22, <1>23

\* json_lexer_parse_string: a string that a chunk cuts, wherever it does, also
\* inside an escape, is in the next chunk the token, the error or the unfinished
\* string that the two chunks at once would have given.
THEOREM CutStringsAreWhole ==
  ASSUME NEW c \in Seq(STRING), NEW d \in Seq(STRING), NEW p \in 0..Len(c), NEW cut, IsBuffer(cut),
         cut.type \in {"NONE", "STRING"}, cut.type = "NONE" => p < Len(c),
         LexString(c, p, cut).status = "INCOMPLETE"
  PROVE  SameToken(LexString(d, 0, LexString(c, p, cut).tb), LexString(c \o d, p, cut), Len(c))
<1> DEFINE resuming == cut.type = "STRING"
           start == IF resuming THEN cut
                    ELSE [NoToken EXCEPT !.type = "STRING", !.bytes = <<At(c, p)>>]
           first == IF resuming THEN p ELSE p + 1
           base  == [bytes |-> start.bytes, inEscape |-> start.inEscape,
                     hexLeft |-> start.hexLeft, closed |-> FALSE, bad |-> FALSE]
<1>1. PICK m \in Nat, n \in Nat : m = Len(c) /\ n = Len(d)
  BY LenProperties
<1>2. p \in Nat /\ p <= m /\ (cut.type = "NONE" => p < m)
  BY <1>1
<1>3. PICK b \in Seq(STRING) : b = c \o d /\ (p < m => b[p + 1] = c[p + 1])
  <2>1. /\ c \o d \in Seq(STRING)
        /\ \A k \in 1..(Len(c) + Len(d)) : (c \o d)[k] = IF k <= Len(c) THEN c[k] ELSE d[k - Len(c)]
    BY ConcatProperties
  <2>2. CASE p < m
    <3>1. p + 1 \in 1..(Len(c) + Len(d)) /\ p + 1 <= Len(c)
      BY <1>1, <1>2, <2>2
    <3> QED BY <2>1, <3>1
  <2> QED BY <2>1, <2>2
<1>4. start = IF resuming THEN cut ELSE [NoToken EXCEPT !.type = "STRING", !.bytes = <<At(b, p)>>]
  <2>1. CASE ~resuming
    <3>1. At(b, p) = At(c, p)
      BY <1>2, <1>3, <2>1 DEF At
    <3> QED BY <2>1, <3>1
  <2> QED BY <2>1
<1>5. first \in 0..Len(c) /\ IsBuffer(start) /\ start.type = "STRING"
  <2>1. CASE resuming
    <3> QED BY <1>1, <1>2, <2>1
  <2>2. CASE ~resuming
    <3>1. p < m
      BY <1>2, <2>2
    <3>2. PICK e \in STRING : e = c[p + 1]
      <4>1. p + 1 \in 1..m
        BY <1>2, <3>1
      <4> QED BY <1>1, <4>1, ElementOfSeq
    <3>3. PICK one \in Seq(STRING) : one = <<e>> /\ one # <<>>
      <4>1. <<e>> \in Seq(STRING) /\ Len(<<e>>) = 1
        OBVIOUS
      <4> QED BY <4>1, EmptySeq
    <3>4. start = [NoToken EXCEPT !.type = "STRING", !.bytes = one] /\ first = p + 1
      BY <2>2, <3>2, <3>3 DEF At
    <3>5. NoToken \in Buffers
      BY NoTokenIsBuffer DEF IsBuffer
    <3>6. start \in Buffers /\ start.type = "STRING" /\ start.bytes = one
      <4> HIDE DEF start
      <4> QED BY <3>4, <3>5 DEF Buffers
    <3> QED BY <1>1, <1>2, <3>1, <3>3, <3>4, <3>6 DEF IsBuffer
  <2> QED BY <2>1, <2>2
<1>6. PICK r : r = Searched(base, Piece(c, first, Len(c)))
  OBVIOUS
<1>7. PICK x : x = Searched(base, Piece(b, first, Len(b)))
  OBVIOUS
<1>8. LexString(c, p, cut) = StringEnds(r, c, p, start, first)
  BY <1>6 DEF LexString, StringEnds, StringKept, Searched
<1>9. LexString(b, p, cut) = StringEnds(x, b, p, start, first)
  BY <1>4, <1>7 DEF LexString, StringEnds, StringKept, Searched
<1>10. base = [bytes |-> start.bytes, inEscape |-> start.inEscape, hexLeft |-> start.hexLeft,
               closed |-> FALSE, bad |-> FALSE]
  OBVIOUS
<1> HIDE DEF start, first, base, resuming
<1>11. PICK kept : kept = StringKept(start, r)
  OBVIOUS
<1>12. ~r.bad /\ ~r.closed
  <2>1. PICK bad, esc, ready : /\ bad = Refused("BAD_UNICODE", p, NoToken)
                               /\ esc = Refused("BAD_ESCAPE", p, NoToken)
                               /\ ready = Token("STRING", r.bytes, first + Len(r.bytes) - Len(start.bytes))
    OBVIOUS
  <2>2. /\ bad.status # "INCOMPLETE" /\ esc.status # "INCOMPLETE"
        /\ ready.status # "INCOMPLETE"
    BY <2>1 DEF Refused, Token
  <2>3. \/ LexString(c, p, cut) \in {bad, esc, ready}
        \/ ~r.bad /\ ~r.closed
    BY <1>8, <2>1 DEF StringEnds
  <2> QED BY <2>2, <2>3
<1>13. LexString(c, p, cut).tb = kept
  <2>1. StringEnds(r, c, p, start, first) = Incomplete(Len(c), kept)
    BY <1>11, <1>12 DEF StringEnds
  <2> QED BY <1>8, <2>1 DEF Incomplete, Refused
<1>14. SameToken(LexString(d, 0, kept), LexString(b, p, cut), Len(c))
  BY <1>3, <1>5, <1>6, <1>7, <1>9, <1>10, <1>11, <1>12, StringGoesOn
<1> QED BY <1>3, <1>13, <1>14

-----------------------------------------------------------------------------
(* The lexer: numbers that are cut.                                        *)

Signs(r, c) == (r.fresh \/ (r.resuming /\ r.exp /\ ~r.signed)) /\ c \in {"+", "-"}
Minuses(r, c) == ~r.fresh /\ ~(r.resuming /\ r.exp /\ ~r.signed) /\ c = "-" /\ r.taken = 0
\* A byte that is not the number's.
Halts(r, c) ==
    /\ ~r.stopped /\ ~Signs(r, c) /\ c \notin Digits /\ ~(c = "." /\ ~r.dot /\ ~r.exp)
    /\ ~(c = "e" /\ ~r.exp) /\ ~Minuses(r, c)
Halted(q, r) ==
    /\ q.stopped /\ q.bytes = r.bytes /\ q.taken = r.taken /\ q.dot = r.dot
    /\ q.exp = r.exp /\ q.signed = r.signed /\ q.minus = r.minus /\ q.fresh = r.fresh
\* One more byte of a number, which leaves these marks.
Grown(q, r, c, dot, exp, signed, minus, fresh) ==
    /\ q.bytes = Append(r.bytes, c) /\ q.taken = r.taken + 1 /\ ~q.stopped
    /\ q.dot = dot /\ q.exp = exp /\ q.signed = signed /\ q.minus = minus /\ q.fresh = fresh

LEMMA TakenArms ==
  ASSUME NEW r \in Takes, NEW c \in STRING, NEW q, q = Taken(r, c), NEW yes, yes = TRUE, NEW no, no = FALSE
  PROVE  /\ q \in Takes /\ q.resuming = r.resuming
         /\ r.stopped => q = r
         /\ ~r.stopped /\ Signs(r, c) => Grown(q, r, c, r.dot, r.exp, yes, r.minus, no)
         /\ ~r.stopped /\ c \in Digits => Grown(q, r, c, r.dot, r.exp, r.signed, r.minus, no)
         /\ ~r.stopped /\ c = "." /\ ~r.dot /\ ~r.exp => Grown(q, r, c, yes, r.exp, r.signed, r.minus, no)
         /\ ~r.stopped /\ c = "e" /\ ~r.exp => Grown(q, r, c, r.dot, yes, no, r.minus, yes)
         /\ ~r.stopped /\ Minuses(r, c) => Grown(q, r, c, r.dot, r.exp, r.signed, yes, no)
         /\ Halts(r, c) => Halted(q, r)
<1>1. /\ r.bytes \in Seq(STRING) /\ r.taken \in Nat
      /\ yes \in BOOLEAN /\ no \in BOOLEAN
  BY DEF Takes
<1>2. PICK new \in Seq(STRING) : new = Append(r.bytes, c)
  BY <1>1, AppendProperties
<1>3. PICK count \in Nat : count = r.taken + 1
  BY <1>1
<1>4. PICK more \in Takes :
        /\ more = [r EXCEPT !.bytes = new, !.taken = count, !.fresh = no]
        /\ more.bytes = new /\ more.taken = count /\ more.stopped = r.stopped /\ more.fresh = no
        /\ more.dot = r.dot /\ more.exp = r.exp /\ more.signed = r.signed /\ more.minus = r.minus
        /\ more.resuming = r.resuming
  <2>1. PICK x : x = [r EXCEPT !.bytes = new, !.taken = count, !.fresh = no]
    OBVIOUS
  <2>2. /\ x \in Takes
        /\ x.bytes = new /\ x.taken = count /\ x.stopped = r.stopped /\ x.fresh = no
        /\ x.dot = r.dot /\ x.exp = r.exp /\ x.signed = r.signed /\ x.minus = r.minus
        /\ x.resuming = r.resuming
    BY <1>1, <2>1 DEF Takes
  <2> QED BY <2>1, <2>2
<1>5. PICK more2 : more2 = [r EXCEPT !.bytes = Append(@, c), !.taken = @ + 1, !.fresh = FALSE]
  OBVIOUS
<1>6. more2 = more
  BY <1>2, <1>3, <1>4, <1>5
<1>7. "." \notin Digits /\ "e" \notin Digits /\ "+" \notin Digits /\ "-" \notin Digits
  BY DEF Digits
<1>8. ASSUME r.stopped PROVE q = r
  BY <1>8 DEF Taken
<1>9. ASSUME ~r.stopped, Signs(r, c)
      PROVE  q \in Takes /\ q.resuming = r.resuming /\ Grown(q, r, c, r.dot, r.exp, yes, r.minus, no)
  <2>1. q = [more EXCEPT !.signed = yes]
    BY <1>5, <1>6, <1>7, <1>9 DEF Taken, Signs
  <2> QED BY <1>1, <1>2, <1>3, <1>4, <1>9, <2>1 DEF Takes, Grown
<1>10. ASSUME ~r.stopped, c \in Digits
       PROVE  q \in Takes /\ q.resuming = r.resuming /\ Grown(q, r, c, r.dot, r.exp, r.signed, r.minus, no)
  <2>1. q = more
    BY <1>5, <1>6, <1>7, <1>10 DEF Taken
  <2> QED BY <1>2, <1>3, <1>4, <1>10, <2>1 DEF Grown
<1>11. ASSUME ~r.stopped, c = ".", ~r.dot, ~r.exp
       PROVE  q \in Takes /\ q.resuming = r.resuming /\ Grown(q, r, c, yes, r.exp, r.signed, r.minus, no)
  <2>1. q = [more EXCEPT !.dot = yes]
    BY <1>5, <1>6, <1>7, <1>11 DEF Taken
  <2> QED BY <1>1, <1>2, <1>3, <1>4, <1>11, <2>1 DEF Takes, Grown
<1>12. ASSUME ~r.stopped, c = "e", ~r.exp
       PROVE  q \in Takes /\ q.resuming = r.resuming /\ Grown(q, r, c, r.dot, yes, no, r.minus, yes)
  <2>1. q = [more EXCEPT !.exp = yes, !.signed = no, !.fresh = yes]
    BY <1>5, <1>6, <1>7, <1>12 DEF Taken
  <2> QED BY <1>1, <1>2, <1>3, <1>4, <1>12, <2>1 DEF Takes, Grown
<1>13. ASSUME ~r.stopped, Minuses(r, c)
       PROVE  q \in Takes /\ q.resuming = r.resuming /\ Grown(q, r, c, r.dot, r.exp, r.signed, yes, no)
  <2>1. q = [more EXCEPT !.minus = yes]
    BY <1>5, <1>6, <1>7, <1>13 DEF Taken, Minuses
  <2> QED BY <1>1, <1>2, <1>3, <1>4, <1>13, <2>1 DEF Takes, Grown
<1>14. ASSUME Halts(r, c)
       PROVE  q \in Takes /\ q.resuming = r.resuming /\ Halted(q, r)
  <2>1. q = [r EXCEPT !.stopped = yes]
    BY <1>14 DEF Taken, Signs, Minuses, Halts
  <2> QED BY <1>1, <2>1 DEF Takes, Halted
<1>15. \/ r.stopped
       \/ ~r.stopped /\ Signs(r, c)
       \/ ~r.stopped /\ c \in Digits
       \/ ~r.stopped /\ c = "." /\ ~r.dot /\ ~r.exp
       \/ ~r.stopped /\ c = "e" /\ ~r.exp
       \/ ~r.stopped /\ Minuses(r, c)
       \/ Halts(r, c)
  BY DEF Halts
<1>16. q \in Takes /\ q.resuming = r.resuming
  BY <1>8, <1>9, <1>10, <1>11, <1>12, <1>13, <1>14, <1>15
<1> QED BY <1>8, <1>9, <1>10, <1>11, <1>12, <1>13, <1>14, <1>16, Zenon

LEMMA StoppedStays ==
  ASSUME NEW r \in Takes, NEW c, r.stopped
  PROVE  Taken(r, c) = r
BY DEF Taken

\* After an e that has no sign yet.
FreshIsExp(r) == r.fresh => r.exp /\ ~r.signed

\* The search of a number in the next chunk and the search of it at once, n bytes
\* later, are at the same point.
SameSearch(x, y, n) ==
    /\ x \in Takes /\ y \in Takes /\ y.resuming
    /\ x.bytes = y.bytes /\ x.taken = n + y.taken /\ x.dot = y.dot /\ x.exp = y.exp
    /\ x.signed = y.signed /\ x.minus = y.minus /\ x.stopped = y.stopped
    /\ FreshIsExp(x)

LEMMA FreshStaysExp ==
  ASSUME NEW r \in Takes, NEW c \in STRING, FreshIsExp(r)
  PROVE  FreshIsExp(Taken(r, c))
<1>1. PICK q : q = Taken(r, c)
  OBVIOUS
<1>2. PICK yes, no : yes = TRUE /\ no = FALSE
  OBVIOUS
<1>3. q.fresh => q.exp /\ ~q.signed
  <2>1. \/ r.stopped
        \/ ~r.stopped /\ Signs(r, c)
        \/ ~r.stopped /\ c \in Digits
        \/ ~r.stopped /\ c = "." /\ ~r.dot /\ ~r.exp
        \/ ~r.stopped /\ c = "e" /\ ~r.exp
        \/ ~r.stopped /\ Minuses(r, c)
        \/ Halts(r, c)
    BY DEF Halts
  <2>2. CASE r.stopped
    <3>1. q = r
      BY <1>1, <2>2, StoppedStays
    <3> QED BY <3>1 DEF FreshIsExp
  <2>3. CASE ~r.stopped /\ Signs(r, c)
    <3>1. Grown(q, r, c, r.dot, r.exp, yes, r.minus, no)
      BY <1>1, <1>2, <2>3, TakenArms
    <3> QED BY <1>2, <3>1 DEF Grown
  <2>4. CASE ~r.stopped /\ c \in Digits
    <3>1. Grown(q, r, c, r.dot, r.exp, r.signed, r.minus, no)
      BY <1>1, <1>2, <2>4, TakenArms
    <3> QED BY <1>2, <3>1 DEF Grown
  <2>5. CASE ~r.stopped /\ c = "." /\ ~r.dot /\ ~r.exp
    <3>1. Grown(q, r, c, yes, r.exp, r.signed, r.minus, no)
      BY <1>1, <1>2, <2>5, TakenArms
    <3> QED BY <1>2, <3>1 DEF Grown
  <2>6. CASE ~r.stopped /\ c = "e" /\ ~r.exp
    <3>1. Grown(q, r, c, r.dot, yes, no, r.minus, yes)
      BY <1>1, <1>2, <2>6, TakenArms
    <3> QED BY <1>2, <3>1 DEF Grown
  <2>7. CASE ~r.stopped /\ Minuses(r, c)
    <3>1. Grown(q, r, c, r.dot, r.exp, r.signed, yes, no)
      BY <1>1, <1>2, <2>7, TakenArms
    <3> QED BY <1>2, <3>1 DEF Grown
  <2>8. CASE Halts(r, c)
    <3>1. Halted(q, r)
      BY <1>1, <1>2, <2>8, TakenArms
    <3> QED BY <3>1 DEF FreshIsExp, Halted
  <2> QED BY <2>1, <2>2, <2>3, <2>4, <2>5, <2>6, <2>7, <2>8
<1> QED BY <1>1, <1>3 DEF FreshIsExp

\* Only a first byte makes a number negative.
LEMMA MinusIsFirst ==
  ASSUME NEW r \in Takes, NEW c \in STRING, ~r.minus,
         c = "-" => r.stopped \/ r.taken # 0
  PROVE  ~Taken(r, c).minus
<1>1. PICK q : q = Taken(r, c)
  OBVIOUS
<1>2. PICK yes, no : yes = TRUE /\ no = FALSE
  OBVIOUS
<1>3. r.stopped \/ ~Minuses(r, c)
  BY DEF Minuses
<1>4. CASE r.stopped
  <2>1. q = r
    BY <1>1, <1>4, StoppedStays
  <2> QED BY <1>1, <2>1
<1>5. CASE ~r.stopped /\ Signs(r, c)
  <2>1. Grown(q, r, c, r.dot, r.exp, yes, r.minus, no)
    BY <1>1, <1>2, <1>5, TakenArms
  <2> QED BY <1>1, <2>1 DEF Grown
<1>6. CASE ~r.stopped /\ c \in Digits
  <2>1. Grown(q, r, c, r.dot, r.exp, r.signed, r.minus, no)
    BY <1>1, <1>2, <1>6, TakenArms
  <2> QED BY <1>1, <2>1 DEF Grown
<1>7. CASE ~r.stopped /\ c = "." /\ ~r.dot /\ ~r.exp
  <2>1. Grown(q, r, c, yes, r.exp, r.signed, r.minus, no)
    BY <1>1, <1>2, <1>7, TakenArms
  <2> QED BY <1>1, <2>1 DEF Grown
<1>8. CASE ~r.stopped /\ c = "e" /\ ~r.exp
  <2>1. Grown(q, r, c, r.dot, yes, no, r.minus, yes)
    BY <1>1, <1>2, <1>8, TakenArms
  <2> QED BY <1>1, <2>1 DEF Grown
<1>9. CASE Halts(r, c)
  <2>1. Halted(q, r)
    BY <1>1, <1>2, <1>9, TakenArms
  <2> QED BY <1>1, <2>1 DEF Halted
<1> QED BY <1>3, <1>4, <1>5, <1>6, <1>7, <1>8, <1>9 DEF Halts

\* Both searches take the next byte, or both stop; but that the search at once
\* may stop at a sign.
LEMMA SearchesAgree ==
  ASSUME NEW n \in Nat, n > 0, NEW x, NEW y, SameSearch(x, y, n), NEW c \in STRING
  PROVE  \/ SameSearch(Taken(x, c), Taken(y, c), n)
         \/ ~x.stopped /\ Taken(x, c).stopped /\ Taken(x, c).taken = x.taken /\ c \in {"+", "-"}
<1>1. PICK q, z : q = Taken(x, c) /\ z = Taken(y, c)
  OBVIOUS
<1>2. PICK yes, no : yes = TRUE /\ no = FALSE
  OBVIOUS
<1>3. /\ x \in Takes /\ y \in Takes /\ y.resuming /\ x.bytes = y.bytes /\ x.taken = n + y.taken
      /\ x.dot = y.dot /\ x.exp = y.exp /\ x.signed = y.signed /\ x.minus = y.minus
      /\ x.stopped = y.stopped /\ FreshIsExp(x)
  BY DEF SameSearch
<1>4. FreshIsExp(q) /\ q \in Takes /\ z \in Takes /\ z.resuming
  BY <1>1, <1>2, <1>3, FreshStaysExp, TakenArms
<1>5. y.taken \in Nat /\ x.taken \in Nat /\ x.taken # 0
  BY <1>3 DEF Takes
<1>6. "." \notin Digits /\ "e" \notin Digits /\ "+" \notin Digits /\ "-" \notin Digits
  BY DEF Digits
<1>7. ~Minuses(x, c)
  BY <1>5 DEF Minuses
<1>8. ASSUME NEW dot, NEW exp, NEW signed, NEW fresh, Grown(q, x, c, dot, exp, signed, x.minus, fresh),
             Grown(z, y, c, dot, exp, signed, y.minus, fresh)
      PROVE  SameSearch(q, z, n)
  <2>1. q.bytes = z.bytes /\ q.dot = z.dot /\ q.exp = z.exp /\ q.signed = z.signed /\ q.minus = z.minus
    BY <1>3, <1>8 DEF Grown
  <2>2. ~q.stopped /\ ~z.stopped /\ q.taken = x.taken + 1 /\ z.taken = y.taken + 1
    BY <1>8 DEF Grown
  <2>3. q.stopped = z.stopped
    <3>1. q.stopped \in BOOLEAN /\ z.stopped \in BOOLEAN
      BY <1>4 DEF Takes
    <3> QED BY <2>2, <3>1
  <2>4. q.taken = n + z.taken
    BY <1>3, <1>5, <2>2
  <2> QED BY <1>4, <2>1, <2>3, <2>4 DEF SameSearch
<1>9. CASE x.stopped
  <2>1. q = x /\ z = y
    BY <1>1, <1>3, <1>9, StoppedStays
  <2> QED BY <1>1, <2>1
<1>10. CASE ~x.stopped /\ Signs(x, c)
  <2>1. Signs(y, c)
    BY <1>3, <1>10 DEF Signs, FreshIsExp
  <2>2. Grown(q, x, c, x.dot, x.exp, yes, x.minus, no)
    BY <1>1, <1>2, <1>3, <1>10, TakenArms
  <2>3. Grown(z, y, c, y.dot, y.exp, yes, y.minus, no)
    BY <1>1, <1>2, <1>3, <1>10, <2>1, TakenArms
  <2> QED BY <1>1, <1>3, <1>8, <2>2, <2>3
<1>11. CASE ~x.stopped /\ c \in Digits
  <2>1. Grown(q, x, c, x.dot, x.exp, x.signed, x.minus, no)
    BY <1>1, <1>2, <1>3, <1>11, TakenArms
  <2>2. Grown(z, y, c, y.dot, y.exp, y.signed, y.minus, no)
    BY <1>1, <1>2, <1>3, <1>11, TakenArms
  <2> QED BY <1>1, <1>3, <1>8, <2>1, <2>2
<1>12. CASE ~x.stopped /\ c = "." /\ ~x.dot /\ ~x.exp
  <2>1. Grown(q, x, c, yes, x.exp, x.signed, x.minus, no)
    BY <1>1, <1>2, <1>3, <1>12, TakenArms
  <2>2. Grown(z, y, c, yes, y.exp, y.signed, y.minus, no)
    BY <1>1, <1>2, <1>3, <1>12, TakenArms
  <2> QED BY <1>1, <1>3, <1>8, <2>1, <2>2
<1>13. CASE ~x.stopped /\ c = "e" /\ ~x.exp
  <2>1. Grown(q, x, c, x.dot, yes, no, x.minus, yes)
    BY <1>1, <1>2, <1>3, <1>13, TakenArms
  <2>2. Grown(z, y, c, y.dot, yes, no, y.minus, yes)
    BY <1>1, <1>2, <1>3, <1>13, TakenArms
  <2> QED BY <1>1, <1>3, <1>8, <2>1, <2>2
<1>14. CASE Halts(x, c)
  <2>0. Halted(q, x)
    BY <1>1, <1>2, <1>3, <1>14, TakenArms
  <2>1. /\ q.stopped /\ q.bytes = x.bytes /\ q.taken = x.taken /\ q.dot = x.dot
        /\ q.exp = x.exp /\ q.signed = x.signed /\ q.minus = x.minus /\ q.fresh = x.fresh
        /\ ~x.stopped
    BY <1>14, <2>0 DEF Halted, Halts
  <2>2. CASE c \in {"+", "-"}
    BY <1>1, <1>14, <2>1, <2>2
  <2>3. CASE c \notin {"+", "-"}
    <3>1. ~Signs(y, c) /\ ~Minuses(y, c)
      BY <2>3 DEF Signs, Minuses
    <3>2. Halts(y, c)
      BY <1>3, <1>14, <3>1 DEF Halts
    <3>4. Halted(z, y)
      BY <1>1, <1>2, <1>3, <3>2, TakenArms
    <3>5. /\ z.stopped /\ z.bytes = y.bytes /\ z.taken = y.taken /\ z.dot = y.dot
          /\ z.exp = y.exp /\ z.signed = y.signed /\ z.minus = y.minus
      BY <3>4 DEF Halted
    <3>3. q.stopped = z.stopped
      <4>1. q.stopped \in BOOLEAN /\ z.stopped \in BOOLEAN
        BY <1>4 DEF Takes
      <4> QED BY <2>1, <3>5, <4>1
    <3> QED BY <1>1, <1>3, <1>4, <2>1, <3>3, <3>5 DEF SameSearch
  <2> QED BY <2>2, <2>3
<1> QED BY <1>7, <1>9, <1>10, <1>11, <1>12, <1>13, <1>14 DEF Halts

TakeStep == [x \in Takes \X STRING |-> Taken(x[1], x[2])]

LEMMA GatherFolded ==
  ASSUME NEW base \in Takes, NEW s \in Seq(STRING)
  PROVE  Folded(Takes, TakeStep, base, s, Gathered(base, s))
<1> DEFINE N == Len(s)
           e(g, T) == IF T = {} THEN base ELSE Taken(g[T \ {Max(T)}], s[Max(T)])
           Iter(g) == g = [T \in SUBSET (1..N) |-> e(g, T)]
<1>1. N \in Nat /\ (\A k \in 1..N : s[k] \in STRING) /\ DOMAIN s = 1..N
  BY LenProperties, ElementOfSeq
<1>2. /\ TakeStep \in [Takes \X STRING -> Takes]
      /\ \A r \in Takes, c \in STRING : TakeStep[<<r, c>>] = Taken(r, c)
  BY TakenOnce DEF TakeStep
<1>3. ASSUME NEW g, NEW T \in SUBSET (1..N), T # {}, g[T \ {Max(T)}] \in Takes
      PROVE  TakeStep[<<g[T \ {Max(T)}], s[Max(T)]>>] = e(g, T)
  <2>1. s[Max(T)] \in STRING
    BY <1>1, <1>3, MaxIsIn
  <2> QED BY <1>2, <1>3, <2>1
<1>4. \E g : Iter(g)
  <2>1. PICK g : FoldIs(g, TakeStep, base, s) /\ \A T \in SUBSET (1..N) : g[T] \in Takes
    BY <1>2, FoldExists
  <2> DEFINE d(T) == IF T = {} THEN base ELSE TakeStep[<<g[T \ {Max(T)}], s[Max(T)]>>]
  <2>2. ASSUME NEW T \in SUBSET (1..N) PROVE d(T) = e(g, T)
    <3>1. CASE T # {}
      <4>1. g[T \ {Max(T)}] \in Takes
        BY <2>1
      <4> QED BY <1>3, <3>1, <4>1
    <3> QED BY <3>1
  <2>3. g = [T \in SUBSET (1..N) |-> d(T)]
    BY <2>1 DEF FoldIs
  <2> HIDE DEF d, e
  <2>4. g = [T \in SUBSET (1..N) |-> e(g, T)]
    BY <2>2, <2>3
  <2> QED BY <2>4
<1> DEFINE g == CHOOSE g : Iter(g)
<1>5. Iter(g)
  BY <1>4
<1>6. Gathered(base, s) = g[1..N]
  BY <1>1 DEF Gathered, FoldLeft, MapThenFoldSet
<1> HIDE DEF g
<1>7. g[{}] = base
  <2>1. {} \in SUBSET (1..N)
    OBVIOUS
  <2> QED BY <1>5, <2>1
<1>8. ASSUME NEW T \in SUBSET (1..N), T # {}, g[T \ {Max(T)}] \in Takes
      PROVE  g[T] = TakeStep[<<g[T \ {Max(T)}], s[Max(T)]>>]
  <2>1. g[T] = e(g, T)
    BY <1>5
  <2> QED BY <1>3, <1>8, <2>1
<1>9. Folded(Takes, TakeStep, base, s, g[1..Len(s)])
  BY <1>2, <1>7, <1>8, FoldedBySets
<1> QED BY <1>6, <1>9

LEMMA GatheredBoth ==
  ASSUME NEW base \in Takes, NEW s \in Seq(STRING), NEW t \in Seq(STRING),
         NEW r \in Takes, r = Gathered(base, s)
  PROVE  Gathered(base, s \o t) = Gathered(r, t)
<1>1. s \o t \in Seq(STRING)
  BY ConcatProperties
<1>2. PICK q : q = Gathered(r, t)
  OBVIOUS
<1>3. PICK x : x = Gathered(base, s \o t)
  OBVIOUS
<1>4. /\ Folded(Takes, TakeStep, base, s, r) /\ Folded(Takes, TakeStep, r, t, q)
      /\ Folded(Takes, TakeStep, base, s \o t, x)
  BY <1>1, <1>2, <1>3, GatherFolded
<1>5. x = q
  BY <1>4, FoldedBoth
<1> QED BY <1>2, <1>3, <1>5

\* What the search of a number's end keeps.
LEMMA GatheredKeeps ==
  ASSUME NEW base \in Takes, FreshIsExp(base), NEW s \in Seq(STRING), NEW r, r = Gathered(base, s)
  PROVE  /\ r \in Takes /\ FreshIsExp(r) /\ r.resuming = base.resuming
         /\ ~base.minus /\ (s # <<>> => s[1] # "-" \/ base.taken # 0) => ~r.minus
<1>1. PICK n \in Nat : n = Len(s)
  BY LenProperties
<1>2. Folded(Takes, TakeStep, base, s, r)
  BY GatherFolded
<1> DEFINE Calm == ~base.minus /\ (s # <<>> => s[1] # "-" \/ base.taken # 0)
           Well(k, x) == /\ x \in Takes /\ FreshIsExp(x) /\ x.resuming = base.resuming
                         /\ Calm => ~x.minus
                         /\ k # 0 => x.stopped \/ x.taken # 0
                         /\ k = 0 => x = base
           P == {t \in (0..n) \X Takes \X Takes : Well(t[1], t[2])}
<1>3. <<0, base, base>> \in P
  BY <1>1
<1>4. ASSUME NEW k \in 1..Len(s), NEW x \in Takes, NEW y \in Takes, <<k - 1, x, y>> \in P
      PROVE  <<k, TakeStep[<<x, s[k]>>], TakeStep[<<y, s[k]>>]>> \in P
  <2>1. PICK c \in STRING : c = s[k]
    BY ElementOfSeq
  <2>2. PICK q, z : q = Taken(x, c) /\ z = Taken(y, c)
    OBVIOUS
  <2>3. q = TakeStep[<<x, s[k]>>] /\ z = TakeStep[<<y, s[k]>>]
    BY <2>1, <2>2 DEF TakeStep
  <2>4. Well(k - 1, x) /\ k \in 0..n /\ k # 0
    BY <1>1, <1>4
  <2>5. q \in Takes /\ z \in Takes
    BY <2>2, TakenOnce
  <2>6. FreshIsExp(q)
    BY <2>2, <2>4, FreshStaysExp
  <2>7. q.resuming = base.resuming
    <3>1. q.resuming = x.resuming
      <4>1. PICK yes, no : yes = TRUE /\ no = FALSE
        OBVIOUS
      <4> QED BY <2>2, <4>1, TakenArms
    <3> QED BY <2>4, <3>1
  <2>8. q.stopped \/ q.taken # 0
    <3>1. q.taken = x.taken + 1 \/ q.stopped
      BY <2>2, TakenOnce
    <3>2. x.taken \in Nat
      BY DEF Takes
    <3> QED BY <3>1, <3>2
  <2>9. Calm => ~q.minus
    <3>1. ASSUME Calm PROVE ~q.minus
      <4>1. ~x.minus
        BY <2>4, <3>1
      <4>2. c = "-" => x.stopped \/ x.taken # 0
        <5>1. CASE k = 1
          <6>1. s # <<>>
            BY <1>1, <5>1, EmptySeq
          <6>2. x = base
            BY <2>4, <5>1
          <6> QED BY <2>1, <3>1, <5>1, <6>1, <6>2
        <5>2. CASE k # 1
          <6>1. k - 1 # 0
            BY <1>1, <5>2
          <6> QED BY <2>4, <6>1
        <5> QED BY <5>1, <5>2
      <4> QED BY <2>2, <4>1, <4>2, MinusIsFirst
    <3> QED BY <3>1
  <2>10. Well(k, q)
    BY <2>4, <2>5, <2>6, <2>7, <2>8, <2>9
  <2> HIDE DEF Well
  <2>11. <<k, q, z>> \in P
    BY <2>4, <2>5, <2>10
  <2> QED BY <2>3, <2>11
<1>5. <<Len(s), r, r>> \in P
  <2> HIDE DEF P
  <2> QED BY <1>2, <1>3, <1>4, FoldedTogether
<1> QED BY <1>5

\* The search stopped at a sign, m bytes into d.
AtSign(x, d, m) == x.stopped /\ d[m + 1] \in {"+", "-"}

LEMMA GatheredTogether ==
  ASSUME NEW n \in Nat, n > 0, NEW x0, NEW y0, SameSearch(x0, y0, n), ~x0.stopped, NEW d \in Seq(STRING),
         NEW x, x = Gathered(x0, d), NEW y, y = Gathered(y0, d)
  PROVE  /\ x \in Takes
         /\ \/ SameSearch(x, y, n) /\ (~x.stopped => x.taken = x0.taken + Len(d))
            \/ \E m \in 0..(Len(d) - 1) : AtSign(x, d, m) /\ x.taken = x0.taken + m
<1>1. PICK l \in Nat : l = Len(d)
  BY LenProperties
<1>2. x0 \in Takes /\ y0 \in Takes /\ x0.taken \in Nat
  BY DEF SameSearch, Takes
<1>3. Folded(Takes, TakeStep, x0, d, x) /\ Folded(Takes, TakeStep, y0, d, y)
  BY <1>2, GatherFolded
<1> DEFINE Sames(k, a, b) == SameSearch(a, b, n) /\ (~a.stopped => a.taken = x0.taken + k)
           Signed(k, a) == \E m \in 0..(l - 1) : m < k /\ AtSign(a, d, m) /\ a.taken = x0.taken + m
           P == {t \in (0..l) \X Takes \X Takes : Sames(t[1], t[2], t[3]) \/ Signed(t[1], t[2])}
<1>4. <<0, x0, y0>> \in P
  BY <1>1, <1>2
<1>5. ASSUME NEW k \in 1..Len(d), NEW a \in Takes, NEW b \in Takes, <<k - 1, a, b>> \in P
      PROVE  <<k, TakeStep[<<a, d[k]>>], TakeStep[<<b, d[k]>>]>> \in P
  <2>1. PICK c \in STRING : c = d[k]
    BY ElementOfSeq
  <2>2. PICK q, z : q = Taken(a, c) /\ z = Taken(b, c)
    OBVIOUS
  <2>3. q = TakeStep[<<a, d[k]>>] /\ z = TakeStep[<<b, d[k]>>]
    BY <2>1, <2>2 DEF TakeStep
  <2>4. q \in Takes /\ z \in Takes
    BY <2>2, TakenOnce
  <2>5. PICK j \in 0..(l - 1) : j = k - 1 /\ k = j + 1 /\ k \in 0..l /\ j < k
    BY <1>1
  <2>6. Sames(j, a, b) \/ Signed(j, a)
    BY <1>5, <2>5
  <2>7. Sames(k, q, z) \/ Signed(k, q)
    <3>1. CASE Signed(j, a)
      <4>1. PICK m \in 0..(l - 1) : m < j /\ AtSign(a, d, m) /\ a.taken = x0.taken + m
        BY <3>1
      <4>2. q = a
        BY <2>2, <4>1, StoppedStays DEF AtSign
      <4>3. m < k
        BY <2>5, <4>1
      <4> QED BY <4>1, <4>2, <4>3
    <3>2. CASE Sames(j, a, b)
      <4>1. SameSearch(a, b, n)
        BY <3>2
      <4>2. CASE SameSearch(q, z, n)
        <5>1. ASSUME ~q.stopped PROVE q.taken = x0.taken + k
          <6>1. ~a.stopped /\ q.taken = a.taken + 1
            BY <2>2, <5>1, TakenOnce
          <6>2. a.taken = x0.taken + j
            BY <3>2, <6>1
          <6> QED BY <1>2, <2>5, <6>1, <6>2
        <5> QED BY <4>2, <5>1
      <4>3. CASE ~a.stopped /\ q.stopped /\ q.taken = a.taken /\ c \in {"+", "-"}
        <5>1. q.taken = x0.taken + j
          BY <3>2, <4>3
        <5>2. AtSign(q, d, j)
          BY <2>1, <2>5, <4>3 DEF AtSign
        <5> QED BY <2>5, <5>1, <5>2
      <4> QED BY <2>2, <4>1, <4>2, <4>3, SearchesAgree
    <3> HIDE DEF Sames, Signed
    <3> QED BY <2>6, <3>1, <3>2
  <2> HIDE DEF Sames, Signed
  <2>10. <<k, q, z>> \in P
    BY <2>4, <2>5, <2>7
  <2> QED BY <2>3, <2>10
<1>6. <<l, x, y>> \in P
  <2>1. <<Len(d), x, y>> \in P
    <3>1. PICK Q : Q = P
      OBVIOUS
    <3>2. <<0, x0, y0>> \in Q
      BY <1>4, <3>1
    <3> HIDE DEF P
    <3>3. \A k \in 1..Len(d) : \A a \in Takes, b \in Takes :
             <<k - 1, a, b>> \in Q => <<k, TakeStep[<<a, d[k]>>], TakeStep[<<b, d[k]>>]>> \in Q
      BY <1>5, <3>1
    <3>4. <<Len(d), x, y>> \in Q
      BY <1>3, <3>2, <3>3, FoldedTogether, SMTT(60)
    <3> QED BY <3>1, <3>4
  <2> QED BY <1>1, <2>1
<1>7. x \in Takes /\ (Sames(l, x, y) \/ Signed(l, x))
  <2> HIDE DEF Sames, Signed
  <2> QED BY <1>6
<1> QED BY <1>1, <1>7

\* The search of a number at the start, where no -Infinity is held.
NumberBase(cut) ==
    [bytes |-> cut.bytes, taken |-> 0, dot |-> cut.dot, exp |-> cut.exp, signed |-> cut.signed,
     minus |-> cut.minus, fresh |-> FALSE, stopped |-> FALSE, resuming |-> cut.type = "NUMBER"]

\* What LexNumber makes of the search's result.
MayGoOn(r, b, p) == p + r.taken = Len(b) /\ r.taken > 0 /\ OpenEnded(r, TRUE)
NumberEnds(t, r, b, p, cut) ==
    /\ MayGoOn(r, b, p) => t = Incomplete(p + r.taken, Held(r, cut))
    /\ ~MayGoOn(r, b, p) /\ ParsesNumber(r.bytes) => t = Token("NUMBER", r.bytes, p + r.taken)
    /\ ~MayGoOn(r, b, p) /\ ~ParsesNumber(r.bytes) => t = Refused("BAD_NUMBER", p, NoToken)

LEMMA NumberBaseIs ==
  ASSUME NEW cut, IsBuffer(cut), cut.type \in {"NONE", "NUMBER"}, NEW x, x = NumberBase(cut)
  PROVE  /\ x \in Takes /\ FreshIsExp(x) /\ ~x.stopped /\ x.taken = 0
         /\ x.bytes = cut.bytes /\ x.dot = cut.dot /\ x.exp = cut.exp /\ x.signed = cut.signed
         /\ x.minus = cut.minus /\ (x.resuming <=> cut.type = "NUMBER")
<1>1. /\ cut.bytes \in Seq(STRING) /\ cut.dot \in BOOLEAN /\ cut.exp \in BOOLEAN
      /\ cut.signed \in BOOLEAN /\ cut.minus \in BOOLEAN
  BY DEF IsBuffer, Buffers
<1>2. PICK no \in BOOLEAN, re \in BOOLEAN, z \in Nat : no = FALSE /\ re = (cut.type = "NUMBER") /\ z = 0
  OBVIOUS
<1>3. x = [bytes |-> cut.bytes, taken |-> z, dot |-> cut.dot, exp |-> cut.exp, signed |-> cut.signed,
           minus |-> cut.minus, fresh |-> no, stopped |-> no, resuming |-> re]
  BY <1>2 DEF NumberBase
<1>4. /\ x \in Takes /\ x.fresh = no /\ x.stopped = no /\ x.taken = z
      /\ x.bytes = cut.bytes /\ x.dot = cut.dot /\ x.exp = cut.exp /\ x.signed = cut.signed
      /\ x.minus = cut.minus /\ x.resuming = re
  BY <1>1, <1>3 DEF Takes
<1> QED BY <1>2, <1>4 DEF FreshIsExp

LEMMA NumberLexedOnce ==
  ASSUME NEW b \in Seq(STRING), NEW p \in 0..Len(b), NEW cut, IsBuffer(cut),
         cut.type \in {"NONE", "NUMBER"}, AllowNonfinite => ~cut.minus,
         NEW r, r = Gathered(NumberBase(cut), Piece(b, p, Len(b))), AllowNonfinite => ~r.minus,
         NEW t, t = LexNumber(b, p, cut, TRUE)
  PROVE  NumberEnds(t, r, b, p, cut)
<1> DEFINE resuming == cut.type = "NUMBER"
           inf  == IF resuming THEN OfInfinity(b, p, cut) ELSE 0
           base == [bytes |-> cut.bytes \o Piece(b, p, p + inf), taken |-> inf,
                    dot |-> cut.dot, exp |-> cut.exp, signed |-> cut.signed, minus |-> cut.minus,
                    fresh |-> FALSE, stopped |-> FALSE, resuming |-> resuming]
           r0   == Gathered(base, Piece(b, p + inf, Len(b)))
           Open == p + r0.taken = Len(b) /\ r0.taken > 0 /\ OpenEnded(r0, TRUE)
<1>1. t = CASE Open -> Incomplete(p + r0.taken, Held(r0, cut))
            [] ~Open /\ MaybeInfinity(r0)
                 -> Incomplete(p + r0.taken, [Held(r0, cut) EXCEPT !.bytes = IF resuming THEN @ ELSE @ \o @])
            [] OTHER -> IF ParsesNumber(r0.bytes) THEN NumberToken(r0, p + r0.taken)
                        ELSE Refused("BAD_NUMBER", p, NoToken)
  BY DEF LexNumber, Gathered
<1>2. PICK n \in Nat : n = Len(b) /\ p \in Nat /\ p <= n
  BY LenProperties
<1>3. inf = 0
  BY DEF OfInfinity
<1>4. cut.bytes \o Piece(b, p, p + 0) = cut.bytes
  <2>1. Piece(b, p, p + 0) \in Seq(STRING) /\ Copies(Piece(b, p, p + 0), b, p, 0)
    <3>1. 0 \in Nat /\ p + 0 \in Nat /\ p + 0 <= Len(b)
      BY <1>2
    <3> QED BY <1>2, <3>1, PieceTo
  <2>2. Piece(b, p, p + 0) = <<>>
    BY <2>1, EmptySeq DEF Copies
  <2>3. cut.bytes \in Seq(STRING)
    BY DEF IsBuffer, Buffers
  <2>4. cut.bytes \o <<>> = cut.bytes
    BY <2>3, ConcatEmptySeq
  <2> QED BY <2>2, <2>4
<1>5. p + 0 = p
  BY <1>2
<1>6. base = NumberBase(cut)
  <2> HIDE DEF inf
  <2> QED BY <1>3, <1>4 DEF NumberBase
<1>7. r0 = r
  <2> HIDE DEF inf, base
  <2> QED BY <1>3, <1>5, <1>6
<1> HIDE DEF r0, resuming
<1>8. ~MaybeInfinity(r)
  BY DEF MaybeInfinity
<1>9. Open <=> MayGoOn(r, b, p)
  BY <1>7 DEF MayGoOn
<1>10. CASE MayGoOn(r, b, p)
  <2>1. t = Incomplete(p + r.taken, Held(r, cut))
    BY <1>1, <1>7, <1>9, <1>10
  <2> QED BY <1>10, <2>1 DEF NumberEnds
<1>11. CASE ~MayGoOn(r, b, p)
  <2>1. t = IF ParsesNumber(r.bytes) THEN NumberToken(r, p + r.taken)
            ELSE Refused("BAD_NUMBER", p, NoToken)
    BY <1>1, <1>7, <1>8, <1>9, <1>11
  <2> QED BY <1>11, <2>1 DEF NumberEnds, NumberToken
<1> QED BY <1>10, <1>11

SameMarks(q, r) == /\ q.bytes = r.bytes /\ q.dot = r.dot /\ q.exp = r.exp
                   /\ q.signed = r.signed /\ q.minus = r.minus

LEMMA HeldMarks ==
  ASSUME NEW r \in Takes, NEW cut, IsBuffer(cut), NEW h, h = Held(r, cut)
  PROVE  /\ h.type = "NUMBER" /\ h.bytes = r.bytes /\ h.dot = r.dot /\ h.exp = r.exp
         /\ h.signed = r.signed /\ h.minus = r.minus
         /\ \A q \in Takes : SameMarks(q, r) => Held(q, cut) = h
         /\ \A q \in Takes : Held(q, h) = Held(q, cut)
<1>1. cut \in Buffers
  BY DEF IsBuffer
<1>2. /\ r.bytes \in Seq(STRING) /\ r.dot \in BOOLEAN /\ r.exp \in BOOLEAN
      /\ r.signed \in BOOLEAN /\ r.minus \in BOOLEAN
  BY DEF Takes
<1>3. ASSUME NEW q \in Takes, NEW k \in Buffers, NEW g, g = Held(q, k)
      PROVE  /\ g \in Buffers /\ g.type = "NUMBER" /\ g.bytes = q.bytes /\ g.dot = q.dot /\ g.exp = q.exp
             /\ g.signed = q.signed /\ g.minus = q.minus
             /\ g.inEscape = k.inEscape /\ g.hexLeft = k.hexLeft
  <2>1. /\ q.bytes \in Seq(STRING) /\ q.dot \in BOOLEAN /\ q.exp \in BOOLEAN
        /\ q.signed \in BOOLEAN /\ q.minus \in BOOLEAN
    BY DEF Takes
  <2> QED BY <1>3, <2>1 DEF Held, Buffers
<1>4. ASSUME NEW g \in Buffers, NEW k \in Buffers, g.type = k.type, g.bytes = k.bytes, g.dot = k.dot,
             g.exp = k.exp, g.signed = k.signed, g.minus = k.minus, g.inEscape = k.inEscape,
             g.hexLeft = k.hexLeft
      PROVE  g = k
  BY <1>4 DEF Buffers
<1>5. /\ h \in Buffers /\ h.type = "NUMBER" /\ h.bytes = r.bytes /\ h.dot = r.dot /\ h.exp = r.exp
      /\ h.signed = r.signed /\ h.minus = r.minus
      /\ h.inEscape = cut.inEscape /\ h.hexLeft = cut.hexLeft
  BY <1>1, <1>3
<1>6. ASSUME NEW q \in Takes PROVE Held(q, h) = Held(q, cut)
  <2>1. PICK g, k : g = Held(q, h) /\ k = Held(q, cut)
    OBVIOUS
  <2>2. /\ g \in Buffers /\ g.type = "NUMBER" /\ g.bytes = q.bytes /\ g.dot = q.dot /\ g.exp = q.exp
        /\ g.signed = q.signed /\ g.minus = q.minus /\ g.inEscape = h.inEscape /\ g.hexLeft = h.hexLeft
    BY <1>3, <1>5, <2>1
  <2>3. /\ k \in Buffers /\ k.type = "NUMBER" /\ k.bytes = q.bytes /\ k.dot = q.dot /\ k.exp = q.exp
        /\ k.signed = q.signed /\ k.minus = q.minus /\ k.inEscape = cut.inEscape /\ k.hexLeft = cut.hexLeft
    BY <1>1, <1>3, <2>1
  <2>4. g = k
    BY <1>4, <1>5, <2>2, <2>3
  <2> QED BY <2>1, <2>4
<1>7. ASSUME NEW q \in Takes, SameMarks(q, r) PROVE Held(q, cut) = h
  <2>1. PICK k : k = Held(q, cut)
    OBVIOUS
  <2>2. /\ k \in Buffers /\ k.type = "NUMBER" /\ k.bytes = q.bytes /\ k.dot = q.dot /\ k.exp = q.exp
        /\ k.signed = q.signed /\ k.minus = q.minus /\ k.inEscape = cut.inEscape /\ k.hexLeft = cut.hexLeft
    BY <1>1, <1>3, <2>1
  <2>3. k = h
    BY <1>4, <1>5, <1>7, <2>2 DEF SameMarks
  <2> QED BY <2>1, <2>3
<1> QED BY <1>5, <1>6, <1>7, Zenon

LEMMA NumberEndsAre ==
  ASSUME NEW t, NEW r, NEW b, NEW p, NEW cut, NumberEnds(t, r, b, p, cut)
  PROVE  /\ MayGoOn(r, b, p) => t.status = "INCOMPLETE" /\ t.at = p + r.taken /\ t.tb = Held(r, cut)
         /\ ~MayGoOn(r, b, p) /\ ParsesNumber(r.bytes) => t.status = "OK" /\ t.at = p + r.taken
         /\ ~MayGoOn(r, b, p) /\ ~ParsesNumber(r.bytes) => t.status = "BAD_NUMBER"
<1>1. ASSUME MayGoOn(r, b, p)
      PROVE  t.status = "INCOMPLETE" /\ t.at = p + r.taken /\ t.tb = Held(r, cut)
  <2>1. t = Incomplete(p + r.taken, Held(r, cut))
    BY <1>1 DEF NumberEnds
  <2> QED BY <2>1 DEF Incomplete, Refused
<1>2. ASSUME ~MayGoOn(r, b, p), ParsesNumber(r.bytes) PROVE t.status = "OK" /\ t.at = p + r.taken
  <2>1. t = Token("NUMBER", r.bytes, p + r.taken)
    BY <1>2 DEF NumberEnds
  <2> QED BY <2>1 DEF Token
<1>3. ASSUME ~MayGoOn(r, b, p), ~ParsesNumber(r.bytes) PROVE t.status = "BAD_NUMBER"
  <2>1. t = Refused("BAD_NUMBER", p, NoToken)
    BY <1>3 DEF NumberEnds
  <2> QED BY <2>1 DEF Refused
<1> QED BY <1>1, <1>2, <1>3

\* json_lexer_parse_number: a number that a chunk cuts is in the next chunk the
\* number, or the unfinished number, that the two chunks at once would have given;
\* where -Infinity is allowed only a number without a minus, and only where no
\* sign follows the number, which the loop takes for the exponent's.
THEOREM CutNumbersAreWhole ==
  ASSUME NEW c \in Seq(STRING), NEW d \in Seq(STRING), NEW p \in 0..Len(c), NEW cut, IsBuffer(cut),
         cut.type \in {"NONE", "NUMBER"},
         AllowNonfinite => ~cut.minus /\ (p < Len(c) => At(c, p) # "-"),
         NEW held, held = LexNumber(c, p, cut, TRUE), held.status = "INCOMPLETE",
         NEW whole, whole = LexNumber(c \o d, p, cut, TRUE),
         whole.status = "OK" \/ (whole.status = "INCOMPLETE" /\ d # <<>>),
         whole.at < Len(c \o d) => At(c \o d, whole.at) \notin {"+", "-"}
  PROVE  SameToken(LexNumber(d, 0, held.tb, TRUE), whole, Len(c))
<1>1. PICK n \in Nat, l \in Nat : n = Len(c) /\ l = Len(d) /\ p \in Nat /\ p <= n
  BY LenProperties
<1>2. PICK base : base = NumberBase(cut)
  OBVIOUS
<1>3. /\ base \in Takes /\ FreshIsExp(base) /\ ~base.stopped /\ base.taken = 0
      /\ base.minus = cut.minus
  BY <1>2, NumberBaseIs
<1>4. PICK s \in Seq(STRING) : s = Piece(c, p, Len(c)) /\ Len(s) = n - p
  BY <1>1, PieceOfBoth
<1>5. PICK b \in Seq(STRING) : b = c \o d /\ Len(b) = n + l
  BY <1>1, PieceOfBoth
<1>6. p \in 0..Len(b)
  BY <1>1, <1>5
<1>7. Piece(b, p, Len(b)) = s \o d
  BY <1>4, <1>5, PieceOfBoth
<1>8. PICK r : r = Gathered(base, s)
  OBVIOUS
<1>9. PICK x : x = Gathered(r, d)
  OBVIOUS
<1>10. s # <<>> => s[1] = At(c, p) /\ p < n
  <2>1. CASE p < n
    <3>1. p \in Nat /\ n \in Nat /\ n = p + (n - p) /\ n <= Len(c) /\ n - p \in Nat /\ 1 \in 1..(n - p)
      BY <1>1, <2>1
    <3>2. Copies(Piece(c, p, n), c, p, n - p)
      BY <1>1, <3>1, PieceTo
    <3>3. s[1] = c[p + 1]
      BY <1>1, <1>4, <3>1, <3>2 DEF Copies
    <3> QED BY <2>1, <3>3 DEF At
  <2>2. CASE ~(p < n)
    <3>1. Len(s) = 0
      BY <1>1, <1>4, <2>2
    <3> QED BY <3>1, EmptySeq
  <2> QED BY <2>1, <2>2
<1>11. r \in Takes /\ FreshIsExp(r) /\ (AllowNonfinite => ~r.minus)
  <2>1. AllowNonfinite => ~base.minus /\ (s # <<>> => s[1] # "-" \/ base.taken # 0)
    BY <1>1, <1>3, <1>10
  <2> QED BY <1>3, <1>8, <2>1, GatheredKeeps
<1>12. NumberEnds(held, r, c, p, cut)
  BY <1>2, <1>4, <1>8, <1>11, NumberLexedOnce
<1>13. MayGoOn(r, c, p) /\ held.tb = Held(r, cut)
  BY <1>12, NumberEndsAre
<1>14. r.taken \in Nat /\ r.taken > 0 /\ p + r.taken = n /\ OpenEnded(r, TRUE)
  BY <1>1, <1>11, <1>13 DEF MayGoOn, Takes
<1>15. ~r.stopped
  <2>1. TakenFrom(r, base, s, Len(s))
    BY <1>3, <1>8, TakenAll
  <2>2. PICK m \in 0..Len(s) : r.taken = base.taken + m /\ (r.stopped => m < Len(s))
    BY <2>1 DEF TakenFrom
  <2>3. m = n - p
    BY <1>1, <1>3, <1>4, <1>14, <2>2
  <2>4. ~(m < Len(s))
    BY <1>1, <1>4, <2>3
  <2> QED BY <2>2, <2>4
<1>16. r.bytes # <<>>
  <2>1. Ends(<<>>, {".", "e", "+"}) = FALSE /\ Ends(<<>>, {"-"}) = FALSE /\ Ends(<<>>, Digits) = FALSE
    BY DEF Ends
  <2>2. <<>> # <<"-">>
    OBVIOUS
  <2> QED BY <1>14, <2>1, <2>2 DEF OpenEnded
<1>17. PICK kept : kept = held.tb
  OBVIOUS
<1>18. kept = Held(r, cut) /\ IsBuffer(kept) /\ kept.type = "NUMBER"
  BY <1>11, <1>13, <1>16, <1>17, HeldIsBuffer
<1>19. PICK y0 : y0 = NumberBase(kept)
  OBVIOUS
<1>20. SameSearch(r, y0, r.taken)
  <2>1. /\ kept.bytes = r.bytes /\ kept.dot = r.dot /\ kept.exp = r.exp
        /\ kept.signed = r.signed /\ kept.minus = r.minus
    BY <1>11, <1>18, HeldMarks
  <2>2. /\ y0 \in Takes /\ ~y0.stopped /\ y0.taken = 0 /\ y0.resuming
        /\ y0.bytes = kept.bytes /\ y0.dot = kept.dot /\ y0.exp = kept.exp /\ y0.signed = kept.signed
        /\ y0.minus = kept.minus
    BY <1>18, <1>19, NumberBaseIs
  <2>3. r.stopped = y0.stopped
    <3>1. r.stopped \in BOOLEAN /\ y0.stopped \in BOOLEAN
      BY <1>11, <2>2 DEF Takes
    <3> QED BY <1>15, <2>2, <3>1
  <2>4. r.taken = r.taken + y0.taken
    BY <1>14, <2>2
  <2> QED BY <1>11, <2>1, <2>2, <2>3, <2>4 DEF SameSearch
<1>21. PICK y : y = Gathered(y0, d)
  OBVIOUS
<1>22. /\ x \in Takes
       /\ \/ SameSearch(x, y, r.taken) /\ (~x.stopped => x.taken = r.taken + Len(d))
          \/ \E m \in 0..(Len(d) - 1) : AtSign(x, d, m) /\ x.taken = r.taken + m
  BY <1>9, <1>14, <1>15, <1>20, <1>21, GatheredTogether
<1>23. AllowNonfinite => ~x.minus
  <2>1. r.taken # 0
    BY <1>14
  <2> QED BY <1>9, <1>11, <2>1, GatheredKeeps
<1>24. NumberEnds(whole, x, b, p, cut)
  <2>1. x = Gathered(base, s \o d)
    BY <1>3, <1>8, <1>9, <1>11, GatheredBoth
  <2> QED BY <1>2, <1>5, <1>6, <1>7, <1>23, <2>1, NumberLexedOnce
<1>25. whole.at = p + x.taken
  BY <1>24, NumberEndsAre
<1>26. x.taken \in Nat
  BY <1>22 DEF Takes
<1>27. SameSearch(x, y, r.taken)
  <2>1. ASSUME NEW m \in 0..(Len(d) - 1), AtSign(x, d, m), x.taken = r.taken + m PROVE FALSE
    <3>1. m \in Nat /\ m < l /\ m + 1 \in 1..l
      BY <1>1
    <3>2. whole.at = n + m /\ whole.at < Len(b)
      <4>1. PICK t \in Nat : t = r.taken /\ p + t = n
        BY <1>14
      <4>2. whole.at = p + (t + m)
        BY <1>25, <2>1, <4>1, Zenon
      <4>3. p + (t + m) = (p + t) + m
        BY <1>1, <3>1, <4>1, SMTT(30)
      <4>4. n + m < n + l
        BY <1>1, <3>1, SMTT(30)
      <4> QED BY <1>5, <4>1, <4>2, <4>3, <4>4, Zenon
    <3>3. At(b, whole.at) = d[m + 1]
      <4>1. PICK k \in Nat : k = n + (m + 1) /\ k = (n + m) + 1 /\ ~(k <= n) /\ k - n = m + 1 /\ k \in 1..(n + l)
        <5>1. n + (m + 1) \in Nat /\ n + (m + 1) = (n + m) + 1 /\ ~(n + (m + 1) <= n)
          BY <1>1, <3>1
        <5>2. (n + (m + 1)) - n = m + 1 /\ n + (m + 1) \in 1..(n + l)
          BY <1>1, <3>1
        <5> QED BY <5>1, <5>2
      <4>2. \A i \in 1..(Len(c) + Len(d)) : (c \o d)[i] = IF i <= Len(c) THEN c[i] ELSE d[i - Len(c)]
        BY ConcatProperties
      <4>3. b[k] = d[m + 1]
        BY <1>1, <1>5, <4>1, <4>2
      <4> QED BY <3>2, <4>1, <4>3 DEF At
    <3> QED BY <1>5, <2>1, <3>2, <3>3 DEF AtSign
  <2> QED BY <1>22, <2>1
<1>28. PICK rest : rest = LexNumber(d, 0, kept, TRUE)
  OBVIOUS
<1>29. y \in Takes /\ y.taken \in Nat /\ x.taken = r.taken + y.taken /\ y.bytes = x.bytes /\ y.exp = x.exp
       /\ y.dot = x.dot /\ y.signed = x.signed /\ y.minus = x.minus
  BY <1>27 DEF SameSearch, Takes
<1>30. NumberEnds(rest, y, d, 0, kept)
  <2>1. 0 \in 0..Len(d) /\ 0 \in 0..Len(c)
    BY <1>1
  <2>2. Piece(d, 0, Len(d)) = d
    BY <2>1, PieceOfBoth
  <2>3. AllowNonfinite => ~kept.minus
    BY <1>11, <1>18, HeldMarks
  <2>4. AllowNonfinite => ~y.minus
    BY <1>23, <1>29
  <2> QED BY <1>18, <1>19, <1>21, <1>28, <2>1, <2>2, <2>3, <2>4, NumberLexedOnce
<1>31. p + x.taken = n + (0 + y.taken)
  BY <1>1, <1>14, <1>29
<1>32. OpenEnded(x, TRUE) <=> OpenEnded(y, TRUE)
  BY <1>29 DEF OpenEnded
<1>33. CASE MayGoOn(x, b, p)
  <2>1. whole = Incomplete(p + x.taken, Held(x, cut))
    BY <1>24, <1>33 DEF NumberEnds
  <2>2. d # <<>>
    BY <1>24, <1>33, NumberEndsAre
  <2>3. l # 0
    BY <1>1, <2>2, EmptySeq
  <2>4. 0 + y.taken = l /\ y.taken > 0
    BY <1>1, <1>5, <1>29, <1>31, <1>33, <2>3 DEF MayGoOn
  <2>5. MayGoOn(y, d, 0)
    BY <1>1, <1>32, <1>33, <2>4 DEF MayGoOn
  <2>6. rest = Incomplete(0 + y.taken, Held(y, kept))
    BY <1>30, <2>5 DEF NumberEnds
  <2>7. Held(y, kept) = Held(x, cut)
    <3>1. Held(y, kept) = Held(y, cut)
      BY <1>11, <1>18, <1>29, HeldMarks
    <3>2. Held(y, cut) = Held(x, cut)
      BY <1>22, <1>29, HeldMarks DEF SameMarks
    <3> QED BY <3>1, <3>2
  <2>8. SameToken(Incomplete(0 + y.taken, Held(x, cut)), Incomplete(p + x.taken, Held(x, cut)), n)
    BY <1>31, SameIncomplete
  <2> QED BY <1>1, <1>17, <1>28, <2>1, <2>6, <2>7, <2>8
<1>34. CASE ~MayGoOn(x, b, p)
  <2>1. whole = Token("NUMBER", x.bytes, p + x.taken) /\ ParsesNumber(x.bytes)
    <3>1. ParsesNumber(x.bytes)
      BY <1>24, <1>34, NumberEndsAre
    <3> QED BY <1>24, <1>34, <3>1 DEF NumberEnds
  <2>2. ~MayGoOn(y, d, 0)
    <3>1. ASSUME MayGoOn(y, d, 0) PROVE MayGoOn(x, b, p)
      <4>1. p + x.taken = Len(b)
        BY <1>1, <1>5, <1>31, <3>1 DEF MayGoOn
      <4>2. x.taken > 0
        BY <1>14, <1>29
      <4> QED BY <1>32, <3>1, <4>1, <4>2 DEF MayGoOn
    <3> QED BY <1>34, <3>1
  <2>3. rest = Token("NUMBER", x.bytes, 0 + y.taken)
    BY <1>29, <1>30, <2>1, <2>2 DEF NumberEnds
  <2>4. SameToken(Token("NUMBER", x.bytes, 0 + y.taken), Token("NUMBER", x.bytes, p + x.taken), n)
    BY <1>31, SameComplete
  <2> QED BY <1>1, <1>17, <1>28, <2>1, <2>3, <2>4
<1> QED BY <1>33, <1>34
=============================================================================

------------------------ MODULE SpecializationProofs ------------------------
(***************************************************************************)
(* Proofs about the cache of specializations, for any lambdas, types and   *)
(* bodies.  The invariant is a predicate on the stack, the emitted         *)
(* functions, the cache and the counters, as one step of the code may do   *)
(* several things to the stack: there is a lemma for each of them.         *)
(***************************************************************************)
EXTENDS Specialization, SequenceTheorems, FiniteSetTheorems, TLAPS

Functions == [symbol : Symbols, key : Keys \cup {<<>>}, calls : SUBSET Symbols]

(* x is the symbol of a function that is emitted or being lowered; the     *)
(* bottom of the stack is a statement.                                     *)
IsMade(x, stack, fs) ==
  \/ \E i \in DOMAIN fs : fs[i].symbol = x
  \/ \E i \in DOMAIN stack : i # 1 /\ stack[i].symbol = x

(* Numbers of symbols come from the counters. *)
Counted(x, count, cl) ==
  \/ x.kind \in {"spec", "partial"} /\ x.n < count
  \/ x.kind = "closure" /\ x.n < cl

(* Specializations are those that have a key, under which they are cached. *)
Cached(b, cache) ==
  /\ b.key = <<>> <=> b.symbol.kind # "spec"
  /\ b.key # <<>> => b.key \in DOMAIN cache /\ cache[b.key] = b.symbol

Shape(stack, fs, cache, count, cl) ==
  /\ stack \in Seq(Frames) /\ fs \in Seq(Functions)
  /\ count \in Nat /\ cl \in Nat
  /\ DOMAIN cache \subseteq Keys
  /\ \A k \in DOMAIN cache : cache[k] \in Symbols /\ cache[k].kind = "spec"
  /\ stack # <<>> => stack[1].symbol = Main /\ stack[1].key = <<>>

(* Every function is one of the cache's, or has a number of its own. *)
Bodies(stack, fs, cache, count, cl) ==
  /\ \A i \in DOMAIN fs : Counted(fs[i].symbol, count, cl) /\ Cached(fs[i], cache)
  /\ \A i \in DOMAIN stack :
       i # 1 => Counted(stack[i].symbol, count, cl) /\ Cached(stack[i], cache)

Distinct(stack, fs) ==
  /\ \A i, j \in DOMAIN fs : fs[i].symbol = fs[j].symbol => i = j
  /\ \A i, j \in DOMAIN stack : stack[i].symbol = stack[j].symbol => i = j
  /\ \A i \in DOMAIN fs, j \in DOMAIN stack : fs[i].symbol # stack[j].symbol

(* Every symbol that the cache holds or that is called has its function. *)
Linked(stack, fs, cache, calls) ==
  /\ \A k \in DOMAIN cache : IsMade(cache[k], stack, fs)
  /\ \A k, l \in DOMAIN cache : cache[k] = cache[l] => k = l
  /\ \A i \in DOMAIN fs : \A x \in fs[i].calls : IsMade(x, stack, fs)
  /\ \A i \in DOMAIN stack : \A x \in stack[i].calls : IsMade(x, stack, fs)
  /\ \A x \in calls : IsMade(x, stack, fs)

Good(stack, fs, cache, count, cl, calls) ==
  /\ Shape(stack, fs, cache, count, cl)
  /\ Bodies(stack, fs, cache, count, cl)
  /\ Distinct(stack, fs)
  /\ Linked(stack, fs, cache, calls)

Others ==
  /\ abstractions \subseteq Lambdas
  /\ let_counter \in 0 .. MaxLets
  /\ entry \in SUBSET Symbols
  /\ statements \in Nat
  /\ status \in {"lowering", "failed", "lowered"}

IInv ==
  /\ Others
  /\ Good(pending, functions, specializations, spec_counter, closures, entry)
  /\ status = "lowered" => pending = <<>>

-----------------------------------------------------------------------------
(* The parts of a key; no key is the empty sequence. *)
LEMMA KeyParts ==
  ASSUME NEW key \in Keys
  PROVE  key[1] \in Lambdas /\ key # <<>>
<1>1. PICK x \in Lambdas, t \in Types, c \in Captures : key = <<x, t, c>>
  BY DEF Keys
<1> QED BY <1>1

(* A frame whose symbol, calls and remainder fit is a frame. *)
LEMMA FrameType ==
  ASSUME NEW symbol \in Symbols, NEW key \in Keys \cup {<<>>}, NEW purpose \in Purposes,
         NEW calls \in SUBSET Symbols, NEW left \in Nat
  PROVE  /\ Frame(symbol, key, purpose, calls, left) \in Frames
         /\ Frame(symbol, key, purpose, calls, left).symbol = symbol
         /\ Frame(symbol, key, purpose, calls, left).key = key
         /\ Frame(symbol, key, purpose, calls, left).calls = calls
         /\ Frame(symbol, key, purpose, calls, left).left = left
  BY DEF Frame, Frames

(* Symbols are symbols. *)
LEMMA SymbolType ==
  ASSUME NEW kind \in {"main", "spec", "partial", "closure"},
         NEW x \in Lambdas \cup {Anonymous}, NEW n \in Nat
  PROVE  /\ Symbol(kind, x, n) \in Symbols
         /\ Symbol(kind, x, n).kind = kind
         /\ Symbol(kind, x, n).n = n
         /\ Symbol(kind, x, n).of = x
  BY DEF Symbol, Symbols

(* Taking steps off the function on top changes how much is left of it. *)
LEMMA ShortenedStack ==
  ASSUME NEW stack \in Seq(Frames), stack # <<>>, NEW n \in 0 .. stack[Len(stack)].left
  PROVE  /\ Shortened(stack, n) \in Seq(Frames)
         /\ Shortened(stack, n) # <<>>
         /\ Len(Shortened(stack, n)) = Len(stack)
         /\ Shortened(stack, n)[Len(stack)].left = stack[Len(stack)].left - n
         /\ \A i \in DOMAIN stack :
              /\ Shortened(stack, n)[i].symbol = stack[i].symbol
              /\ Shortened(stack, n)[i].key = stack[i].key
              /\ Shortened(stack, n)[i].calls = stack[i].calls
<1> DEFINE k == Len(stack)
           top == [stack[k] EXCEPT !.left = @ - n]
<1>1. k \in DOMAIN stack /\ k \in Nat /\ DOMAIN stack = 1 .. k
  OBVIOUS
<1>2. stack[k] \in Frames
  BY <1>1
<1>3. /\ top \in Frames /\ top.symbol = stack[k].symbol /\ top.key = stack[k].key
      /\ top.calls = stack[k].calls /\ top.left = stack[k].left - n
  BY <1>2 DEF Frames
<1>4. Shortened(stack, n) = [stack EXCEPT ![k] = top]
  BY DEF Shortened
<1> HIDE DEF top
<1>5. Shortened(stack, n) \in Seq(Frames) /\ Len(Shortened(stack, n)) = k
  BY <1>1, <1>3, <1>4
<1> QED BY <1>1, <1>3, <1>4, <1>5

(* A call is added to the function on top. *)
LEMMA CallingStack ==
  ASSUME NEW stack \in Seq(Frames), stack # <<>>, NEW symbol \in Symbols
  PROVE  /\ Calling(stack, symbol) \in Seq(Frames)
         /\ Len(Calling(stack, symbol)) = Len(stack)
         /\ \A i \in DOMAIN stack :
              /\ Calling(stack, symbol)[i].symbol = stack[i].symbol
              /\ Calling(stack, symbol)[i].key = stack[i].key
              /\ Calling(stack, symbol)[i].calls \subseteq stack[i].calls \cup {symbol}
<1> DEFINE k == Len(stack)
           top == [stack[k] EXCEPT !.calls = @ \cup {symbol}]
<1>1. k \in DOMAIN stack /\ k \in Nat /\ DOMAIN stack = 1 .. k
  OBVIOUS
<1>2. stack[k] \in Frames
  BY <1>1
<1>3. /\ top \in Frames /\ top.symbol = stack[k].symbol /\ top.key = stack[k].key
      /\ top.calls = stack[k].calls \cup {symbol}
  BY <1>2 DEF Frames
<1>4. Calling(stack, symbol) = [stack EXCEPT ![k] = top]
  BY DEF Calling
<1> HIDE DEF top
<1>5. Calling(stack, symbol) \in Seq(Frames) /\ Len(Calling(stack, symbol)) = k
  BY <1>1, <1>3, <1>4
<1> QED BY <1>1, <1>3, <1>4, <1>5

-----------------------------------------------------------------------------
(* What preserves the invariant: fewer steps left, *)
LEMMA GoodShortened ==
  ASSUME NEW stack, NEW fs, NEW cache, NEW count, NEW cl, NEW calls,
         Good(stack, fs, cache, count, cl, calls),
         stack # <<>>, NEW n \in 0 .. stack[Len(stack)].left
  PROVE  Good(Shortened(stack, n), fs, cache, count, cl, calls)
<1> DEFINE s == Shortened(stack, n)
<1>1. stack \in Seq(Frames)
  BY DEF Good, Shape
<1>2. /\ s \in Seq(Frames) /\ Len(s) = Len(stack)
      /\ \A i \in DOMAIN stack :
           s[i].symbol = stack[i].symbol /\ s[i].key = stack[i].key /\ s[i].calls = stack[i].calls
  BY <1>1, ShortenedStack
<1>3. DOMAIN s = DOMAIN stack /\ 1 \in DOMAIN stack
  BY <1>1, <1>2
<1> HIDE DEF s
<1>4. \A x : IsMade(x, stack, fs) <=> IsMade(x, s, fs)
  BY <1>2, <1>3 DEF IsMade
<1>5. Shape(s, fs, cache, count, cl)
  BY <1>1, <1>2, <1>3 DEF Good, Shape
<1>6. Bodies(s, fs, cache, count, cl)
  BY <1>2, <1>3 DEF Good, Bodies, Cached
<1>7. Distinct(s, fs)
  BY <1>2, <1>3 DEF Good, Distinct
<1>8. Linked(s, fs, cache, calls)
  BY <1>2, <1>3, <1>4 DEF Good, Linked
<1> QED BY <1>5, <1>6, <1>7, <1>8 DEF Good, s

(* a call of a function that is made, *)
LEMMA GoodCalling ==
  ASSUME NEW stack, NEW fs, NEW cache, NEW count, NEW cl, NEW calls,
         Good(stack, fs, cache, count, cl, calls),
         stack # <<>>, NEW symbol \in Symbols, IsMade(symbol, stack, fs)
  PROVE  Good(Calling(stack, symbol), fs, cache, count, cl, calls)
<1> DEFINE s == Calling(stack, symbol)
<1>1. stack \in Seq(Frames)
  BY DEF Good, Shape
<1>2. /\ s \in Seq(Frames) /\ Len(s) = Len(stack)
      /\ \A i \in DOMAIN stack : /\ s[i].symbol = stack[i].symbol /\ s[i].key = stack[i].key
                                 /\ s[i].calls \subseteq stack[i].calls \cup {symbol}
  BY <1>1, CallingStack
<1>3. DOMAIN s = DOMAIN stack /\ 1 \in DOMAIN stack
  BY <1>1, <1>2
<1> HIDE DEF s
<1>4. \A x : IsMade(x, stack, fs) <=> IsMade(x, s, fs)
  BY <1>2, <1>3 DEF IsMade
<1>5. Shape(s, fs, cache, count, cl)
  BY <1>1, <1>2, <1>3 DEF Good, Shape
<1>6. Bodies(s, fs, cache, count, cl)
  BY <1>2, <1>3 DEF Good, Bodies, Cached
<1>7. Distinct(s, fs)
  BY <1>2, <1>3 DEF Good, Distinct
<1>8. Linked(s, fs, cache, calls)
  BY <1>2, <1>3, <1>4 DEF Good, Linked
<1> QED BY <1>5, <1>6, <1>7, <1>8 DEF Good, s

(* a new function, of a number not yet given, which may be a new instance, *)
LEMMA GoodPush ==
  ASSUME NEW stack, NEW fs, NEW cache, NEW count, NEW cl, NEW calls,
         Good(stack, fs, cache, count, cl, calls), stack # <<>>,
         NEW b \in Frames, NEW known, NEW count2 \in Nat, NEW cl2 \in Nat,
         count <= count2, cl <= cl2,
         Counted(b.symbol, count2, cl2), ~ Counted(b.symbol, count, cl), Cached(b, known),
         \A x \in b.calls : IsMade(x, stack, fs),
         b.key \notin DOMAIN cache,
         DOMAIN known = DOMAIN cache \cup ({b.key} \ {<<>>}),
         \A k \in DOMAIN cache : known[k] = cache[k]
  PROVE  Good(Append(stack, b), fs, known, count2, cl2, calls)
<1> DEFINE s == Append(stack, b)
           m == Len(stack)
<1>1. stack \in Seq(Frames) /\ m \in Nat /\ m > 0 /\ DOMAIN stack = 1 .. m
  BY DEF Good, Shape
<1>2. /\ s \in Seq(Frames) /\ DOMAIN s = 1 .. (m + 1)
      /\ s[m + 1] = b /\ \A i \in 1 .. m : s[i] = stack[i]
  BY <1>1
<1> HIDE DEF s, m
<1>3. \A x : IsMade(x, stack, fs) => IsMade(x, s, fs)
  BY <1>1, <1>2 DEF IsMade
<1>4. IsMade(b.symbol, s, fs)
  BY <1>1, <1>2 DEF IsMade
<1>5. b.key \in Keys \cup {<<>>} /\ b.symbol \in Symbols
  BY DEF Frames
<1>6. Shape(s, fs, known, count2, cl2)
  <2>1. \A k \in DOMAIN known : known[k] \in Symbols /\ known[k].kind = "spec"
    BY <1>5 DEF Good, Shape, Cached
  <2>2. DOMAIN known \subseteq Keys
    BY <1>5 DEF Good, Shape
  <2>3. s # <<>> => s[1].symbol = Main /\ s[1].key = <<>>
    BY <1>1, <1>2 DEF Good, Shape
  <2> QED BY <1>2, <2>1, <2>2, <2>3 DEF Good, Shape
<1>7. Bodies(s, fs, known, count2, cl2)
  <2>1. \A x : Counted(x, count, cl) /\ x \in Symbols => Counted(x, count2, cl2)
    BY DEF Good, Shape, Counted, Symbols
  <2>2. \A f : Cached(f, cache) => Cached(f, known)
    BY DEF Cached
  <2>3. \A i \in DOMAIN fs : fs[i].symbol \in Symbols
    <3>1. fs \in Seq(Functions)
      BY DEF Good, Shape
    <3>2. \A i \in DOMAIN fs : fs[i] \in Functions
      BY <3>1
    <3> QED BY <3>2 DEF Functions
  <2>4. \A i \in DOMAIN stack : stack[i].symbol \in Symbols
    <3>1. \A i \in DOMAIN stack : stack[i] \in Frames
      BY <1>1
    <3> QED BY <3>1 DEF Frames
  <2> QED BY <1>1, <1>2, <2>1, <2>2, <2>3, <2>4 DEF Good, Bodies
<1>8. Distinct(s, fs)
  <2>1. \A i \in DOMAIN stack : stack[i].symbol # b.symbol
    <3>1. Main # b.symbol
      BY DEF Main, Symbol, Counted
    <3>2. \A i \in DOMAIN stack : i # 1 => stack[i].symbol # b.symbol
      BY DEF Good, Bodies
    <3> QED BY <1>1, <3>1, <3>2 DEF Good, Shape
  <2>2. \A i \in DOMAIN fs : fs[i].symbol # b.symbol
    BY DEF Good, Bodies
  <2> QED BY <1>1, <1>2, <2>1, <2>2 DEF Good, Distinct
<1>9. Linked(s, fs, known, calls)
  <2>1. \A k \in DOMAIN known : IsMade(known[k], s, fs)
    BY <1>3, <1>4 DEF Good, Linked, Cached
  <2>2. \A k \in DOMAIN cache : cache[k] # b.symbol
    BY DEF Good, Linked, Bodies, IsMade
  <2>3. \A k, l \in DOMAIN known : known[k] = known[l] => k = l
    BY <2>2 DEF Good, Linked, Cached
  <2>4. \A i \in DOMAIN s : \A x \in s[i].calls : IsMade(x, s, fs)
    BY <1>1, <1>2, <1>3 DEF Good, Linked
  <2> QED BY <1>3, <2>1, <2>3, <2>4 DEF Good, Linked
<1> QED BY <1>6, <1>7, <1>8, <1>9 DEF Good, s

(* and the end of the function on top, which is then emitted. *)
Finished(stack) ==
  [symbol |-> stack[Len(stack)].symbol, key |-> stack[Len(stack)].key, calls |-> stack[Len(stack)].calls]
Below(stack) == SubSeq(stack, 1, Len(stack) - 1)

(* The innermost function is complete: it moves from the stack to the      *)
(* module.                                                                 *)
LEMMA GoodPop ==
  ASSUME NEW stack, NEW fs, NEW cache, NEW count, NEW cl, NEW calls,
         Good(stack, fs, cache, count, cl, calls), Len(stack) > 1
  PROVE  /\ Good(Below(stack), Append(fs, Finished(stack)), cache, count, cl, calls)
         /\ Below(stack) # <<>>
         /\ stack[Len(stack)] \in Frames
         /\ IsMade(stack[Len(stack)].symbol, Below(stack), Append(fs, Finished(stack)))
<1> DEFINE m == Len(stack)
           n == Len(fs)
           s == Below(stack)
           b == Finished(stack)
           gs == Append(fs, b)
<1>1. stack \in Seq(Frames) /\ m \in Nat /\ m > 1 /\ DOMAIN stack = 1 .. m
  BY DEF Good, Shape
<1>2. /\ s \in Seq(Frames) /\ Len(s) = m - 1 /\ DOMAIN s = 1 .. (m - 1)
      /\ \A i \in 1 .. (m - 1) : s[i] = stack[i]
  BY <1>1 DEF Below
<1>3. stack[m] \in Frames
  BY <1>1
<1>4. b \in Functions /\ b.symbol = stack[m].symbol /\ b.key = stack[m].key /\ b.calls = stack[m].calls
  BY <1>3 DEF Frames, Functions, Finished
<1>5. fs \in Seq(Functions) /\ n \in Nat /\ DOMAIN fs = 1 .. n
  BY DEF Good, Shape
<1> HIDE DEF b
<1>6. /\ gs \in Seq(Functions) /\ DOMAIN gs = 1 .. (n + 1) /\ gs[n + 1] = b
      /\ \A i \in 1 .. n : gs[i] = fs[i]
  BY <1>4, <1>5
<1> HIDE DEF s, m, n, gs
<1>7. \A x : IsMade(x, stack, fs) => IsMade(x, s, gs)
  <2>1. \A i \in DOMAIN stack : i # 1 => IsMade(stack[i].symbol, s, gs)
    <3>1. IsMade(stack[m].symbol, s, gs)
      BY <1>4, <1>5, <1>6 DEF IsMade
    <3>2. \A i \in 1 .. (m - 1) : i # 1 => IsMade(stack[i].symbol, s, gs)
      BY <1>2 DEF IsMade
    <3> QED BY <1>1, <3>1, <3>2
  <2>2. \A i \in DOMAIN fs : IsMade(fs[i].symbol, s, gs)
    BY <1>5, <1>6 DEF IsMade
  <2> QED BY <2>1, <2>2 DEF IsMade
<1>8. IsMade(stack[m].symbol, s, gs)
  BY <1>4, <1>5, <1>6 DEF IsMade
<1>9. Shape(s, gs, cache, count, cl)
  BY <1>1, <1>2, <1>6 DEF Good, Shape
<1>10. Bodies(s, gs, cache, count, cl)
  <2>1. Counted(b.symbol, count, cl) /\ Cached(b, cache)
    BY <1>1, <1>4 DEF Good, Bodies, Cached
  <2>2. \A i \in 1 .. n : Counted(gs[i].symbol, count, cl) /\ Cached(gs[i], cache)
    BY <1>5, <1>6 DEF Good, Bodies
  <2>3. \A i \in DOMAIN s : i # 1 => Counted(s[i].symbol, count, cl) /\ Cached(s[i], cache)
    BY <1>1, <1>2 DEF Good, Bodies
  <2> QED BY <1>5, <1>6, <2>1, <2>2, <2>3 DEF Bodies
<1>11. Distinct(s, gs)
  <2>1. \A i \in 1 .. n : gs[i].symbol # b.symbol
    BY <1>1, <1>4, <1>5, <1>6 DEF Good, Distinct
  <2>2. \A i, j \in 1 .. n : gs[i].symbol = gs[j].symbol => i = j
    BY <1>5, <1>6 DEF Good, Distinct
  <2>3. \A i, j \in DOMAIN gs : gs[i].symbol = gs[j].symbol => i = j
    BY <1>5, <1>6, <2>1, <2>2
  <2>4. \A j \in DOMAIN s : b.symbol # s[j].symbol
    BY <1>1, <1>2, <1>4 DEF Good, Distinct
  <2>5. \A i \in 1 .. n, j \in DOMAIN s : gs[i].symbol # s[j].symbol
    <3>1. \A i \in DOMAIN fs, j \in DOMAIN stack : fs[i].symbol # stack[j].symbol
      BY DEF Good, Distinct
    <3>2. \A i \in 1 .. n : i \in DOMAIN fs /\ gs[i] = fs[i]
      BY <1>5, <1>6
    <3>3. \A j \in DOMAIN s : j \in DOMAIN stack /\ s[j].symbol = stack[j].symbol
      BY <1>1, <1>2
    <3> QED BY <3>1, <3>2, <3>3
  <2>6. \A i, j \in DOMAIN s : s[i].symbol = s[j].symbol => i = j
    BY <1>1, <1>2 DEF Good, Distinct
  <2> QED BY <1>5, <1>6, <2>3, <2>4, <2>5, <2>6 DEF Distinct
<1>12. Linked(s, gs, cache, calls)
  <2>1. \A x \in b.calls : IsMade(x, s, gs)
    BY <1>1, <1>4, <1>7 DEF Good, Linked
  <2>2. \A i \in DOMAIN gs : \A x \in gs[i].calls : IsMade(x, s, gs)
    BY <1>5, <1>6, <1>7, <2>1 DEF Good, Linked
  <2>3. \A i \in DOMAIN s : \A x \in s[i].calls : IsMade(x, s, gs)
    BY <1>1, <1>2, <1>7 DEF Good, Linked
  <2> QED BY <1>7, <2>2, <2>3 DEF Good, Linked
<1>13. s # <<>>
  BY <1>1, <1>2
<1> QED BY <1>3, <1>8, <1>9, <1>10, <1>11, <1>12, <1>13 DEF Good, s, gs, b, m

-----------------------------------------------------------------------------
(* A function without a key begins. *)
LEMMA GoodInner ==
  ASSUME NEW stack, NEW fs, NEW cache, NEW count, NEW cl, NEW calls,
         Good(stack, fs, cache, count, cl, calls),
         stack # <<>>, NEW n \in 0 .. stack[Len(stack)].left,
         NEW symbol \in Symbols, symbol.kind \in {"partial", "closure"},
         NEW own \in SUBSET Symbols, \A x \in own : IsMade(x, stack, fs),
         NEW count2 \in Nat, NEW cl2 \in Nat, count <= count2, cl <= cl2,
         Counted(symbol, count2, cl2), ~ Counted(symbol, count, cl)
  PROVE  Good(Inner(stack, symbol, own, n), fs, cache, count2, cl2, calls)
<1> DEFINE s == Shortened(stack, n)
           b == Frame(symbol, <<>>, "call", own, n)
<1>1. stack \in Seq(Frames) /\ Len(stack) \in Nat /\ Len(stack) \in DOMAIN stack
  BY DEF Good, Shape
<1>2. Good(s, fs, cache, count, cl, calls)
  BY GoodShortened
<1>3. /\ s # <<>> /\ Len(s) = Len(stack) /\ s \in Seq(Frames)
      /\ \A i \in DOMAIN stack : s[i].symbol = stack[i].symbol
  BY <1>1, ShortenedStack
<1>4. n \in Nat
  OBVIOUS
<1>5. b \in Frames /\ b.symbol = symbol /\ b.key = <<>> /\ b.calls = own
  BY <1>4, FrameType DEF Purposes
<1> HIDE DEF b, s
<1>6. \A x \in b.calls : IsMade(x, s, fs)
  <2>1. DOMAIN s = DOMAIN stack
    BY <1>1, <1>3
  <2> QED BY <1>3, <1>5, <2>1 DEF IsMade
<1>7. Cached(b, cache)
  BY <1>5 DEF Cached
<1>8. b.key \notin DOMAIN cache
  <2>1. DOMAIN cache \subseteq Keys
    BY DEF Good, Shape
  <2> QED BY <1>5, <2>1, KeyParts
<1>9. DOMAIN cache = DOMAIN cache \cup ({b.key} \ {<<>>})
  BY <1>5
<1>10. Good(Append(s, b), fs, cache, count2, cl2, calls)
  BY <1>2, <1>3, <1>5, <1>6, <1>7, <1>8, <1>9, GoodPush
<1> QED BY <1>10 DEF Inner, s, b

(* The caller gets a symbol that has its function. *)
LEMMA GoodGiven ==
  ASSUME NEW stack, NEW fs, NEW cache, NEW calls,
         Good(stack, fs, cache, spec_counter, closures, calls),
         stack # <<>>, NEW symbol \in Symbols, IsMade(symbol, stack, fs),
         NEW purpose, NEW x \in Lambdas \cup {Anonymous},
         Given(symbol, purpose, x, stack)
  PROVE  Good(pending', fs, cache, spec_counter', closures, calls)
<1>1. CASE purpose = "call" /\ pending' = Calling(stack, symbol) /\ UNCHANGED spec_counter
  BY <1>1, GoodCalling
<1>2. CASE /\ spec_counter' = spec_counter + 1
           /\ \E n \in 0 .. stack[Len(stack)].left :
                pending' = Inner(stack, Symbol("partial", x, spec_counter), {symbol}, n)
  <2>1. PICK n \in 0 .. stack[Len(stack)].left :
          pending' = Inner(stack, Symbol("partial", x, spec_counter), {symbol}, n)
    BY <1>2
  <2> DEFINE new == Symbol("partial", x, spec_counter)
  <2>2. spec_counter \in Nat /\ closures \in Nat
    BY DEF Good, Shape
  <2>3. new \in Symbols /\ new.kind = "partial" /\ new.n = spec_counter
    BY <2>2, SymbolType
  <2> HIDE DEF new
  <2>4. Counted(new, spec_counter + 1, closures) /\ ~ Counted(new, spec_counter, closures)
    BY <2>2, <2>3 DEF Counted
  <2>5. Good(Inner(stack, new, {symbol}, n), fs, cache, spec_counter + 1, closures, calls)
    BY <2>2, <2>3, <2>4, GoodInner
  <2> QED BY <1>2, <2>1, <2>5 DEF new
<1> QED BY <1>1, <1>2 DEF Given

-----------------------------------------------------------------------------
(* The invariant is inductive: its start, and one lemma for every step.    *)
LEMMA Start ==
  Init => IInv
<1> SUFFICES ASSUME Init PROVE IInv
  OBVIOUS
<1>1. Others
  BY BoundsAssumption DEF Init, Others
<1>2. Shape(pending, functions, specializations, spec_counter, closures)
  BY DEF Init, Shape
<1>3. Bodies(pending, functions, specializations, spec_counter, closures)
  BY DEF Init, Bodies
<1>4. Distinct(pending, functions)
  BY DEF Init, Distinct
<1>5. Linked(pending, functions, specializations, entry)
  BY DEF Init, Linked
<1> QED BY <1>1, <1>2, <1>3, <1>4, <1>5 DEF IInv, Good, Init

(* The bodies of key, as of the top of the stack. *)
LEMMA Stacked ==
  ASSUME IInv, pending # <<>>
  PROVE  /\ pending \in Seq(Frames) /\ Len(pending) \in Nat /\ Len(pending) > 0
         /\ DOMAIN pending = 1 .. Len(pending)
         /\ Top \in Frames
<1>1. pending \in Seq(Frames)
  BY DEF IInv, Good, Shape
<1> QED BY <1>1 DEF Top

(* A statement begins.                                                     *)
LEMMA BeginStep ==
  ASSUME IInv, Begin
  PROVE  IInv'
<1> DEFINE b == Frame(Main, <<>>, "call", {}, Size[Anonymous])
<1>1. Main \in Symbols
  BY SymbolType DEF Main
<1>2. Size[Anonymous] \in Nat
  BY BoundsAssumption
<1>3. b \in Frames /\ b.symbol = Main /\ b.key = <<>> /\ b.calls = {}
  BY <1>1, <1>2, FrameType DEF Purposes
<1>4. pending = <<>> /\ pending' = <<b>>
  BY DEF Begin
<1> HIDE DEF b
<1>5. pending' \in Seq(Frames) /\ DOMAIN pending' = {1} /\ pending'[1] = b
  BY <1>3, <1>4
<1>6. UNCHANGED <<functions, specializations, spec_counter, closures, entry>>
  BY DEF Begin
<1>7. Shape(pending', functions, specializations, spec_counter, closures)
  BY <1>3, <1>5 DEF IInv, Good, Shape
<1>8. Bodies(pending', functions, specializations, spec_counter, closures)
  BY <1>5 DEF IInv, Good, Bodies
<1>9. Distinct(pending', functions)
  <2>1. \A i \in DOMAIN functions : functions[i].symbol # Main
    BY DEF IInv, Good, Bodies, Counted, Main, Symbol
  <2> QED BY <1>3, <1>5, <2>1 DEF IInv, Good, Distinct
<1>10. Linked(pending', functions, specializations, entry)
  <2>1. \A x : IsMade(x, pending, functions) => IsMade(x, pending', functions)
    BY <1>4 DEF IsMade
  <2> QED BY <1>3, <1>5, <2>1 DEF IInv, Good, Linked
<1>11. Others' /\ status' # "lowered"
  BY DEF Begin, IInv, Others
<1> QED BY <1>6, <1>7, <1>8, <1>9, <1>10, <1>11 DEF IInv, Good

(* A local lambda gets a symbol of its own.                                *)
LEMMA BindInEnvStep ==
  ASSUME IInv, BindInEnv
  PROVE  IInv'
<1>1. pending # <<>> /\ 1 \in 0 .. Top.left
  <2>1. Top.left \in Nat /\ Top.left > 0
    BY Stacked DEF BindInEnv, InBody, Frames
  <2> QED BY <2>1 DEF BindInEnv, InBody
<1>2. Good(pending', functions, specializations, spec_counter, closures, entry)
  BY <1>1, GoodShortened DEF BindInEnv, IInv, Top
<1>3. let_counter \in Lambdas /\ let_counter' \in 0 .. MaxLets
  BY BoundsAssumption DEF BindInEnv, IInv, Others, Lambdas
<1>4. Others' /\ status' # "lowered"
  BY <1>3 DEF BindInEnv, InBody, IInv, Others
<1> QED BY <1>2, <1>4 DEF BindInEnv, IInv

(* An instance is found in the cache.                                      *)
LEMMA ReuseStep ==
  ASSUME IInv, NEW key \in Keys, NEW purpose \in Purposes, Reuse(key, purpose)
  PROVE  IInv'
<1> DEFINE s == Shortened(pending, 1)
           symbol == specializations[key]
<1>1. pending # <<>> /\ 1 \in 0 .. Top.left
  <2>1. Top.left \in Nat /\ Top.left > 0
    BY Stacked DEF Reuse, IsUse, InBody, Frames
  <2> QED BY <2>1 DEF Reuse, IsUse, InBody
<1>2. Good(s, functions, specializations, spec_counter, closures, entry) /\ s # <<>>
  BY <1>1, Stacked, GoodShortened, ShortenedStack DEF IInv, Top
<1>3. symbol \in Symbols /\ IsMade(symbol, s, functions)
  BY <1>2 DEF Reuse, Good, Shape, Linked
<1>4. key[1] \in Lambdas \cup {Anonymous}
  BY KeyParts
<1>5. Given(symbol, purpose, key[1], s)
  BY DEF Reuse
<1> HIDE DEF s, symbol
<1>6. Good(pending', functions, specializations, spec_counter', closures, entry)
  BY <1>2, <1>3, <1>4, <1>5, GoodGiven
<1>7. Others' /\ status' # "lowered"
  BY DEF Reuse, IsUse, InBody, IInv, Others
<1> QED BY <1>6, <1>7 DEF Reuse, IInv

(* An instance is put into the cache before its body is lowered.           *)
LEMMA SpecializeStep ==
  ASSUME IInv, NEW key \in Keys, NEW purpose \in Purposes, Specialize(key, purpose)
  PROVE  IInv'
<1> DEFINE s == Shortened(pending, 1)
           symbol == Symbol("spec", key[1], spec_counter)
           b == Frame(symbol, key, purpose, {}, Size[key[1]])
<1>1. pending # <<>> /\ 1 \in 0 .. Top.left
  <2>1. Top.left \in Nat /\ Top.left > 0
    BY Stacked DEF Specialize, IsUse, InBody, Frames
  <2> QED BY <2>1 DEF Specialize, IsUse, InBody
<1>2. Good(s, functions, specializations, spec_counter, closures, entry) /\ s # <<>>
  BY <1>1, Stacked, GoodShortened, ShortenedStack DEF IInv, Top
<1>3. spec_counter \in Nat /\ closures \in Nat
  BY DEF IInv, Good, Shape
<1>4. key[1] \in Lambdas /\ key # <<>>
  BY KeyParts
<1>5. symbol \in Symbols /\ symbol.kind = "spec" /\ symbol.n = spec_counter
  BY <1>3, <1>4, SymbolType
<1>6. Size[key[1]] \in Nat
  BY <1>4, BoundsAssumption DEF Lambdas
<1>7. pending' = Append(s, b)
  BY DEF Specialize
<1>8. /\ specializations' = [k \in DOMAIN specializations \cup {key} |->
                               IF k = key THEN symbol ELSE specializations[k]]
      /\ key \notin DOMAIN specializations /\ spec_counter' = spec_counter + 1
  BY DEF Specialize
<1> HIDE DEF symbol, s
<1>9. b \in Frames /\ b.symbol = symbol /\ b.key = key /\ b.calls = {}
  BY <1>5, <1>6, FrameType
<1> HIDE DEF b
<1>10. Counted(symbol, spec_counter + 1, closures) /\ ~ Counted(symbol, spec_counter, closures)
  BY <1>3, <1>5 DEF Counted
<1>11. /\ DOMAIN specializations' = DOMAIN specializations \cup ({b.key} \ {<<>>})
       /\ \A k \in DOMAIN specializations : specializations'[k] = specializations[k]
       /\ Cached(b, specializations')
  BY <1>4, <1>5, <1>8, <1>9 DEF Cached
<1>12. Good(Append(s, b), functions, specializations', spec_counter + 1, closures, entry)
  BY <1>2, <1>3, <1>8, <1>9, <1>10, <1>11, GoodPush
<1>13. Others' /\ status' # "lowered"
  BY DEF Specialize, IsUse, InBody, IInv, Others
<1> QED BY <1>7, <1>8, <1>12, <1>13 DEF Specialize, IInv

(* The function of a closure is begun.                                     *)
LEMMA OpenClosureStep ==
  ASSUME IInv, OpenClosure
  PROVE  IInv'
<1> DEFINE s == Shortened(pending, 1)
           symbol == Symbol("closure", Anonymous, closures)
<1>1. pending # <<>> /\ 1 \in 0 .. Top.left
  <2>1. Top.left \in Nat /\ Top.left > 0
    BY Stacked DEF OpenClosure, InBody, Frames
  <2> QED BY <2>1 DEF OpenClosure, InBody
<1>2. /\ Good(s, functions, specializations, spec_counter, closures, entry) /\ s # <<>>
      /\ s[Len(s)].left = Top.left - 1
  BY <1>1, Stacked, GoodShortened, ShortenedStack DEF IInv, Top
<1>3. spec_counter \in Nat /\ closures \in Nat
  BY DEF IInv, Good, Shape
<1>4. symbol \in Symbols /\ symbol.kind = "closure" /\ symbol.n = closures
  BY <1>3, SymbolType
<1>5. PICK n \in 0 .. (Top.left - 1) : pending' = Inner(s, symbol, {}, n)
  BY DEF OpenClosure
<1> HIDE DEF s, symbol
<1>6. Counted(symbol, spec_counter, closures + 1) /\ ~ Counted(symbol, spec_counter, closures)
  BY <1>3, <1>4 DEF Counted
<1>7. Good(Inner(s, symbol, {}, n), functions, specializations, spec_counter, closures + 1, entry)
  BY <1>2, <1>3, <1>4, <1>6, GoodInner
<1>8. Others' /\ status' # "lowered"
  BY DEF OpenClosure, InBody, IInv, Others
<1> QED BY <1>5, <1>7, <1>8 DEF OpenClosure, IInv

(* A body is complete and the function is emitted.                         *)
LEMMA FinishStep ==
  ASSUME IInv, Finish
  PROVE  IInv'
<1> DEFINE s == Below(pending)
           fs == Append(functions, Finished(pending))
<1>1. Len(pending) > 1
  BY DEF Finish
<1>2. /\ Good(s, fs, specializations, spec_counter, closures, entry) /\ s # <<>>
      /\ Top \in Frames /\ IsMade(Top.symbol, s, fs)
  BY <1>1, GoodPop DEF IInv, Top
<1>3. functions' = fs
  BY DEF Finish, Finished, Top
<1>4. Given(Top.symbol, Top.purpose, Top.symbol.of, s)
  BY DEF Finish, Caller, Below
<1> HIDE DEF s, fs
<1>5. Top.symbol \in Symbols
  BY <1>2 DEF Frames
<1>6. Top.symbol.of \in Lambdas \cup {Anonymous}
  BY <1>5 DEF Symbols
<1>7. Good(pending', fs, specializations, spec_counter', closures, entry)
  BY <1>2, <1>4, <1>5, <1>6, GoodGiven
<1>8. Others' /\ status' # "lowered"
  BY DEF Finish, IInv, Others
<1> QED BY <1>3, <1>7, <1>8 DEF Finish, IInv

(* A statement is complete.                                                *)
LEMMA FinishStatementStep ==
  ASSUME IInv, FinishStatement
  PROVE  IInv'
<1>1. /\ pending \in Seq(Frames) /\ Len(pending) = 1 /\ DOMAIN pending = {1} /\ Top = pending[1]
      /\ Top \in Frames
  <2>1. pending \in Seq(Frames) /\ Len(pending) = 1
    BY DEF FinishStatement, IInv, Good, Shape
  <2> QED BY <2>1 DEF Top
<1>2. pending' = <<>> /\ entry' = entry \cup Top.calls
  BY DEF FinishStatement
<1>3. UNCHANGED <<functions, specializations, spec_counter, closures>>
  BY DEF FinishStatement
<1>4. \A x : IsMade(x, pending, functions) => IsMade(x, <<>>, functions)
  BY <1>1 DEF IsMade
<1>5. Shape(<<>>, functions, specializations, spec_counter, closures)
  BY DEF IInv, Good, Shape
<1>6. Bodies(<<>>, functions, specializations, spec_counter, closures)
  BY DEF IInv, Good, Bodies
<1>7. Distinct(<<>>, functions)
  BY DEF IInv, Good, Distinct
<1>8. Linked(<<>>, functions, specializations, entry')
  BY <1>1, <1>2, <1>4 DEF IInv, Good, Linked
<1>9. Others' /\ status' # "lowered"
  <2>1. entry' \in SUBSET Symbols
    BY <1>1, <1>2 DEF IInv, Others, Frames
  <2> QED BY <2>1 DEF FinishStatement, IInv, Others
<1> QED BY <1>2, <1>3, <1>5, <1>6, <1>7, <1>8, <1>9 DEF IInv, Good

(* The invariant is inductive. *)
LEMMA Preservation ==
  IInv /\ [Next]_vars => IInv'
<1> SUFFICES ASSUME IInv, [Next]_vars PROVE IInv'
  OBVIOUS
<1>1. ASSUME NEW x \in Names, Declare(x) PROVE IInv'
  <2>1. Others' /\ status' # "lowered"
    BY <1>1 DEF Declare, IInv, Others, Lambdas
  <2> QED BY <1>1, <2>1 DEF Declare, IInv
<1>2. CASE Begin
  BY <1>2, BeginStep
<1>3. CASE BindInEnv
  BY <1>3, BindInEnvStep
<1>4. CASE OpenClosure
  BY <1>4, OpenClosureStep
<1>5. CASE Finish
  BY <1>5, FinishStep
<1>6. CASE FinishStatement
  BY <1>6, FinishStatementStep
<1>7. CASE Fail
  BY <1>7 DEF Fail, IInv, Others
<1>8. CASE End
  BY <1>8 DEF End, IInv, Others
<1>9. ASSUME NEW key \in Keys, NEW purpose \in Purposes, Reuse(key, purpose) PROVE IInv'
  BY <1>9, ReuseStep
<1>10. ASSUME NEW key \in Keys, NEW purpose \in Purposes, Specialize(key, purpose) PROVE IInv'
  BY <1>10, SpecializeStep
<1>11. CASE UNCHANGED vars
  BY <1>11 DEF vars, IInv, Others
<1> QED BY <1>1, <1>2, <1>3, <1>4, <1>5, <1>6, <1>7, <1>8, <1>9, <1>10, <1>11 DEF Next, Step

(* The invariant of the cache holds always. *)
THEOREM Invariance == Spec => []IInv
<1>1. Init => IInv
  BY Start
<1>2. IInv /\ [Next]_vars => IInv'
  BY Preservation
<1> QED BY <1>1, <1>2, PTL DEF Spec

-----------------------------------------------------------------------------
(* The state of the cache always has its type. *)
THEOREM TypeCorrect == Spec => []TypeOK
<1>1. IInv => TypeOK
  BY DEF IInv, Others, Good, Shape, TypeOK, Functions
<1> QED BY <1>1, Invariance, PTL

(* Each instantiation is emitted exactly once (apply.rs:280), whatever the *)
(* program.                                                                *)
THEOREM OnceEach == Spec => []EmittedOnce
<1>1. ASSUME IInv PROVE EmittedOnce
  <2>1. \A f, g : Cached(f, specializations) /\ Cached(g, specializations) /\ f.symbol # g.symbol
                  => Differ(f, g)
    BY DEF Cached, Differ
  <2>2. \A i, j \in DOMAIN functions : i # j => Differ(functions[i], functions[j])
    BY <1>1, <2>1 DEF IInv, Good, Bodies, Distinct
  <2>3. \A i, j \in DOMAIN pending : i # j => Differ(pending[i], pending[j])
    <3>1. \A i, j \in DOMAIN pending : i # j => pending[i].symbol # pending[j].symbol
      BY <1>1 DEF IInv, Good, Distinct
    <3>2. \A i \in DOMAIN pending : Cached(pending[i], specializations)
      <4>1. \A i \in DOMAIN pending : i # 1 => Cached(pending[i], specializations)
        BY <1>1 DEF IInv, Good, Bodies
      <4>2. 1 \in DOMAIN pending => Cached(pending[1], specializations)
        <5>1. 1 \in DOMAIN pending => pending[1].symbol = Main /\ pending[1].key = <<>>
          BY <1>1 DEF IInv, Good, Shape
        <5> QED BY <5>1 DEF Cached, Main, Symbol
      <4> QED BY <4>1, <4>2
    <3> QED BY <2>1, <3>1, <3>2
  <2>4. \A i \in DOMAIN functions, j \in DOMAIN pending : Differ(functions[i], pending[j])
    <3>1. \A i \in DOMAIN functions, j \in DOMAIN pending :
            functions[i].symbol # pending[j].symbol
      BY <1>1 DEF IInv, Good, Distinct
    <3>2. \A i \in DOMAIN functions : Cached(functions[i], specializations)
      BY <1>1 DEF IInv, Good, Bodies
    <3>3. \A j \in DOMAIN pending : j # 1 => Cached(pending[j], specializations)
      BY <1>1 DEF IInv, Good, Bodies
    <3>4. 1 \in DOMAIN pending => pending[1].key = <<>>
      BY <1>1 DEF IInv, Good, Shape
    <3> QED BY <2>1, <3>1, <3>2, <3>3, <3>4 DEF Differ
  <2> QED BY <1>1, <2>2, <2>3, <2>4 DEF EmittedOnce, IInv, Good, Linked
<1> QED BY <1>1, Invariance, PTL

(* A module that is handed over has every function that it calls. *)
THEOREM Complete == Spec => []Resolved
<1>1. ASSUME IInv, status = "lowered" PROVE
        entry \subseteq Emitted /\ \A i \in DOMAIN functions : functions[i].calls \subseteq Emitted
  <2>1. pending = <<>>
    BY <1>1 DEF IInv
  <2>2. \A x : IsMade(x, pending, functions) => x \in Emitted
    BY <2>1 DEF IsMade, Emitted
  <2> QED BY <1>1, <2>2 DEF IInv, Good, Linked
<1>2. IInv => Resolved
  BY <1>1 DEF Resolved
<1> QED BY <1>2, Invariance, PTL

-----------------------------------------------------------------------------
(* The abstract state, as the refinement mapping gives it. *)
Instances == [key \in Keys |-> Instance(key)]

(* Where neither the cache nor the functions change, nothing is seen.      *)
LEMMA Unseen ==
  ASSUME UNCHANGED <<specializations, functions>>, status' = "lowered" <=> status = "lowered"
  PROVE  UNCHANGED Promise!vars
<1>1. Emitted' = Emitted
  BY DEF Emitted
<1>2. \A key : Instance(key)' = Instance(key)
  BY <1>1 DEF Instance
<1>3. Instances' = Instances
  BY <1>2 DEF Instances
<1> QED BY <1>3 DEF Promise!vars, Instances

(* A miss asks for an instance. *)
LEMMA Asking ==
  ASSUME IInv, NEW key \in Keys, NEW purpose \in Purposes, Specialize(key, purpose)
  PROVE  Promise!Ask(key)
<1> DEFINE symbol == Symbol("spec", key[1], spec_counter)
<1>1. /\ specializations' = [k \in DOMAIN specializations \cup {key} |->
                               IF k = key THEN symbol ELSE specializations[k]]
      /\ key \notin DOMAIN specializations
      /\ status = "lowering" /\ status' = status /\ functions' = functions
  BY DEF Specialize, IsUse, InBody
<1>2. spec_counter \in Nat /\ key[1] \in Lambdas
  BY KeyParts DEF IInv, Good, Shape
<1>3. symbol.kind = "spec" /\ symbol.n = spec_counter
  BY <1>2, SymbolType
<1> HIDE DEF symbol
<1>4. ~ Counted(symbol, spec_counter, closures)
  BY <1>2, <1>3 DEF Counted
<1>5. symbol \notin Emitted /\ Emitted' = Emitted
  BY <1>1, <1>4 DEF Emitted, IInv, Good, Bodies
<1>6. Instance(key) = "absent" /\ Instance(key)' = "asked for"
  BY <1>1, <1>5 DEF Instance
<1>7. \A k \in Keys : k # key => Instance(k)' = Instance(k)
  BY <1>1, <1>5 DEF Instance
<1>8. Instances[key] = "absent" /\ Instances' = [Instances EXCEPT ![key] = "asked for"]
  BY <1>6, <1>7 DEF Instances
<1> QED BY <1>1, <1>8 DEF Promise!Ask, Instances

(* The end of a specialization emits its instance, and no other function   *)
(* is one.                                                                 *)
LEMMA Emitting ==
  ASSUME IInv, Finish
  PROVE  \/ \E key \in Keys : Promise!Emit(key)
         \/ UNCHANGED Promise!vars
<1>1. /\ pending \in Seq(Frames) /\ Len(pending) \in DOMAIN pending /\ Len(pending) # 1
      /\ Top = pending[Len(pending)] /\ Top \in Frames
  <2>1. pending \in Seq(Frames) /\ Len(pending) > 1
    BY DEF Finish, IInv, Good, Shape
  <2> QED BY <2>1 DEF Top
<1>2. functions \in Seq(Functions)
  BY DEF IInv, Good, Shape
<1>3. /\ UNCHANGED specializations /\ status = "lowering" /\ status' = status
      /\ functions' = Append(functions, [symbol |-> Top.symbol, key |-> Top.key, calls |-> Top.calls])
  BY DEF Finish
<1>4. Emitted' = Emitted \cup {Top.symbol}
  <2> DEFINE b == [symbol |-> Top.symbol, key |-> Top.key, calls |-> Top.calls]
             n == Len(functions)
  <2>1. b \in Functions /\ b.symbol = Top.symbol
    BY <1>1 DEF Frames, Functions
  <2> HIDE DEF b
  <2>2. /\ n \in Nat /\ DOMAIN functions = 1 .. n /\ DOMAIN functions' = 1 .. (n + 1)
        /\ functions'[n + 1] = b /\ \A i \in 1 .. n : functions'[i] = functions[i]
    BY <1>2, <1>3, <2>1 DEF b
  <2> HIDE DEF n
  <2>3. \A x : x \in Emitted' <=> x \in Emitted \cup {Top.symbol}
    BY <2>1, <2>2 DEF Emitted
  <2> QED BY <2>3
<1>5. Cached(Top, specializations) /\ Top.symbol \notin Emitted
  BY <1>1 DEF IInv, Good, Bodies, Distinct, Emitted
<1>6. \A k, l \in DOMAIN specializations : specializations[k] = specializations[l] => k = l
  BY DEF IInv, Good, Linked
<1>7. DOMAIN specializations \subseteq Keys
  BY DEF IInv, Good, Shape
<1>8. CASE Top.key = <<>>
  <2>1. \A k \in DOMAIN specializations : specializations[k] # Top.symbol
    BY <1>5, <1>8 DEF Cached, IInv, Good, Shape
  <2>2. \A k : Instance(k)' = Instance(k)
    BY <1>3, <1>4, <2>1 DEF Instance
  <2>3. Instances' = Instances
    BY <2>2 DEF Instances
  <2> QED BY <1>3, <2>3 DEF Promise!vars, Instances
<1>9. CASE Top.key # <<>>
  <2>1. Top.key \in Keys /\ Top.key \in DOMAIN specializations /\ specializations[Top.key] = Top.symbol
    BY <1>5, <1>7, <1>9 DEF Cached
  <2>2. PICK key \in Keys : key = Top.key
    BY <2>1
  <2>3. key \in DOMAIN specializations /\ specializations[key] = Top.symbol
    BY <2>1, <2>2
  <2>4. Instance(key) = "asked for" /\ Instance(key)' = "emitted"
    BY <1>3, <1>4, <1>5, <2>3 DEF Instance
  <2>5. \A k \in Keys : k # key => Instance(k)' = Instance(k)
    BY <1>3, <1>4, <1>6, <2>3 DEF Instance
  <2>6. Instances[key] = "asked for" /\ Instances' = [Instances EXCEPT ![key] = "emitted"]
    BY <2>4, <2>5 DEF Instances
  <2>7. Promise!Emit(key)
    BY <1>3, <2>6 DEF Promise!Emit, Instances
  <2> QED BY <2>7
<1> QED BY <1>8, <1>9

(* When lowering ends every instance that was asked for is emitted. *)
LEMMA Ending ==
  ASSUME IInv, End
  PROVE  Promise!Complete
<1>1. pending = <<>> /\ status = "lowering" /\ status' = "lowered"
      /\ UNCHANGED <<specializations, functions>>
  BY DEF End
<1>2. \A key \in DOMAIN specializations : specializations[key] \in Emitted
  BY <1>1 DEF IInv, Good, Linked, IsMade, Emitted
<1>3. \A key \in Keys : Instances[key] # "asked for"
  BY <1>2 DEF Instances, Instance
<1>4. Emitted' = Emitted
  BY <1>1 DEF Emitted
<1>5. \A key : Instance(key)' = Instance(key)
  BY <1>1, <1>4 DEF Instance
<1>6. Instances' = Instances
  BY <1>5 DEF Instances
<1> QED BY <1>1, <1>3, <1>6 DEF Promise!Complete, Instances

(* The code generator keeps the promise of Instantiation: what is asked    *)
(* for is emitted once, before the module is complete.                     *)
THEOREM Refinement == Spec => ImplementsInstantiation
<1>1. Init => Promise!Init
  BY DEF Init, Promise!Init, Instance
<1>2. IInv /\ [Next]_vars => [Promise!Next]_(Promise!vars)
  <2> SUFFICES ASSUME IInv, [Next]_vars PROVE Promise!Next \/ UNCHANGED Promise!vars
    OBVIOUS
  <2>1. ASSUME NEW x \in Names, Declare(x) PROVE UNCHANGED Promise!vars
    BY <2>1, Unseen DEF Declare
  <2>2. CASE Begin \/ BindInEnv \/ OpenClosure \/ FinishStatement \/ Fail
    BY <2>2, Unseen DEF Begin, BindInEnv, OpenClosure, FinishStatement, Fail, InBody
  <2>3. CASE Finish
    BY <2>3, Emitting DEF Promise!Next
  <2>4. CASE End
    BY <2>4, Ending DEF Promise!Next
  <2>5. ASSUME NEW key \in Keys, NEW purpose \in Purposes, Reuse(key, purpose)
        PROVE  UNCHANGED Promise!vars
    BY <2>5, Unseen DEF Reuse
  <2>6. ASSUME NEW key \in Keys, NEW purpose \in Purposes, Specialize(key, purpose)
        PROVE  Promise!Next
    BY <2>6, Asking DEF Promise!Next
  <2>7. CASE UNCHANGED vars
    BY <2>7, Unseen DEF vars
  <2> QED BY <2>1, <2>2, <2>3, <2>4, <2>5, <2>6, <2>7 DEF Next, Step
<1> QED BY <1>1, <1>2, Invariance, PTL DEF Spec, ImplementsInstantiation, Promise!Spec

-----------------------------------------------------------------------------
(* Lowering ends: what is left to do is a number, and every step makes it  *)
(* smaller.  A body counts twice its steps, since a step may begin a       *)
(* function that has some of the others for its body; a function that will *)
(* be wrapped counts once more.  A statement that is still to come, and an *)
(* instance that is not in the cache, count as much as the largest body.   *)
Weight(frame) == 2 * frame.left + (IF frame.purpose = "wrap" THEN 2 ELSE 1)
Heavier(n, frame) == n + Weight(frame)
Weights == INSTANCE SequenceFold WITH Op <- Heavier
Work(stack) == Weights!Fold(0, stack)
Uncached == Keys \ DOMAIN specializations
Whole(m) == 2 * m + 2
Budget == statements + Cardinality(Uncached)
Remaining(m) == Budget * Whole(m) + Work(pending)

(* m bounds the sizes of bodies, and a program has finitely many instances. *)
Finitary(m) ==
  /\ m \in Nat /\ \A x \in Lambdas \cup {Anonymous} : Size[x] <= m
  /\ IsFiniteSet(Keys)

Advances(m) ==
  /\ Remaining(m)' < Remaining(m)
  /\ spec_counter' + closures' <= spec_counter + closures + 1

(* A frame weighs something.                                               *)
LEMMA WeightType ==
  ASSUME NEW b \in Frames
  PROVE  Weight(b) \in Nat /\ Weight(b) > 0 /\ b.left \in Nat
<1>1. b.left \in Nat
  BY DEF Frames
<1> QED BY <1>1 DEF Weight

(* One more function on the stack ...                                      *)
LEMMA WorkPush ==
  ASSUME NEW stack \in Seq(Frames), NEW b \in Frames
  PROVE  Work(Append(stack, b)) = Work(stack) + Weight(b)
BY Weights!FoldAppend DEF Work, Heavier

(* The work of a stack is a number.                                        *)
LEMMA WorkType ==
  ASSUME NEW stack \in Seq(Frames)
  PROVE  Work(stack) \in Nat
<1> DEFINE S == {n \in Nat : \A s \in Seq(Frames) : Len(s) = n => Work(s) \in Nat}
<1>1. 0 \in S
  <2>1. ASSUME NEW s \in Seq(Frames), Len(s) = 0
        PROVE  s = <<>>
    BY <2>1
  <2>2. Work(<<>>) = 0
    BY Weights!FoldEmpty DEF Work
  <2> QED BY <2>1, <2>2
<1>2. ASSUME NEW n \in S
      PROVE  n + 1 \in S
  <2>1. ASSUME NEW s \in Seq(Frames), Len(s) = n + 1
        PROVE  Work(s) \in Nat
    <3> DEFINE t == Below(s)
    <3>1. n \in Nat /\ t \in Seq(Frames) /\ Len(t) = n /\ s[n + 1] \in Frames
      BY <2>1 DEF Below
    <3>2. s = Append(t, s[n + 1])
      BY <2>1, <3>1 DEF Below
    <3>3. Work(t) \in Nat
      BY <1>2, <3>1
    <3> HIDE DEF t
    <3>4. Work(Append(t, s[n + 1])) = Work(t) + Weight(s[n + 1])
      BY <3>1, WorkPush
    <3>5. Weight(s[n + 1]) \in Nat
      BY <3>1, WeightType
    <3>6. Work(s) = Work(t) + Weight(s[n + 1])
      BY <3>2, <3>4
    <3> QED BY <3>3, <3>5, <3>6
  <2> QED BY <2>1
<1>3. S \in SUBSET Nat
  OBVIOUS
<1> HIDE DEF S
<1>4. \A n \in Nat : n \in S
  BY <1>1, <1>2, <1>3, Weights!NaturalNumbers
<1>5. Len(stack) \in S
  BY <1>4
<1> QED BY <1>5 DEF S

(* ... or another one in the place of the innermost.                       *)
LEMMA WorkOnTop ==
  ASSUME NEW stack \in Seq(Frames), stack # <<>>, NEW b \in Frames
  PROVE  /\ Below(stack) \in Seq(Frames) /\ stack[Len(stack)] \in Frames
         /\ Work(stack) = Work(Below(stack)) + Weight(stack[Len(stack)])
         /\ Work([stack EXCEPT ![Len(stack)] = b]) = Work(Below(stack)) + Weight(b)
<1> DEFINE t == Below(stack)
           n == Len(stack)
<1>0. n \in Nat /\ n > 0 /\ stack[n] \in Frames /\ DOMAIN stack = 1 .. n
  OBVIOUS
<1>1. /\ t \in Seq(Frames) /\ Len(t) = n - 1
      /\ \A i \in 1 .. (n - 1) : t[i] = stack[i]
  BY <1>0 DEF Below
<1>2. stack = Append(t, stack[n])
  BY <1>0, <1>1 DEF Below
<1>3. [stack EXCEPT ![n] = b] = Append(t, b)
  <2> DEFINE u == [stack EXCEPT ![n] = b]
  <2>1. u \in Seq(Frames) /\ Len(u) = n
    BY <1>0
  <2>3. u[n] = b /\ \A i \in 1 .. (n - 1) : u[i] = stack[i]
    <3> HIDE DEF n
    <3>1. n \in DOMAIN stack /\ \A i \in 1 .. (n - 1) : i \in DOMAIN stack /\ i # n
      BY <1>0
    <3> QED BY <3>1
  <2> HIDE DEF u, t, n
  <2>2. u = Append(t, b)
    BY <1>0, <1>1, <2>1, <2>3
  <2> QED BY <2>2 DEF u
<1>4. Work(Append(t, stack[n])) = Work(t) + Weight(stack[n])
  BY <1>0, <1>1, WorkPush
<1>5. Work(Append(t, b)) = Work(t) + Weight(b)
  BY <1>1, WorkPush
<1> QED BY <1>0, <1>1, <1>2, <1>3, <1>4, <1>5

(* Taking n steps off the innermost function takes twice as much off.      *)
LEMMA WorkShortened ==
  ASSUME NEW stack \in Seq(Frames), stack # <<>>, NEW n \in 0 .. stack[Len(stack)].left
  PROVE  Work(Shortened(stack, n)) = Work(stack) - 2 * n
<1> DEFINE f == stack[Len(stack)]
           b == [f EXCEPT !.left = @ - n]
<1>1. f \in Frames
  BY WorkOnTop
<1>2. b \in Frames /\ b.left = f.left - n /\ b.purpose = f.purpose /\ f.left \in Nat
  BY <1>1 DEF Frames
<1>3. Shortened(stack, n) = [stack EXCEPT ![Len(stack)] = b]
  BY DEF Shortened
<1> HIDE DEF b
<1>4. n \in Nat /\ Weight(f) \in Nat /\ Weight(b) = Weight(f) - 2 * n
  <2> HIDE DEF f
  <2>1. 2 * b.left = 2 * f.left - 2 * n /\ n \in Nat
    BY <1>2 DEF f
  <2> DEFINE extra == IF f.purpose = "wrap" THEN 2 ELSE 1
  <2>2. extra \in Nat /\ Weight(b) = 2 * b.left + extra /\ Weight(f) = 2 * f.left + extra
    BY <1>2 DEF Weight
  <2>3. f.left \in Nat
    BY <1>2
  <2> HIDE DEF extra
  <2> QED BY <2>1, <2>2, <2>3
<1>5. Work(Below(stack)) \in Nat
  BY <1>2, WorkOnTop, WorkType
<1>6. Work(stack) = Work(Below(stack)) + Weight(f)
  BY <1>1, WorkOnTop
<1>7. Work(Shortened(stack, n)) = Work(Below(stack)) + Weight(b)
  BY <1>2, <1>3, WorkOnTop
<1> HIDE DEF f
<1> QED BY <1>4, <1>5, <1>6, <1>7

(* A call costs nothing more.                                              *)
LEMMA WorkCalling ==
  ASSUME NEW stack \in Seq(Frames), stack # <<>>, NEW symbol \in Symbols
  PROVE  Work(Calling(stack, symbol)) = Work(stack)
<1> DEFINE f == stack[Len(stack)]
           b == [f EXCEPT !.calls = @ \cup {symbol}]
<1>1. f \in Frames
  BY WorkOnTop
<1>2. b \in Frames /\ b.left = f.left /\ b.purpose = f.purpose
  BY <1>1 DEF Frames
<1>3. Calling(stack, symbol) = [stack EXCEPT ![Len(stack)] = b]
  BY DEF Calling
<1>4. Weight(b) = Weight(f)
  BY <1>2 DEF Weight
<1> HIDE DEF f, b
<1> QED BY <1>2, <1>3, <1>4, WorkOnTop DEF f

(* A function inside another gets some of its steps.                       *)
LEMMA WorkInner ==
  ASSUME NEW stack \in Seq(Frames), stack # <<>>, NEW n \in 0 .. stack[Len(stack)].left,
         NEW symbol \in Symbols, NEW calls \in SUBSET Symbols
  PROVE  Work(Inner(stack, symbol, calls, n)) = Work(stack) + 1
<1> DEFINE b == Frame(symbol, <<>>, "call", calls, n)
           s == Shortened(stack, n)
<1>1. n \in Nat
  BY WorkOnTop, WeightType
<1>2. b \in Frames
  BY <1>1, FrameType DEF Purposes
<1>3. Weight(b) = 2 * n + 1
  BY <1>1 DEF Weight, Frame
<1>4. s \in Seq(Frames) /\ Work(s) = Work(stack) - 2 * n /\ Work(stack) \in Nat
  BY WorkShortened, ShortenedStack, WorkType
<1>5. Inner(stack, symbol, calls, n) = Append(s, b)
  BY DEF Inner
<1> HIDE DEF b, s
<1> QED BY <1>1, <1>2, <1>3, <1>4, <1>5, WorkPush

(* The caller goes on: for a wrapper a function is begun.                  *)
LEMMA WorkGiven ==
  ASSUME NEW stack \in Seq(Frames), stack # <<>>, NEW symbol \in Symbols,
         NEW purpose \in Purposes, NEW x \in Lambdas \cup {Anonymous}, spec_counter \in Nat,
         Given(symbol, purpose, x, stack)
  PROVE  \/ purpose = "call" /\ Work(pending') = Work(stack) /\ spec_counter' = spec_counter
         \/ purpose = "wrap" /\ Work(pending') = Work(stack) + 1 /\ spec_counter' = spec_counter + 1
<1>1. CASE purpose = "call"
  BY <1>1, WorkCalling DEF Given
<1>2. CASE purpose = "wrap"
  <2>1. PICK n \in 0 .. stack[Len(stack)].left :
          pending' = Inner(stack, Symbol("partial", x, spec_counter), {symbol}, n)
    BY <1>2 DEF Given
  <2>2. Symbol("partial", x, spec_counter) \in Symbols
    BY SymbolType
  <2>3. spec_counter' = spec_counter + 1
    BY <1>2 DEF Given
  <2> QED BY <1>2, <2>1, <2>2, <2>3, WorkInner
<1> QED BY <1>1, <1>2 DEF Purposes

(* What is left to do is a number.                                         *)
LEMMA RemainingType ==
  ASSUME IInv, NEW m, Finitary(m)
  PROVE  /\ m \in Nat /\ Whole(m) \in Nat
         /\ IsFiniteSet(Uncached) /\ Cardinality(Uncached) \in Nat
         /\ statements \in Nat /\ Budget \in Nat /\ Work(pending) \in Nat
         /\ spec_counter \in Nat /\ closures \in Nat
<1>1. m \in Nat /\ Whole(m) \in Nat
  BY DEF Finitary, Whole
<1>2. IsFiniteSet(Uncached)
  BY FS_Difference DEF Finitary, Uncached
<1>3. Cardinality(Uncached) \in Nat
  BY <1>2, FS_CardinalityType
<1>4. statements \in Nat /\ pending \in Seq(Frames) /\ spec_counter \in Nat /\ closures \in Nat
  BY DEF IInv, Others, Good, Shape
<1> QED BY <1>1, <1>2, <1>3, <1>4, WorkType DEF Budget

(* A step that is paid by the innermost function ...                       *)
LEMMA Spends ==
  ASSUME IInv, IInv', NEW m, Finitary(m), Budget' = Budget, Work(pending)' < Work(pending)
  PROVE  Remaining(m)' < Remaining(m)
<1>1. Budget \in Nat /\ Whole(m) \in Nat /\ Work(pending) \in Nat
  BY RemainingType
<1>2. Work(pending)' \in Nat
  <2>1. pending' \in Seq(Frames)
    BY DEF IInv, Good, Shape
  <2> QED BY <2>1, WorkType
<1>3. PICK p \in Nat : p = Budget * Whole(m)
  BY <1>1
<1> QED BY <1>1, <1>2, <1>3 DEF Remaining

(* ... and one that is paid by what is still to come.                      *)
LEMMA Begins ==
  ASSUME IInv, IInv', NEW m, Finitary(m), Budget' = Budget - 1, Budget' \in Nat,
         Work(pending)' < Work(pending) + Whole(m)
  PROVE  Remaining(m)' < Remaining(m)
<1>1. Budget \in Nat /\ Whole(m) \in Nat /\ Work(pending) \in Nat
  BY RemainingType
<1>2. Work(pending)' \in Nat
  <2>1. pending' \in Seq(Frames)
    BY DEF IInv, Good, Shape
  <2> QED BY <2>1, WorkType
<1>3. (Budget - 1) * Whole(m) = Budget * Whole(m) - Whole(m) /\ Budget * Whole(m) \in Nat
  BY <1>1
<1> QED BY <1>1, <1>2, <1>3 DEF Remaining

(* Nothing is asked for: what is still to come stays.                      *)
LEMMA SameBudget ==
  ASSUME UNCHANGED <<specializations, statements>>
  PROVE  Budget' = Budget
BY DEF Budget, Uncached

(* A statement less is still to come.                                      *)
LEMMA StatementLess ==
  ASSUME IInv, NEW m, Finitary(m), UNCHANGED specializations,
         statements > 0, statements' = statements - 1
  PROVE  Budget' = Budget - 1 /\ Budget' \in Nat
<1>1. Uncached' = Uncached
  BY DEF Uncached
<1>2. Budget' = statements' + Cardinality(Uncached)
  BY <1>1 DEF Budget
<1>3. statements \in Nat /\ Cardinality(Uncached) \in Nat
  BY RemainingType
<1> QED BY <1>2, <1>3 DEF Budget

(* A use takes a step off the innermost function.                          *)
LEMMA OneStepLess ==
  ASSUME IInv, InBody
  PROVE  /\ pending \in Seq(Frames) /\ pending # <<>> /\ 1 \in 0 .. Top.left
         /\ Shortened(pending, 1) \in Seq(Frames) /\ Shortened(pending, 1) # <<>>
         /\ Work(Shortened(pending, 1)) = Work(pending) - 2 /\ Work(pending) \in Nat
<1>1. pending \in Seq(Frames) /\ pending # <<>>
  BY DEF IInv, Good, Shape, InBody
<1>2. Top.left \in Nat /\ Top.left > 0
  BY Stacked DEF InBody, Frames
<1>3. 1 \in 0 .. pending[Len(pending)].left
  BY <1>2 DEF Top
<1> QED BY <1>1, <1>2, <1>3, WorkShortened, ShortenedStack, WorkType

(* A let that binds a lambda *)
LEMMA BindInEnvAdvances ==
  ASSUME IInv, IInv', NEW m, Finitary(m), BindInEnv
  PROVE  Advances(m)
<1>1. Work(pending)' < Work(pending)
  BY OneStepLess DEF BindInEnv
<1> QED BY <1>1, Spends, SameBudget, RemainingType DEF BindInEnv, Advances

(* A use of what the cache knows *)
LEMMA ReuseAdvances ==
  ASSUME IInv, IInv', NEW m, Finitary(m), NEW key \in Keys, NEW purpose \in Purposes,
         Reuse(key, purpose)
  PROVE  Advances(m)
<1>1. specializations[key] \in Symbols /\ key[1] \in Lambdas \cup {Anonymous}
  BY KeyParts DEF Reuse, IInv, Good, Shape
<1>2. Given(specializations[key], purpose, key[1], Shortened(pending, 1))
  BY DEF Reuse
<1>3. InBody /\ spec_counter \in Nat /\ closures \in Nat
  BY RemainingType DEF Reuse, IsUse
<1>4. /\ Work(pending)' <= Work(pending) - 1 /\ Work(pending) \in Nat /\ Work(pending)' \in Int
      /\ spec_counter' \in Nat /\ spec_counter' <= spec_counter + 1
  BY <1>1, <1>2, <1>3, OneStepLess, WorkGiven
<1>5. Work(pending)' < Work(pending)
  BY <1>4
<1> QED BY <1>3, <1>4, <1>5, Spends, SameBudget DEF Reuse, Advances

(* A use of what it does not know *)
LEMMA SpecializeAdvances ==
  ASSUME IInv, IInv', NEW m, Finitary(m), NEW key \in Keys, NEW purpose \in Purposes,
         Specialize(key, purpose)
  PROVE  Advances(m)
<1> DEFINE s == Shortened(pending, 1)
           symbol == Symbol("spec", key[1], spec_counter)
           b == Frame(symbol, key, purpose, {}, Size[key[1]])
<1>1. InBody /\ spec_counter \in Nat /\ closures \in Nat /\ key[1] \in Lambdas
  BY RemainingType, KeyParts DEF Specialize, IsUse
<1>2. Size[key[1]] \in Nat /\ Size[key[1]] <= m
  BY <1>1, BoundsAssumption DEF Lambdas, Finitary
<1>3. symbol \in Symbols
  BY <1>1, SymbolType
<1> HIDE DEF symbol
<1>4. b \in Frames
  BY <1>2, <1>3, FrameType
<1>5. Weight(b) <= 2 * m + 2 /\ Weight(b) \in Nat
  <2>1. 2 * Size[key[1]] <= 2 * m
    BY <1>2, RemainingType
  <2> QED BY <1>2, <1>4, <2>1, RemainingType, WeightType DEF Weight, Frame
<1>6. pending' = Append(s, b)
  BY DEF Specialize, symbol
<1> HIDE DEF b
<1>7. Work(pending)' < Work(pending) + Whole(m)
  <2>1. Work(Append(s, b)) = Work(s) + Weight(b)
    BY <1>1, <1>4, OneStepLess, WorkPush
  <2>2. Work(s) = Work(pending) - 2 /\ Work(pending) \in Nat
    BY <1>1, OneStepLess
  <2> HIDE DEF s
  <2> QED BY <1>5, <1>6, <2>1, <2>2, RemainingType DEF Whole
<1>8. Budget' = Budget - 1 /\ Budget' \in Nat
  <2>1. DOMAIN specializations' = DOMAIN specializations \cup {key} /\ key \notin DOMAIN specializations
    BY DEF Specialize
  <2>2. Uncached' = Uncached \ {key} /\ key \in Uncached
    BY <2>1 DEF Uncached
  <2>3. Cardinality(Uncached') = Cardinality(Uncached) - 1
    BY <2>2, RemainingType, FS_RemoveElement
  <2>4. IsFiniteSet(Uncached')
    BY <2>2, RemainingType, FS_RemoveElement
  <2>5. Cardinality(Uncached') \in Nat
    BY <2>4, FS_CardinalityType
  <2>6. statements' = statements /\ statements \in Nat /\ Cardinality(Uncached) \in Nat
    BY RemainingType DEF Specialize
  <2>7. Budget' = statements' + Cardinality(Uncached')
    BY DEF Budget
  <2> QED BY <2>3, <2>5, <2>6, <2>7 DEF Budget
<1>9. spec_counter' = spec_counter + 1 /\ closures' = closures
  BY DEF Specialize
<1> QED BY <1>1, <1>7, <1>8, <1>9, Begins DEF Advances

(* A lambda without a name *)
LEMMA OpenClosureAdvances ==
  ASSUME IInv, IInv', NEW m, Finitary(m), OpenClosure
  PROVE  Advances(m)
<1> DEFINE s == Shortened(pending, 1)
           symbol == Symbol("closure", Anonymous, closures)
<1>1. InBody /\ spec_counter \in Nat /\ closures \in Nat
  BY RemainingType DEF OpenClosure
<1>2. symbol \in Symbols
  BY <1>1, SymbolType
<1>3. PICK n \in 0 .. (Top.left - 1) : pending' = Inner(s, symbol, {}, n)
  BY DEF OpenClosure
<1>4. n \in 0 .. s[Len(s)].left
  BY <1>1, OneStepLess, ShortenedStack DEF Top
<1>5. Work(Inner(s, symbol, {}, n)) = Work(s) + 1
  BY <1>1, <1>2, <1>4, OneStepLess, WorkInner
<1>6. Work(s) = Work(pending) - 2 /\ Work(pending) \in Nat
  BY <1>1, OneStepLess
<1> HIDE DEF s, symbol
<1>7. Work(pending)' < Work(pending)
  BY <1>3, <1>5, <1>6
<1> QED BY <1>1, <1>7, Spends, SameBudget DEF OpenClosure, Advances

(* The end of a function *)
LEMMA FinishAdvances ==
  ASSUME IInv, IInv', NEW m, Finitary(m), Finish
  PROVE  Advances(m)
<1> DEFINE s == Below(pending)
<1>1. pending \in Seq(Frames) /\ pending # <<>> /\ Len(pending) > 1 /\ Top = pending[Len(pending)]
  BY DEF Finish, IInv, Good, Shape, Top
<1>2. /\ s \in Seq(Frames) /\ s # <<>> /\ Top \in Frames
      /\ Work(pending) = Work(s) + Weight(Top) /\ Work(s) \in Nat
  <2>1. s \in Seq(Frames) /\ s # <<>>
    BY <1>1, GoodPop DEF IInv, Good, Shape
  <2>2. Top \in Frames
    BY <1>1
  <2>3. Work(pending) = Work(s) + Weight(Top)
    BY <1>1, <2>2, WorkOnTop
  <2> QED BY <2>1, <2>2, <2>3, WorkType
<1>3. /\ Top.symbol \in Symbols /\ Top.purpose \in Purposes
      /\ Top.symbol.of \in Lambdas \cup {Anonymous}
  BY <1>2 DEF Frames, Symbols
<1>4. Weight(Top) = IF Top.purpose = "wrap" THEN 2 ELSE 1
  BY DEF Finish, Weight
<1>5. Given(Top.symbol, Top.purpose, Top.symbol.of, s)
  BY DEF Finish, Caller, Below
<1>6. spec_counter \in Nat /\ closures \in Nat
  BY RemainingType
<1> HIDE DEF s
<1>7. \/ Top.purpose = "call" /\ Work(pending') = Work(s) /\ spec_counter' = spec_counter
      \/ Top.purpose = "wrap" /\ Work(pending') = Work(s) + 1 /\ spec_counter' = spec_counter + 1
  BY <1>2, <1>3, <1>5, <1>6, WorkGiven
<1>8. Work(pending)' < Work(pending) /\ spec_counter' + closures <= spec_counter + closures + 1
  BY <1>2, <1>4, <1>6, <1>7
<1> QED BY <1>8, Spends, SameBudget DEF Finish, Advances

(* The end of a statement *)
LEMMA FinishStatementAdvances ==
  ASSUME IInv, IInv', NEW m, Finitary(m), FinishStatement
  PROVE  Advances(m)
<1>1. pending \in Seq(Frames) /\ pending # <<>>
  <2>1. pending \in Seq(Frames) /\ Len(pending) = 1
    BY DEF FinishStatement, IInv, Good, Shape
  <2> QED BY <2>1
<1>2. /\ Work(pending) = Work(Below(pending)) + Weight(pending[Len(pending)])
      /\ Below(pending) \in Seq(Frames) /\ pending[Len(pending)] \in Frames
  BY <1>1, WorkOnTop
<1>3. Work(pending) > 0 /\ Work(pending) \in Nat
  BY <1>2, WeightType, WorkType
<1>4. Work(pending') = 0
  BY Weights!FoldEmpty DEF Work, FinishStatement
<1>5. Work(pending)' < Work(pending)
  BY <1>3, <1>4
<1> QED BY <1>5, Spends, SameBudget, RemainingType DEF FinishStatement, Advances

(* The beginning of one, *)
LEMMA BeginAdvances ==
  ASSUME IInv, IInv', NEW m, Finitary(m), Begin
  PROVE  Advances(m)
<1> DEFINE b == Frame(Main, <<>>, "call", {}, Size[Anonymous])
<1>1. Size[Anonymous] \in Nat /\ Size[Anonymous] <= m /\ Main \in Symbols
  BY BoundsAssumption, SymbolType DEF Finitary, Main
<1>2. b \in Frames
  BY <1>1, FrameType DEF Purposes
<1>3. Weight(b) <= 2 * m + 1 /\ Weight(b) \in Nat
  <2>1. 2 * Size[Anonymous] <= 2 * m
    BY <1>1, RemainingType
  <2> QED BY <1>1, <1>2, <2>1, RemainingType, WeightType DEF Weight, Frame
<1>4. pending = <<>> /\ pending' = Append(<<>>, b)
  BY DEF Begin
<1> HIDE DEF b
<1>5. Work(<<>>) = 0
  BY Weights!FoldEmpty DEF Work
<1>6. Work(pending)' = Weight(b) /\ Work(pending) = 0
  <2>0. <<>> \in Seq(Frames)
    OBVIOUS
  <2>1. Work(Append(<<>>, b)) = Work(<<>>) + Weight(b)
    BY <1>2, <2>0, WorkPush
  <2> QED BY <1>3, <1>4, <1>5, <2>1
<1>7. Work(pending)' < Work(pending) + Whole(m)
  BY <1>3, <1>6, RemainingType DEF Whole
<1>8. Budget' = Budget - 1 /\ Budget' \in Nat
  BY StatementLess DEF Begin
<1>9. Remaining(m)' < Remaining(m)
  BY <1>7, <1>8, Begins
<1>10. spec_counter \in Nat /\ closures \in Nat /\ UNCHANGED <<spec_counter, closures>>
  BY RemainingType DEF Begin
<1> QED BY <1>9, <1>10 DEF Advances

(* and a declaration.                                                      *)
LEMMA DeclareAdvances ==
  ASSUME IInv, IInv', NEW m, Finitary(m), NEW x \in Names, Declare(x)
  PROVE  Advances(m)
<1>1. Work(pending)' < Work(pending) + Whole(m)
  <2>1. pending' = pending
    BY DEF Declare
  <2>2. Work(pending)' = Work(pending)
    BY <2>1
  <2> QED BY <2>2, RemainingType DEF Whole
<1>2. Budget' = Budget - 1 /\ Budget' \in Nat
  BY StatementLess DEF Declare
<1>3. Remaining(m)' < Remaining(m)
  BY <1>1, <1>2, Begins
<1>4. spec_counter \in Nat /\ closures \in Nat /\ UNCHANGED <<spec_counter, closures>>
  BY RemainingType DEF Declare
<1> QED BY <1>3, <1>4 DEF Advances

(* Every step is one of those, unless it ends lowering.                    *)
LEMMA NextAdvances ==
  ASSUME IInv, IInv', NEW m, Finitary(m), Next
  PROVE  \/ Advances(m)
         \/ status' # "lowering" /\ Remaining(m)' = Remaining(m)
            /\ UNCHANGED <<spec_counter, closures>>
<1>1. ASSUME NEW x \in Names, Declare(x) PROVE Advances(m)
  BY <1>1, DeclareAdvances
<1>2. CASE Begin
  BY <1>2, BeginAdvances
<1>3. CASE BindInEnv
  BY <1>3, BindInEnvAdvances
<1>4. CASE OpenClosure
  BY <1>4, OpenClosureAdvances
<1>5. CASE Finish
  BY <1>5, FinishAdvances
<1>6. CASE FinishStatement
  BY <1>6, FinishStatementAdvances
<1>7. CASE Fail \/ End
  <2>1. /\ status' # "lowering"
        /\ UNCHANGED <<pending, statements, specializations, spec_counter, closures>>
    BY <1>7 DEF Fail, End
  <2>2. Budget' = Budget /\ Work(pending)' = Work(pending)
    BY <2>1, SameBudget
  <2> QED BY <2>1, <2>2 DEF Remaining
<1>8. ASSUME NEW key \in Keys, NEW purpose \in Purposes, Reuse(key, purpose) PROVE Advances(m)
  BY <1>8, ReuseAdvances
<1>9. ASSUME NEW key \in Keys, NEW purpose \in Purposes, Specialize(key, purpose) PROVE Advances(m)
  BY <1>9, SpecializeAdvances
<1> QED BY <1>1, <1>2, <1>3, <1>4, <1>5, <1>6, <1>7, <1>8, <1>9 DEF Next, Step

(* No endless lowering: the number of what remains decreases with every    *)
(* step, as long as a program has finitely many lambdas, types and lists   *)
(* of captures (apply.rs:280-282).                                         *)
THEOREM Descent ==
  ASSUME NEW m, Finitary(m)
  PROVE  Spec => /\ [](Remaining(m) \in Nat)
                 /\ [][status' = "lowering" => Remaining(m)' < Remaining(m)]_vars
<1>1. IInv => Remaining(m) \in Nat
  BY RemainingType DEF Remaining
<1>2. IInv /\ IInv' /\ [Next]_vars => [status' = "lowering" => Remaining(m)' < Remaining(m)]_vars
  BY NextAdvances DEF Advances
<1> QED BY <1>1, <1>2, Invariance, PTL DEF Spec

(* So there is a bound on the functions that one program makes, whatever   *)
(* its lambdas do with each other.                                         *)
THEOREM FewSymbols ==
  ASSUME NEW m, Finitary(m)
  PROVE  Spec => [](spec_counter + closures <= (MaxStatements + Cardinality(Keys)) * Whole(m))
<1>0. PICK limit \in Nat : limit = (MaxStatements + Cardinality(Keys)) * Whole(m)
  <2>1. MaxStatements \in Nat /\ Cardinality(Keys) \in Nat /\ Whole(m) \in Nat
    BY BoundsAssumption, FS_CardinalityType DEF Finitary, Whole
  <2> QED BY <2>1
<1> DEFINE Numbers == Remaining(m) \in Nat /\ spec_counter \in Nat /\ closures \in Nat
           Within == spec_counter + closures + Remaining(m) <= limit
<1>1. IInv => Numbers
  BY RemainingType DEF Remaining
<1>2. Init => Within
  <2> SUFFICES ASSUME Init PROVE Within
    OBVIOUS
  <2>1. Uncached = Keys
    BY DEF Init, Uncached
  <2>2. Work(pending) = 0
    BY Weights!FoldEmpty DEF Init, Work
  <2>3. Remaining(m) = limit + 0
    BY <1>0, <2>1, <2>2 DEF Init, Remaining, Budget
  <2> QED BY <1>0, <2>3 DEF Init
<1>3. IInv /\ IInv' /\ [Next]_vars /\ Numbers /\ Numbers' /\ Within => Within'
  <2> SUFFICES ASSUME IInv, IInv', [Next]_vars, Numbers, Numbers', Within PROVE Within'
    OBVIOUS
  <2>1. CASE Advances(m)
    <3>1. /\ Remaining(m)' < Remaining(m)
          /\ spec_counter' + closures' <= spec_counter + closures + 1
      BY <2>1 DEF Advances
    <3>2. /\ Remaining(m) \in Nat /\ spec_counter \in Nat /\ closures \in Nat
          /\ Remaining(m)' \in Nat /\ spec_counter' \in Nat /\ closures' \in Nat
      OBVIOUS
    <3>3. spec_counter + closures + Remaining(m) <= limit
      OBVIOUS
    <3>4. spec_counter' + closures' + Remaining(m)' <= limit
      <4>1. PICK r \in Nat, q \in Nat : r = Remaining(m) /\ q = Remaining(m)'
        BY <3>2
      <4>2. PICK a \in Nat, b \in Nat : a = spec_counter /\ b = closures
        BY <3>2
      <4>3. PICK c \in Nat, d \in Nat : c = spec_counter' /\ d = closures'
        BY <3>2
      <4>4. q < r /\ c + d <= a + b + 1 /\ a + b + r <= limit
        BY <3>1, <3>3, <4>1, <4>2, <4>3
      <4>5. c + d + q <= limit
        BY <4>4
      <4> QED BY <4>1, <4>3, <4>5
    <3> QED BY <3>4
  <2>2. CASE Remaining(m)' = Remaining(m) /\ UNCHANGED <<spec_counter, closures>>
    BY <2>2
  <2>3. CASE UNCHANGED vars
    <3>1. UNCHANGED <<pending, statements, specializations, spec_counter, closures>>
      BY <2>3 DEF vars
    <3>2. Budget' = Budget /\ Work(pending)' = Work(pending)
      BY <3>1, SameBudget
    <3> QED BY <3>1, <3>2 DEF Remaining
  <2> QED BY <2>1, <2>2, <2>3, NextAdvances
<1>4. Numbers /\ Within
      => spec_counter + closures <= (MaxStatements + Cardinality(Keys)) * Whole(m)
  BY <1>0
<1> HIDE DEF Within, Numbers
<1> QED BY <1>1, <1>2, <1>3, <1>4, Invariance, PTL DEF Spec
=============================================================================

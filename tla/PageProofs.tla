----------------------------- MODULE PageProofs -----------------------------
(***************************************************************************)
(* Proofs about the pages of Client, for any visit of them.                *)
(***************************************************************************)
EXTENDS Client, Sequences, WellFoundedInduction, FiniteSetTheorems, TLAPS

-----------------------------------------------------------------------------
(***************************************************************************)
(* The calls of a page, n of them: each is a row while it is under way,    *)
(* and no step changes what it carries.                                    *)
(***************************************************************************)
Going(c) == c \notin {Idle, Ended}

IsCall(c) ==
    c = [hook |-> c.hook, body |-> c.body, state |-> c.state, awaits |-> c.awaits, heard |-> c.heard]

Calling(n, c) == DOMAIN c = 1..n /\ \A k \in 1..n : Going(c[k]) => IsCall(c[k])

Carries(c, d) == d.hook = c.hook /\ d.body = c.body

\* Each call of d was one of c.
Continues(n, c, d) == \A k \in 1..n : Going(d[k]) => \E j \in 1..n : Going(c[j]) /\ Carries(c[j], d[k])

\* Each call of d was one of c, or is one of hook h with the body b.
Sent(n, c, d, h, b) ==
    \A k \in 1..n : Going(d[k]) =>
        \/ \E j \in 1..n : Going(c[j]) /\ Carries(c[j], d[k])
        \/ d[k].hook = h /\ d[k].body = b

\* Another state of one call,
LEMMA StateContinues ==
    ASSUME NEW n \in Nat, NEW c, Calling(n, c), NEW k \in 1..n, Going(c[k]), NEW d,
           \/ \E s : d = [c EXCEPT ![k].state = s]
           \/ \E s, a : d = [c EXCEPT ![k].state = s, ![k].awaits = a]
    PROVE  Calling(n, d) /\ Continues(n, c, d)
<1>1. IsCall(c[k])
  BY DEF Calling
<1>2. DOMAIN d = 1..n /\ \A j \in 1..n : j # k => d[j] = c[j]
  BY DEF Calling
<1>3. IsCall(d[k]) /\ Carries(c[k], d[k])
  <2>1. CASE \E s : d = [c EXCEPT ![k].state = s]
    BY <1>1, <2>1 DEF Calling, IsCall, Carries
  <2>2. CASE \E s, a : d = [c EXCEPT ![k].state = s, ![k].awaits = a]
    <3>1. PICK s, a : d = [c EXCEPT ![k].state = s, ![k].awaits = a]
      BY <2>2
    <3>2. d[k] = [c[k] EXCEPT !.state = s, !.awaits = a]
      BY <3>1 DEF Calling
    <3> QED  BY <1>1, <3>2 DEF IsCall, Carries
  <2> QED  BY <2>1, <2>2
<1> QED  BY <1>2, <1>3 DEF Calling, Continues, Carries

\* the end of one,
LEMMA WithoutContinues ==
    ASSUME NEW n \in Nat, NEW c, Calling(n, c), NEW k \in 1..n, NEW d,
           d = [j \in 1..n |-> IF j = 1 THEN Ended ELSE IF j <= k THEN c[j - 1] ELSE c[j]]
    PROVE  Calling(n, d) /\ Continues(n, c, d)
<1>1. \A j \in 1..n : Going(d[j]) => \E i \in 1..n : d[j] = c[i]
  BY DEF Going
<1> QED  BY <1>1 DEF Calling, Continues, Carries

\* calls whose callbacks are taken away,
LEMMA UnheardContinues ==
    ASSUME NEW n \in Nat, NEW c, Calling(n, c), NEW d, DOMAIN d = 1..n,
           \A j \in 1..n : \/ d[j] = c[j]
                           \/ Going(c[j]) /\ d[j] = [c[j] EXCEPT !.heard = FALSE]
    PROVE  Calling(n, d) /\ Continues(n, c, d)
<1>1. ASSUME NEW j \in 1..n, Going(d[j]) PROVE IsCall(d[j]) /\ Going(c[j]) /\ Carries(c[j], d[j])
  <2>1. CASE d[j] = c[j]
    BY <1>1, <2>1 DEF Calling, Carries
  <2>2. CASE Going(c[j]) /\ d[j] = [c[j] EXCEPT !.heard = FALSE]
    <3>1. IsCall(c[j])
      BY <2>2 DEF Calling
    <3> QED  BY <2>2, <3>1 DEF IsCall, Carries
  <2> QED  BY <2>1, <2>2
<1> QED  BY <1>1 DEF Calling, Continues

\* and one call more.
LEMMA StartedSends ==
    ASSUME NEW n \in Nat, NEW c, Calling(n, c), NEW d, NEW h, NEW b, NEW new, DOMAIN d = 1..n,
           \A j \in 1..n :
               d[j] = IF j = new
                      THEN [hook |-> h, body |-> b, state |-> "sent", awaits |-> {}, heard |-> TRUE]
                      ELSE IF Going(c[j]) /\ c[j].hook = h THEN [c[j] EXCEPT !.heard = FALSE]
                      ELSE c[j]
    PROVE  Calling(n, d) /\ Sent(n, c, d, h, b)
<1>1. ASSUME NEW j \in 1..n, Going(d[j])
      PROVE  /\ IsCall(d[j])
             /\ \/ Going(c[j]) /\ Carries(c[j], d[j])
                \/ d[j].hook = h /\ d[j].body = b
  <2>1. CASE j = new
    <3>1. d[j] = [hook |-> h, body |-> b, state |-> "sent", awaits |-> {}, heard |-> TRUE]
      BY <2>1
    <3> QED  BY <3>1 DEF IsCall
  <2>2. CASE j # new /\ Going(c[j]) /\ c[j].hook = h
    <3>1. IsCall(c[j]) /\ d[j] = [c[j] EXCEPT !.heard = FALSE]
      BY <2>2 DEF Calling
    <3> QED  BY <2>2, <3>1 DEF IsCall, Carries
  <2>3. CASE j # new /\ ~(Going(c[j]) /\ c[j].hook = h)
    <3>1. d[j] = c[j]
      BY <2>3
    <3> QED  BY <1>1, <3>1 DEF Calling, Carries
  <2> QED  BY <2>1, <2>2, <2>3
<1> QED  BY <1>1 DEF Calling, Sent

-----------------------------------------------------------------------------
(***************************************************************************)
(* Which calls are under way after a step, and which were before it.       *)
(***************************************************************************)
Mine(c, h) == Going(c) /\ c.hook = h

\* The places of a call that is over, or not sent yet, hold no call.
NoCalls == ~IsCall(Idle) /\ ~IsCall(Ended) /\ Idle # Ended

Restated(c, d, k, s) ==
    \/ d = [c EXCEPT ![k].state = s]
    \/ \E a : d = [c EXCEPT ![k].state = s, ![k].awaits = a]

Dropped(n, c, d, k) ==
    d = [j \in 1..n |-> IF j = 1 THEN Ended ELSE IF j <= k THEN c[j - 1] ELSE c[j]]

Begun(n, c, d, h, b) ==
    \E new \in 1..n :
        /\ c[new] = Idle /\ \A j \in 1..n : c[j] = Idle => new <= j
        /\ d = [j \in 1..n |->
                  IF j = new
                  THEN [hook |-> h, body |-> b, state |-> "sent", awaits |-> {}, heard |-> TRUE]
                  ELSE IF Going(c[j]) /\ c[j].hook = h THEN [c[j] EXCEPT !.heard = FALSE]
                  ELSE c[j]]

\* Places are taken one after the other.
Filled(n, c) == \A i, j \in 1..n : i < j /\ c[i] = Idle => c[j] = Idle

\* Where the call at j was before the one at k was over,
Before(k, j) == IF j <= k THEN j - 1 ELSE j

\* and where the one at j is afterwards.
After(k, j) == IF j < k THEN j + 1 ELSE j

\* One call of the hook h is under way at most, and it is heard.
OneOf(n, c, h) == \A i, j \in 1..n : Mine(c[i], h) /\ Mine(c[j], h) => i = j /\ c[i].heard

\* A set of numbers that is not empty has a least one.
LEMMA LeastIsIn ==
    ASSUME NEW S, S \subseteq Nat, S # {}
    PROVE  LET least == CHOOSE x \in S : \A y \in S : x <= y
           IN  least \in S /\ \A y \in S : least <= y
<1>1. IsWellFoundedOn(OpToRel(<, Nat), Nat)
  BY NatLessThanWellFounded
<1>2. PICK x \in S : \A y \in S : ~(<<y, x>> \in OpToRel(<, Nat))
  BY <1>1, WFMin
<1>3. OpToRel(<, Nat) = {p \in Nat \X Nat : p[1] < p[2]}
  BY Zenon DEF OpToRel
<1>4. ASSUME NEW y \in S PROVE x <= y
  <2>1. <<y, x>> \notin {p \in Nat \X Nat : p[1] < p[2]}
    BY <1>2, <1>3
  <2>2. x \in Nat /\ y \in Nat /\ <<y, x>>[1] = y /\ <<y, x>>[2] = x
    OBVIOUS
  <2>3. ~(y < x)
    BY <2>1, <2>2
  <2> QED  BY <2>2, <2>3
<1> QED  BY <1>4

\* The call whose state changes goes on as it was, and the others are not touched.
LEMMA RestatedRows ==
    ASSUME NoCalls, NEW n \in Nat, NEW c, Calling(n, c), NEW k \in 1..n, Going(c[k]),
           NEW d, NEW s, Restated(c, d, k, s)
    PROVE  /\ Calling(n, d)
           /\ \A j \in 1..n : j # k => d[j] = c[j]
           /\ Going(d[k]) /\ d[k].state = s /\ d[k].heard = c[k].heard /\ Carries(c[k], d[k])
<1>1. Calling(n, d)
  BY StateContinues DEF Restated
<1>2. \A j \in 1..n : j # k => d[j] = c[j]
  BY DEF Calling, Restated
<1>3. IsCall(c[k])
  BY DEF Calling
<1>4. \E a : d[k] = [hook |-> c[k].hook, body |-> c[k].body, state |-> s, awaits |-> a, heard |-> c[k].heard]
  <2>1. CASE d = [c EXCEPT ![k].state = s]
    <3>1. d[k] = [c[k] EXCEPT !.state = s]
      BY <2>1 DEF Calling
    <3> QED  BY <1>3, <3>1 DEF IsCall
  <2>2. CASE \E a : d = [c EXCEPT ![k].state = s, ![k].awaits = a]
    <3>1. PICK a : d = [c EXCEPT ![k].state = s, ![k].awaits = a]
      BY <2>2
    <3>2. d[k] = [c[k] EXCEPT !.state = s, !.awaits = a]
      BY <3>1 DEF Calling
    <3> QED  BY <1>3, <3>2 DEF IsCall
  <2> QED  BY <2>1, <2>2 DEF Restated
<1>5. IsCall(d[k]) /\ d[k].state = s /\ d[k].heard = c[k].heard /\ Carries(c[k], d[k])
  BY <1>4 DEF IsCall, Carries
<1>6. Going(d[k])
  BY <1>5 DEF NoCalls, Going
<1> QED  BY <1>1, <1>2, <1>5, <1>6

\* When one is over the others go on as they were.
LEMMA DroppedRows ==
    ASSUME NEW n \in Nat, NEW c, Calling(n, c), NEW k \in 1..n, NEW d, Dropped(n, c, d, k)
    PROVE  /\ Calling(n, d)
           /\ \A j \in 1..n : Going(d[j]) =>
                 /\ Before(k, j) \in 1..n /\ Before(k, j) # k /\ d[j] = c[Before(k, j)]
                 /\ \A i \in 1..n : i # j => Before(k, i) # Before(k, j)
           /\ \A j \in 1..n : j # k => After(k, j) \in 1..n /\ d[After(k, j)] = c[j]
<1>1. Calling(n, d)
  BY WithoutContinues DEF Dropped
<1>2. ASSUME NEW j \in 1..n, Going(d[j])
      PROVE  /\ Before(k, j) \in 1..n /\ Before(k, j) # k /\ d[j] = c[Before(k, j)]
             /\ \A i \in 1..n : i # j => Before(k, i) # Before(k, j)
  <2>1. j # 1
    BY <1>2 DEF Dropped, Going
  <2> QED  BY <2>1 DEF Dropped, Before
<1>3. ASSUME NEW j \in 1..n, j # k PROVE After(k, j) \in 1..n /\ d[After(k, j)] = c[j]
  BY <1>3 DEF Dropped, After
<1> QED  BY <1>1, <1>2, <1>3

\* One that is sent is added to them, and takes callbacks away from those of its hook.
LEMMA BegunRows ==
    ASSUME NoCalls, NEW n \in Nat, NEW c, Calling(n, c), NEW d, NEW h, NEW b, Begun(n, c, d, h, b)
    PROVE  /\ Calling(n, d) /\ Sent(n, c, d, h, b)
           /\ \E new \in 1..n :
                 /\ ~Going(c[new]) /\ Going(d[new])
                 /\ d[new] = [hook |-> h, body |-> b, state |-> "sent", awaits |-> {}, heard |-> TRUE]
                 /\ \A j \in 1..n : j # new =>
                       /\ Going(d[j]) <=> Going(c[j])
                       /\ ~Mine(c[j], h) => d[j] = c[j]
                       /\ Mine(c[j], h) => Carries(c[j], d[j]) /\ d[j].state = c[j].state /\ ~d[j].heard
<1>1. PICK new \in 1..n :
        /\ c[new] = Idle /\ \A j \in 1..n : c[j] = Idle => new <= j
        /\ d = [j \in 1..n |->
                  IF j = new
                  THEN [hook |-> h, body |-> b, state |-> "sent", awaits |-> {}, heard |-> TRUE]
                  ELSE IF Going(c[j]) /\ c[j].hook = h THEN [c[j] EXCEPT !.heard = FALSE]
                  ELSE c[j]]
  BY DEF Begun
<1>2. Calling(n, d) /\ Sent(n, c, d, h, b)
  BY <1>1, StartedSends
<1>3. d[new] = [hook |-> h, body |-> b, state |-> "sent", awaits |-> {}, heard |-> TRUE]
  BY <1>1
<1>4. IsCall(d[new])
  BY <1>3 DEF IsCall
<1>5. ~Going(c[new]) /\ Going(d[new])
  BY <1>1, <1>4 DEF Going, NoCalls
<1>6. ASSUME NEW j \in 1..n, j # new
      PROVE  /\ Going(d[j]) <=> Going(c[j])
             /\ ~Mine(c[j], h) => d[j] = c[j]
             /\ Mine(c[j], h) => Carries(c[j], d[j]) /\ d[j].state = c[j].state /\ ~d[j].heard
  <2>1. ~Mine(c[j], h) => d[j] = c[j]
    BY <1>1, <1>6 DEF Mine
  <2>2. ASSUME Mine(c[j], h) PROVE Going(d[j]) /\ Carries(c[j], d[j]) /\ d[j].state = c[j].state /\ ~d[j].heard
    <3>1. IsCall(c[j]) /\ d[j] = [c[j] EXCEPT !.heard = FALSE]
      BY <1>1, <1>6, <2>2 DEF Mine, Calling
    <3>2. d[j] = [hook |-> c[j].hook, body |-> c[j].body, state |-> c[j].state, awaits |-> c[j].awaits, heard |-> FALSE]
      BY <3>1 DEF IsCall
    <3>3. IsCall(d[j])
      BY <3>2 DEF IsCall
    <3>4. Going(d[j])
      BY <3>3 DEF NoCalls, Going
    <3> QED  BY <3>2, <3>4 DEF Carries
  <2> QED  BY <2>1, <2>2 DEF Mine
<1> QED  BY <1>2, <1>3, <1>5, <1>6

\* That there is one call of a hook at most is kept by a change of state, by the end of a call,
LEMMA OneGoesOn ==
    ASSUME NoCalls, NEW n \in Nat, NEW c, Calling(n, c), NEW k \in 1..n, Going(c[k]), NEW d, NEW h,
           (\E s : Restated(c, d, k, s)) \/ Dropped(n, c, d, k), OneOf(n, c, h)
    PROVE  OneOf(n, d, h)
<1>1. CASE \E s : Restated(c, d, k, s)
  <2>1. /\ \A j \in 1..n : j # k => d[j] = c[j]
        /\ Going(d[k]) /\ d[k].heard = c[k].heard /\ Carries(c[k], d[k])
    BY <1>1, RestatedRows
  <2>2. \A j \in 1..n : Mine(d[j], h) => Mine(c[j], h) /\ d[j].heard = c[j].heard
    BY <2>1 DEF Mine, Carries
  <2> QED  BY <2>2 DEF OneOf
<1>2. CASE Dropped(n, c, d, k)
  <2>1. \A j \in 1..n : Going(d[j]) =>
                 /\ Before(k, j) \in 1..n /\ Before(k, j) # k /\ d[j] = c[Before(k, j)]
                 /\ \A i \in 1..n : i # j => Before(k, i) # Before(k, j)
    BY <1>2, DroppedRows
  <2>2. ASSUME NEW i \in 1..n, NEW j \in 1..n, Mine(d[i], h), Mine(d[j], h) PROVE i = j /\ d[i].heard
    <3>1. Mine(c[Before(k, i)], h) /\ Mine(c[Before(k, j)], h)
      BY <2>1, <2>2 DEF Mine
    <3>2. Before(k, i) = Before(k, j) /\ c[Before(k, i)].heard
      BY <2>1, <2>2, <3>1 DEF Mine, OneOf
    <3> QED  BY <2>1, <2>2, <3>2 DEF Mine
  <2> QED  BY <2>2 DEF OneOf
<1> QED  BY <1>1, <1>2

\* and by a call of another hook, or where there is none yet that is heard.
LEMMA OneBegins ==
    ASSUME NoCalls, NEW n \in Nat, NEW c, Calling(n, c), NEW d, NEW h, NEW b, NEW g,
           Begun(n, c, d, h, b), OneOf(n, c, g),
           h # g \/ \A j \in 1..n : ~(Mine(c[j], g) /\ c[j].heard)
    PROVE  OneOf(n, d, g)
<1>1. PICK new \in 1..n :
                 /\ ~Going(c[new]) /\ Going(d[new])
                 /\ d[new] = [hook |-> h, body |-> b, state |-> "sent", awaits |-> {}, heard |-> TRUE]
                 /\ \A j \in 1..n : j # new =>
                       /\ Going(d[j]) <=> Going(c[j])
                       /\ ~Mine(c[j], h) => d[j] = c[j]
                       /\ Mine(c[j], h) => Carries(c[j], d[j]) /\ d[j].state = c[j].state /\ ~d[j].heard
  BY BegunRows
<1>2. CASE h # g
  <2>1. \A j \in 1..n : Mine(d[j], g) => Mine(c[j], g) /\ d[j] = c[j]
    BY <1>1, <1>2 DEF Mine, Carries
  <2> QED  BY <2>1 DEF OneOf
<1>3. CASE h = g /\ \A j \in 1..n : ~(Mine(c[j], g) /\ c[j].heard)
  <2>1. \A j \in 1..n : ~Mine(c[j], g)
    BY <1>3 DEF OneOf
  <2>2. \A j \in 1..n : Mine(d[j], g) => j = new
    BY <1>1, <1>3, <2>1 DEF Mine
  <2> QED  BY <1>1, <2>2 DEF OneOf
<1> QED  BY <1>2, <1>3

\* Places are still taken one after the other when a call goes on or is over, and none
\* is taken by that,
LEMMA FilledStays ==
    ASSUME NoCalls, NEW n \in Nat, NEW c, Calling(n, c), NEW k \in 1..n, Going(c[k]), Filled(n, c),
           NEW d, (\E s : Restated(c, d, k, s)) \/ Dropped(n, c, d, k)
    PROVE  Filled(n, d) /\ \A j \in 1..n : c[j] = Idle => d[j] = Idle
<1>1. CASE \E s : Restated(c, d, k, s)
  <2>1. /\ \A j \in 1..n : j # k => d[j] = c[j]
        /\ Going(d[k])
    BY <1>1, RestatedRows
  <2> QED  BY <2>1 DEF Filled, Going
<1>2. CASE Dropped(n, c, d, k)
  <2>1. \A j \in 1..n : d[j] = IF j = 1 THEN Ended ELSE IF j <= k THEN c[j - 1] ELSE c[j]
    BY <1>2 DEF Dropped
  <2>2. \A j \in 1..n : j <= k => c[j] # Idle
    BY DEF Filled, Going
  <2>3. \A j \in 1..n : j <= k => d[j] # Idle
    <3>1. \A j \in 1..n : j <= k /\ j # 1 => j - 1 \in 1..n /\ j - 1 <= k
      OBVIOUS
    <3> QED  BY <2>1, <2>2, <3>1 DEF NoCalls
  <2>4. \A j \in 1..n : ~(j <= k) => d[j] = c[j]
    BY <2>1
  <2> QED  BY <2>2, <2>3, <2>4 DEF Filled
<1> QED  BY <1>1, <1>2

\* and when one is sent, it is that which takes a place.
LEMMA FilledBegins ==
    ASSUME NoCalls, NEW n \in Nat, NEW c, Calling(n, c), NEW d, NEW h, NEW b,
           Begun(n, c, d, h, b), Filled(n, c)
    PROVE  /\ Filled(n, d)
           /\ \A j \in 1..n : c[j] = Idle /\ d[j] # Idle => d[j].hook = h /\ d[j].body = b
<1>1. PICK new \in 1..n :
        /\ c[new] = Idle /\ \A j \in 1..n : c[j] = Idle => new <= j
        /\ d = [j \in 1..n |->
                  IF j = new
                  THEN [hook |-> h, body |-> b, state |-> "sent", awaits |-> {}, heard |-> TRUE]
                  ELSE IF Going(c[j]) /\ c[j].hook = h THEN [c[j] EXCEPT !.heard = FALSE]
                  ELSE c[j]]
  BY DEF Begun
<1>2. /\ d[new] = [hook |-> h, body |-> b, state |-> "sent", awaits |-> {}, heard |-> TRUE]
      /\ \A j \in 1..n : j # new => d[j] = c[j] \/ (Going(c[j]) /\ d[j] = [c[j] EXCEPT !.heard = FALSE])
  BY <1>1
<1>3. d[new] # Idle
  <2>1. IsCall(d[new])
    BY <1>2 DEF IsCall
  <2> QED  BY <2>1 DEF NoCalls
<1>4. \A j \in 1..n : j # new /\ c[j] = Idle => d[j] = Idle
  BY <1>2 DEF Going
<1>5. \A j \in 1..n : j # new /\ d[j] = Idle => c[j] = Idle
  <2> SUFFICES ASSUME NEW j \in 1..n, j # new, d[j] = Idle, Going(c[j]), d[j] = [c[j] EXCEPT !.heard = FALSE]
               PROVE  FALSE
    BY <1>2
  <2>1. IsCall(c[j])
    BY DEF Calling
  <2>2. d[j] = [hook |-> c[j].hook, body |-> c[j].body, state |-> c[j].state, awaits |-> c[j].awaits, heard |-> FALSE]
    BY <2>1 DEF IsCall
  <2>3. IsCall(d[j])
    BY <2>2 DEF IsCall
  <2> QED  BY <2>3 DEF NoCalls
<1>6. \A j \in 1..n : d[j] = Idle => new < j
  BY <1>1, <1>3, <1>5
<1>7. \A i, j \in 1..n : i < j /\ d[i] = Idle => d[j] = Idle
  BY <1>3, <1>4, <1>5, <1>6 DEF Filled
<1> QED  BY <1>2, <1>3, <1>4, <1>7 DEF Filled

\* The calls under way are of the hooks H,
Hooks(n, c, H) == Calling(n, c) /\ \A k \in 1..n : Going(c[k]) => c[k].hook \in H

\* and so they are when one of those is sent, goes on or is over.
LEMMA HooksStay ==
    ASSUME NoCalls, NEW n \in Nat, NEW c, NEW H, Hooks(n, c, H), NEW d,
           \/ \E k \in 1..n : Going(c[k]) /\ ((\E s : Restated(c, d, k, s)) \/ Dropped(n, c, d, k))
           \/ \E h \in H : \E b : Begun(n, c, d, h, b)
    PROVE  Hooks(n, d, H)
<1>1. CASE \E h \in H : \E b : Begun(n, c, d, h, b)
  <2>1. PICK h, b : h \in H /\ Begun(n, c, d, h, b)
    BY <1>1
  <2>2. Calling(n, d) /\ Sent(n, c, d, h, b)
    BY <2>1, BegunRows DEF Hooks
  <2> QED  BY <2>1, <2>2 DEF Hooks, Sent, Carries
<1>2. CASE \E k \in 1..n : Going(c[k]) /\ ((\E s : Restated(c, d, k, s)) \/ Dropped(n, c, d, k))
  <2>1. PICK k \in 1..n : Going(c[k]) /\ ((\E s : Restated(c, d, k, s)) \/ Dropped(n, c, d, k))
    BY <1>2
  <2>2. CASE \E s : Restated(c, d, k, s)
    <3>1. /\ Calling(n, d) /\ \A j \in 1..n : j # k => d[j] = c[j]
          /\ Carries(c[k], d[k])
      BY <2>1, <2>2, RestatedRows DEF Hooks
    <3> QED  BY <2>1, <3>1 DEF Hooks, Carries
  <2>3. CASE Dropped(n, c, d, k)
    <3>1. /\ Calling(n, d)
          /\ \A j \in 1..n : Going(d[j]) =>
                /\ Before(k, j) \in 1..n /\ Before(k, j) # k /\ d[j] = c[Before(k, j)]
                /\ \A i \in 1..n : i # j => Before(k, i) # Before(k, j)
      BY <2>3, DroppedRows DEF Hooks
    <3> QED  BY <3>1 DEF Hooks
  <2> QED  BY <2>1, <2>2, <2>3
<1> QED  BY <1>1, <1>2

-----------------------------------------------------------------------------
(***************************************************************************)
(* The review of an imported statement.                                    *)
(***************************************************************************)
Fits(row) == row.type = "transfer" <=> row.dest # None

IsRow(r) == r = [status |-> r.status, type |-> r.type, dest |-> r.dest]

RowsFit(rows) == rows = [r \in DOMAIN rows |-> rows[r]] /\ \A r \in DOMAIN rows : IsRow(rows[r]) /\ Fits(rows[r])

Statement(d) == d = [status |-> d.status, account |-> d.account, rec |-> d.rec] /\ RowsFit(d.rec)

\* The calls that do not carry a record.
NoRecord == {"confirm", "separate", "reject", "account", "keep", "replace"}

\* Records fit on the server, in the list last fetched, and in the calls under way.
ReviewInv ==
    /\ Statement(db)
    /\ seen = [batch |-> seen.batch, list |-> seen.list, hints |-> seen.hints, early |-> seen.early]
    /\ seen.list # NoData => RowsFit(seen.list)
    /\ Calling(ReviewCase.calls, call)
    /\ \A k \in 1..ReviewCase.calls :
          Going(call[k]) /\ call[k].hook \notin NoRecord => Fits(call[k].body)

\* Calls that only go on keep the invariant,
LEMMA ReviewContinues ==
    ASSUME ReviewInv, Calling(ReviewCase.calls, call'), Continues(ReviewCase.calls, call, call'),
           Statement(db'), UNCHANGED seen
    PROVE  ReviewInv'
BY DEF ReviewInv, Continues, Carries

\* one more call,
LEMMA ReviewSends ==
    ASSUME ReviewInv, NEW h, NEW b, Import!Sends(h, b), h \in NoRecord \/ Fits(b)
    PROVE  ReviewInv' /\ UNCHANGED page
<1> DEFINE n == ReviewCase.calls
<1>1. n \in Nat /\ Calling(n, call)
  BY ClientAssumption DEF ReviewInv
<1>2. call' = Import!Started(h, b) /\ UNCHANGED <<page, db, seen>>
  BY DEF Import!Sends, Import!Mutate
<1>3. DOMAIN call' = 1..n /\ \A j \in 1..n :
          call'[j] = IF j = Import!Min(Import!Free)
                     THEN [hook |-> h, body |-> b, state |-> "sent", awaits |-> {}, heard |-> TRUE]
                     ELSE IF Going(call[j]) /\ call[j].hook = h THEN [call[j] EXCEPT !.heard = FALSE]
                     ELSE call[j]
  BY <1>2 DEF Import!Started, Import!Slots, Import!Running, Going
<1> HIDE DEF n
<1>4. Calling(n, call') /\ Sent(n, call, call', h, b)
  BY <1>1, <1>3, StartedSends
<1> QED  BY <1>2, <1>4 DEF ReviewInv, Sent, Carries, n

\* callbacks taken away,
LEMMA ReviewUnheard ==
    ASSUME ReviewInv, NEW gone, call' = Import!Unheard(gone), UNCHANGED db
    PROVE  Calling(ReviewCase.calls, call') /\ Continues(ReviewCase.calls, call, call')
<1> DEFINE n == ReviewCase.calls
<1>1. n \in Nat /\ Calling(n, call)
  BY ClientAssumption DEF ReviewInv
<1>2. DOMAIN call' = 1..n /\ \A j \in 1..n :
          \/ call'[j] = call[j]
          \/ Going(call[j]) /\ call'[j] = [call[j] EXCEPT !.heard = FALSE]
  BY DEF Import!Unheard, Import!Slots, Import!Running, Going
<1> HIDE DEF n
<1>3. Calling(n, call') /\ Continues(n, call, call')
  BY <1>1, <1>2, UnheardContinues
<1> QED  BY <1>3 DEF n

\* and steps that only change what the page shows.
LEMMA ReviewLocally ==
    ASSUME ReviewInv, UNCHANGED <<db, seen, call>>
    PROVE  ReviewInv'
BY DEF ReviewInv

\* Each handler leaves records that fit.
LEMMA ReviewServed ==
    ASSUME ReviewInv, NEW k \in 1..ReviewCase.calls, Going(call[k]), Import!ServeImport(k)
    PROVE  /\ Statement(db') /\ UNCHANGED <<page, seen>>
           /\ call' = [call EXCEPT ![k].state = "done"]
<1> DEFINE h == call[k].hook
           b == call[k].body
<1>1. Statement(db)
  BY DEF ReviewInv
<1>2. CASE h \in {"confirm", "separate"}
  <2>1. db' = Import!ConfirmEffect(b) /\ call' = [call EXCEPT ![k].state = "done"] /\ UNCHANGED <<page, seen>>
    BY <1>2 DEF Import!ServeImport, Import!Serve
  <2> DEFINE statuses == IF b.force THEN {"pending", "duplicate"} ELSE {"pending"}
             chosen == {r \in Import!Asked(b.ids) : db.rec[r].status \in statuses}
  <2>2. /\ db' = [status |-> db.status, account |-> db.account, rec |-> db'.rec]
        /\ db'.rec = [r \in DOMAIN db.rec |->
             IF r \notin chosen THEN db.rec[r]
             ELSE [db.rec[r] EXCEPT !.status = IF Import!Convertible(db.rec[r]) THEN "confirmed" ELSE "failed"]]
    BY <1>1, <2>1 DEF Import!ConfirmEffect, Statement
  <2> HIDE DEF chosen
  <2>3. \A r \in DOMAIN db.rec : db'.rec[r] = db.rec[r] \/ \E st : db'.rec[r] = [db.rec[r] EXCEPT !.status = st]
    BY <2>2
  <2>4. RowsFit(db'.rec)
    BY <1>1, <2>2, <2>3 DEF Statement, RowsFit, IsRow, Fits
  <2> QED  BY <2>1, <2>2, <2>4 DEF Statement
<1>3. CASE h = "reject"
  <2>1. db' = Import!RejectEffect(b) /\ call' = [call EXCEPT ![k].state = "done"] /\ UNCHANGED <<page, seen>>
    BY <1>3 DEF Import!ServeImport, Import!Serve
  <2>2. /\ db' = [status |-> db.status, account |-> db.account, rec |-> db'.rec]
        /\ db'.rec = [r \in DOMAIN db.rec |->
             IF r \in Import!Asked(b.ids) /\ db.rec[r].status = "pending"
             THEN [db.rec[r] EXCEPT !.status = "rejected"] ELSE db.rec[r]]
    BY <1>1, <2>1 DEF Statement, Import!RejectEffect
  <2>3. RowsFit(db'.rec)
    BY <1>1, <2>2 DEF Statement, RowsFit, IsRow, Fits
  <2> QED  BY <2>1, <2>2, <2>3 DEF Statement
<1>4. CASE h = "account"
  BY <1>1, <1>4 DEF Import!ServeImport, Import!Serve, Statement
<1>5. CASE h \in {"keep", "replace"}
  <2>1. PICK r, st : db' = [db EXCEPT !.rec[r].status = st]
    BY <1>5 DEF Import!ServeImport, Import!Serve
  <2>2. call' = [call EXCEPT ![k].state = "done"] /\ UNCHANGED <<page, seen>>
    BY <1>5 DEF Import!ServeImport, Import!Serve
  <2>3. /\ db' = [status |-> db.status, account |-> db.account, rec |-> db'.rec]
        /\ db'.rec = [db.rec EXCEPT ![r].status = st]
    BY <1>1, <2>1 DEF Statement
  <2>4. RowsFit(db'.rec)
    BY <1>1, <2>3 DEF Statement, RowsFit, IsRow, Fits
  <2> QED  BY <2>2, <2>3, <2>4 DEF Statement
<1>6. CASE h \notin NoRecord
  <2>1. db' = Import!PatchEffect(b) /\ call' = [call EXCEPT ![k].state = "done"] /\ UNCHANGED <<page, seen>>
    BY <1>6 DEF Import!ServeImport, Import!Serve, NoRecord
  <2>2. Fits(b)
    BY <1>6 DEF ReviewInv
  <2>3. PICK st : db' = [db EXCEPT !.rec[b.record] = [status |-> st, type |-> b.type, dest |-> b.dest]]
    BY <2>1 DEF Import!PatchEffect
  <2>4. /\ db' = [status |-> db.status, account |-> db.account, rec |-> db'.rec]
        /\ db'.rec = [db.rec EXCEPT ![b.record] = [status |-> st, type |-> b.type, dest |-> b.dest]]
    BY <1>1, <2>3 DEF Statement
  <2>5. RowsFit(db'.rec)
    BY <1>1, <2>2, <2>4 DEF Statement, RowsFit, IsRow, Fits
  <2> QED  BY <2>1, <2>4, <2>5 DEF Statement
<1> QED  BY <1>2, <1>3, <1>4, <1>5, <1>6 DEF NoRecord

\* Calls, whatever becomes of them,
LEMMA ReviewCalls ==
    ASSUME ReviewInv, NEW k \in Import!Slots, Import!Running(k),
           \/ Import!ServeImport(k) \/ Import!SettleImport(k)
           \/ Import!Fails(k, Import!FailedImport(k)) \/ Import!Over(k, Import!HeardImport(k))
    PROVE  ReviewInv' /\ UNCHANGED page
<1> DEFINE n == ReviewCase.calls
<1>1. n \in Nat /\ Calling(n, call) /\ k \in 1..n /\ Going(call[k]) /\ Statement(db)
  BY ClientAssumption DEF ReviewInv, Import!Slots, Import!Running, Going
<1>2. CASE Import!ServeImport(k)
  <2>1. /\ Statement(db') /\ UNCHANGED <<page, seen>>
        /\ call' = [call EXCEPT ![k].state = "done"]
    BY <1>1, <1>2, ReviewServed
  <2>2. Calling(n, call') /\ Continues(n, call, call')
    <3> HIDE DEF n
    <3> QED  BY <1>1, <2>1, StateContinues
  <2> QED  BY <2>1, <2>2, ReviewContinues
<1>3. CASE Import!SettleImport(k)
  <2>1. /\ UNCHANGED <<page, db, seen>>
        /\ \E a : call' = [call EXCEPT ![k].state = "settling", ![k].awaits = a]
    BY <1>3 DEF Import!SettleImport, Import!Settles
  <2>2. Calling(n, call') /\ Continues(n, call, call')
    <3> HIDE DEF n
    <3> QED  BY <1>1, <2>1, StateContinues
  <2> QED  BY <1>1, <2>1, <2>2, ReviewContinues
<1>4. CASE Import!Fails(k, Import!FailedImport(k)) \/ Import!Over(k, Import!HeardImport(k))
  <2>1. UNCHANGED <<page, db, seen>> /\ call' = Import!Without(k)
    BY <1>4 DEF Import!Fails, Import!Over
  <2>2. call' = [j \in 1..n |-> IF j = 1 THEN Ended ELSE IF j <= k THEN call[j - 1] ELSE call[j]]
    BY <2>1 DEF Import!Without, Import!Slots
  <2>3. Calling(n, call') /\ Continues(n, call, call')
    <3> HIDE DEF n
    <3> QED  BY <1>1, <2>2, WithoutContinues
  <2> QED  BY <1>1, <2>1, <2>3, ReviewContinues
<1> QED  BY <1>2, <1>3, <1>4

\* what is fetched,
LEMMA ReviewFetched ==
    ASSUME ReviewInv, NEW q, Import!FetchImport(q)
    PROVE  ReviewInv' /\ UNCHANGED page
<1> DEFINE n == ReviewCase.calls
<1>1. n \in Nat /\ Calling(n, call) /\ Statement(db)
  BY ClientAssumption DEF ReviewInv
<1>2. seen' = [Import!AnswerOf(q) EXCEPT !.early = Import!Early(q)] /\ UNCHANGED <<page, db>>
  BY DEF Import!FetchImport
<1>3. /\ seen' = [batch |-> seen'.batch, list |-> seen'.list, hints |-> seen'.hints,
                   early |-> seen'.early]
      /\ seen'.list # NoData => RowsFit(seen'.list)
  <2>1. CASE q = "batch" \/ q = "hints"
    BY <1>2, <2>1 DEF Import!AnswerOf, ReviewInv
  <2>2. CASE q # "batch" /\ q # "hints"
    <3> DEFINE having == {r \in DOMAIN db.rec : db.rec[r].status = q}
    <3>1. seen' = [[seen EXCEPT !.list = [r \in having |-> db.rec[r]]] EXCEPT !.early = Import!Early(q)]
      BY <1>2, <2>2 DEF Import!AnswerOf
    <3>2. seen' = [batch |-> seen.batch, list |-> [r \in having |-> db.rec[r]], hints |-> seen.hints,
                   early |-> Import!Early(q)]
      BY <3>1 DEF ReviewInv
    <3>3. RowsFit([r \in having |-> db.rec[r]])
      BY <1>1 DEF Statement, RowsFit
    <3> QED  BY <3>2, <3>3
  <2> QED  BY <2>1, <2>2
<1>4. Calling(n, call') /\ Continues(n, call, call')
  <2>1. CASE q = ui.tab
    BY <1>2, <2>1, ReviewUnheard DEF Import!FetchImport, Import!Leaving
  <2>2. CASE q # ui.tab
    BY <1>1, <2>2 DEF Import!FetchImport, Continues, Carries
  <2> QED  BY <2>1, <2>2
<1> QED  BY <1>1, <1>2, <1>3, <1>4 DEF ReviewInv, Continues, Carries

\* what is stored when the statement has been parsed,
LEMMA ReviewParsed ==
    ASSUME ReviewInv, Import!ParsingEnds
    PROVE  ReviewInv' /\ UNCHANGED page
<1>1. PICK known \in SUBSET ReviewCase.records :
          db' = [db EXCEPT !.status = "completed", !.rec =
              [r \in ReviewCase.records |-> [status |-> IF r \in known THEN "duplicate" ELSE "pending",
                                             type |-> "expense", dest |-> None]]]
  BY DEF Import!ParsingEnds
<1>2. db' = [status |-> "completed", account |-> db.account, rec |-> db'.rec] /\
      db'.rec = [r \in ReviewCase.records |-> [status |-> IF r \in known THEN "duplicate" ELSE "pending",
                                             type |-> "expense", dest |-> None]]
  BY <1>1 DEF ReviewInv, Statement
<1>3. Statement(db')
  BY <1>2 DEF Statement, RowsFit, IsRow, Fits
<1> QED  BY <1>3 DEF Import!ParsingEnds, ReviewInv

\* and what the user does with a row: he sends records that fit, as the page does not let him
\* save a transfer without a destination and sends none for anything else.
LEMMA ReviewRows ==
    ASSUME ReviewInv, NEW r, Import!RowSteps(r)
    PROVE  ReviewInv' /\ UNCHANGED page
<1>1. CASE Import!SaveEdit(r)
  <2>1. Fits(Import!EditPatch(r)) /\ Import!Sends(r, Import!EditPatch(r))
    BY <1>1 DEF Import!SaveEdit, Import!EditPatch, Fits
  <2> QED  BY <2>1, ReviewSends
<1>2. CASE Import!ApplySuggestion(r)
  <2> DEFINE b == [record |-> r, from |-> "view", type |-> "transfer", dest |-> Card, status |-> None]
  <2>1. Fits(b) /\ Import!Sends(r, b)
    BY <1>2, ClientAssumption DEF Import!ApplySuggestion, Fits
  <2> QED  BY <2>1, ReviewSends
<1>3. CASE Import!SaveNameEdit(r)
  <2> DEFINE row == Import!Listed[r]
             b == [record |-> r, from |-> "name", type |-> row.type, dest |-> row.dest, status |-> None]
  <2>1. CASE Import!Sends(r, b)
    <3>1. seen.list # NoData /\ r \in DOMAIN seen.list
      BY <1>3 DEF Import!SaveNameEdit, Import!Shown, Import!Listed
    <3>2. Fits(b)
      BY <3>1 DEF ReviewInv, RowsFit, Fits, Import!Listed
    <3> QED  BY <2>1, <3>2, ReviewSends
  <2>2. CASE \E new : Import!SetRow(r, new)
    BY <2>2, ReviewLocally DEF Import!SetRow, Import!Locally
  <2> QED  BY <1>3, <2>1, <2>2 DEF Import!SaveNameEdit
<1>4. CASE \E new : Import!SetRow(r, new)
  BY <1>4, ReviewLocally DEF Import!SetRow, Import!Locally
<1>5. Import!StartEdit(r) \/ Import!CancelEdit(r) \/ Import!StartNameEdit(r)
        \/ (\E type, dest : Import!TypeDraft(r, type, dest)) => \E new : Import!SetRow(r, new)
  BY DEF Import!StartEdit, Import!CancelEdit, Import!StartNameEdit, Import!TypeDraft
<1> QED  BY <1>1, <1>2, <1>3, <1>4, <1>5 DEF Import!RowSteps

\* Other actions of the user send no record.
LEMMA ReviewUser ==
    ASSUME ReviewInv, Import!ImportUser
    PROVE  ReviewInv' /\ UNCHANGED page
<1>1. CASE \E t \in Import!Tabs : Import!SelectTab(t)
  <2>1. /\ UNCHANGED <<page, db>> /\ seen' = [seen EXCEPT !.list = NoData, !.early = {}]
        /\ call' = Import!Leaving(<<>>)
    BY <1>1 DEF Import!SelectTab
  <2>2. /\ Calling(ReviewCase.calls, call') /\ Continues(ReviewCase.calls, call, call')
    BY <2>1, ReviewUnheard DEF Import!Leaving
  <2>3. seen' = [batch |-> seen.batch, list |-> NoData, hints |-> seen.hints, early |-> {}]
    BY <2>1 DEF ReviewInv
  <2> QED  BY <2>1, <2>2, <2>3 DEF ReviewInv, Continues, Carries
<1>2. CASE Import!CloseResolve
  <2>1. UNCHANGED <<page, db, seen>> /\ \E gone : call' = Import!Unheard(gone)
    BY <1>2 DEF Import!CloseResolve
  <2>2. /\ Calling(ReviewCase.calls, call') /\ Continues(ReviewCase.calls, call, call')
    BY <2>1, ReviewUnheard
  <2> QED  BY <2>1, <2>2, ReviewContinues DEF ReviewInv
<1>3. CASE \E h \in NoRecord : \E b : Import!Sends(h, b)
  BY <1>3, ReviewSends
<1>4. CASE \E new : Import!Locally(new)
  BY <1>4, ReviewLocally DEF Import!Locally
<1>5. CASE \E r : Import!RowSteps(r)
  BY <1>5, ReviewRows
<1>6. \/ Import!RejectSelected \/ Import!KeepExisting \/ Import!ImportSeparate \/ Import!Replace
      \/ (\E force : Import!ConfirmSelected(force)) \/ (\E a : Import!SelectAccount(a))
      => \E h \in NoRecord : \E b : Import!Sends(h, b)
  BY DEF Import!RejectSelected, Import!KeepExisting, Import!ImportSeparate, Import!Replace,
         Import!ConfirmSelected, Import!SelectAccount, NoRecord
<1>7. \/ Import!ToggleAll \/ Import!OpenReject \/ Import!CancelReject \/ Import!OpenReplace
      \/ Import!CancelReplace \/ (\E r : Import!ToggleSelect(r) \/ Import!OpenResolve(r))
      => \E new : Import!Locally(new)
  BY DEF Import!ToggleAll, Import!OpenReject, Import!CancelReject, Import!OpenReplace,
         Import!CancelReplace, Import!ToggleSelect, Import!OpenResolve
<1> QED
  BY <1>1, <1>2, <1>3, <1>4, <1>5, <1>6, <1>7 DEF Import!ImportUser, Import!ModalSteps

\* So the invariant holds when the page is opened,
LEMMA ReviewInit == ASSUME Import!ImportInit PROVE ReviewInv
<1>1. /\ call = [k \in 1..ReviewCase.calls |-> Idle]
      /\ seen = [batch |-> NoData, list |-> NoData, hints |-> NoData, early |-> {}]
  BY DEF Import!ImportInit, Import!Slots
<1>2. Statement(db)
  BY DEF Import!ImportInit, Statement, RowsFit
<1> QED  BY <1>1, <1>2 DEF ReviewInv, Calling, Going

\* and each step keeps it.
LEMMA ReviewStep == ASSUME ReviewInv, Import!ImportNext PROVE ReviewInv' /\ UNCHANGED page
BY ReviewCalls, ReviewFetched, ReviewParsed, ReviewUser DEF Import!ImportNext, Import!ImportClient

-----------------------------------------------------------------------------
(***************************************************************************)
(* The other pages.  No page turns into another while it is visited.       *)
(***************************************************************************)
\* The split form,
LEMMA FormFrame == ASSUME Form!FormNext PROVE UNCHANGED page
BY DEF Form!AddCard, Form!Cancel, Form!CardRemainder, Form!CardSteps, Form!ChoosePayee,
       Form!CreatePayee, Form!Edits, Form!Fails, Form!FetchForm, Form!FetchTxn,
       Form!FetchTxnFails, Form!FormClient, Form!FormNext, Form!FormUser, Form!LinkIncome,
       Form!Locally, Form!MyShareRemainder, Form!Over, Form!PayeeAnswered,
       Form!PayeeSettles, Form!PickExpense, Form!Picks, Form!RemoveCard, Form!RemoveExpense,
       Form!Returns, Form!SaveAnswered, Form!Sends, Form!Serve, Form!ServeForm,
       Form!ServePayee, Form!SetExcluded, Form!Settles, Form!Submit, Form!TypeAmount,
       Form!TypeForgiven, Form!TypeMyShare, Form!UnlinkIncome

\* the drawer and page of a split,
LEMMA SharesFrame == ASSUME Shares!ShareNext PROVE UNCHANGED page
BY DEF Shares!ActivateAction, Shares!AllRemaining, Shares!AnswerShare, Shares!CancelDelete,
       Shares!CancelForm, Shares!CancelReset, Shares!CancelUnlink, Shares!ChoosePayee,
       Shares!EditIncome, Shares!Fails, Shares!FetchIncomes, Shares!FetchSplit, Shares!Locally, Shares!OpenDelete, Shares!OpenEdit,
       Shares!OpenForgive, Shares!OpenReset, Shares!OpenSettle, Shares!OpenUnlink,
       Shares!PickPayment, Shares!Returns, Shares!SendDelete, Shares!SendEdit,
       Shares!SendForgive, Shares!SendReset, Shares!SendSettle, Shares!SendUnlink,
       Shares!Sends, Shares!Serve, Shares!ServeShare, Shares!SetForm, Shares!ShareClient,
       Shares!ShareNext, Shares!ShareUser, Shares!ToggleShare, Shares!TypeForgive,
       Shares!TypeSettle, Shares!TypeShareAmount

\* the list of transactions,
LEMMA ListFrame == ASSUME List!ListNext PROVE UNCHANGED page
BY DEF List!AnswerRow, List!ApplyFilters, List!BrowserBack, List!CancelDelete, List!CancelEditDesc,
       List!ChangePageSize, List!ChangePeriod, List!ChangeSort, List!ChooseType,
       List!ClearFilters, List!CloseBlocked, List!CloseDrawer, List!ConfirmDelete,
       List!FailRow, List!Fails, List!FetchList, List!GoNext, List!GoPrev, List!Goto,
       List!ListNext, List!ListUser, List!Locally, List!OpenDelete, List!OpenDrawer,
       List!RefuseRow, List!Reload, List!Returns, List!RowUser, List!SaveEditDesc,
       List!Sends, List!Serve, List!ServeRow, List!StartEditDesc, List!ToggleFilters,
       List!TypeDesc

\* the form of one,
LEMMA TxnFormFrame == ASSUME TxnForm!TxnFormNext PROVE UNCHANGED page
BY DEF TxnForm!AnswerTxn, TxnForm!ChooseAccount, TxnForm!ChooseCategory, TxnForm!ChooseMethod,
       TxnForm!ChoosePayee, TxnForm!ChooseTo, TxnForm!ChooseType, TxnForm!CreateInline,
       TxnForm!Edited, TxnForm!Fails, TxnForm!FetchTxn, TxnForm!FetchTxnFails, TxnForm!FormUser, TxnForm!Locally,
       TxnForm!OtherTab, TxnForm!Refocus, TxnForm!Returns, TxnForm!Sends, TxnForm!Serve,
       TxnForm!ServeTxn, TxnForm!Submit, TxnForm!ToggleTag, TxnForm!TxnFormNext,
       TxnForm!TypeAmount, TxnForm!TypeText

\* the period,
LEMMA DatesFrame == ASSUME Dates!PeriodNext PROVE UNCHANGED page
BY DEF Dates!ChooseMode, Dates!ClosePicker, Dates!Locally, Dates!OpenPicker, Dates!PeriodNext,
       Dates!PickDay, Dates!PickMonth, Dates!PickQuarter, Dates!PickWeek, Dates!PickYear,
       Dates!TurnMonth, Dates!TurnYear

\* the earmarks,
LEMMA PilesFrame == ASSUME Piles!EarmarkNext PROVE UNCHANGED page
BY DEF Piles!AnswerEarmark, Piles!AskDelete, Piles!AskDeleteInDrawer, Piles!CancelDelete,
       Piles!CancelInDrawer, Piles!CloseDrawer, Piles!ConfirmDelete, Piles!ConfirmInDrawer,
       Piles!EarmarkNext, Piles!EarmarkUser, Piles!Edited, Piles!Fails, Piles!FetchItem, Piles!FetchItemFails,
       Piles!FetchList, Piles!HandleCreate, Piles!HandleEdit, Piles!HandleSubmit,
       Piles!HandleToggle, Piles!Locally, Piles!OpenDrawer, Piles!Returns, Piles!Sends,
       Piles!Serve, Piles!ServeEarmark, Piles!ToggleInDrawer, Piles!TypeAmount,
       Piles!TypeNote

\* the budgets,
LEMMA PlansFrame == ASSUME Plans!BudgetNext PROVE UNCHANGED page
BY DEF Plans!AnswerBudget, Plans!AskDelete, Plans!BudgetNext, Plans!BudgetUser, Plans!CancelDelete,
       Plans!ChoosePeriod, Plans!ChoosePredefined, Plans!ChooseSchedule, Plans!ChooseScope,
       Plans!ChooseType, Plans!CloseBudget, Plans!CloseCreate, Plans!Edited, Plans!Fails,
       Plans!FetchItem, Plans!FetchList, Plans!HandleCreate, Plans!HandleDelete,
       Plans!Locally, Plans!OpenBudget, Plans!OpenCreate, Plans!Sends, Plans!Serve,
       Plans!ServeBudget, Plans!TypeDays

\* the form of one,
LEMMA PlanFormFrame == ASSUME PlanForm!BudgetFormNext PROVE UNCHANGED page
BY DEF PlanForm!AffectCurrent, PlanForm!AnswerBudget, PlanForm!BudgetFormNext,
       PlanForm!CancelScope, PlanForm!ChooseCategory, PlanForm!ChooseRule,
       PlanForm!ChooseType, PlanForm!ConfirmScope, PlanForm!Edited, PlanForm!Fails,
       PlanForm!FetchBudget, PlanForm!FormUser, PlanForm!Locally, PlanForm!OtherTab,
       PlanForm!Refocus, PlanForm!Returns, PlanForm!Sends, PlanForm!Serve,
       PlanForm!ServeBudget, PlanForm!SubmitEdit, PlanForm!SubmitNew,
       PlanForm!SubmitRecurring, PlanForm!TypeAmount, PlanForm!TypeEnd

\* the accounts,
LEMMA WalletsFrame == ASSUME Wallets!AccountNext PROVE UNCHANGED page
BY DEF Wallets!AccountNext, Wallets!AnswerAccount, Wallets!AskDelete, Wallets!AskDeleteMethod,
       Wallets!CancelDelete, Wallets!CancelDeleteMethod, Wallets!CloseAddMethod,
       Wallets!CloseCreate, Wallets!CloseDrawer, Wallets!CloseEdit, Wallets!ConfirmDelete,
       Wallets!ConfirmDeleteMethod, Wallets!DialogUser, Wallets!Expand, Wallets!Fails,
       Wallets!FetchList, Wallets!FetchMethods, Wallets!HandleAddMethod,
       Wallets!HandleCreate, Wallets!HandleEdit, Wallets!Locally, Wallets!OpenAddMethod,
       Wallets!OpenCreate, Wallets!OpenDrawer, Wallets!OpenEdit, Wallets!Opened,
       Wallets!Opening, Wallets!Over, Wallets!PanelUser, Wallets!Sends, Wallets!Serve,
       Wallets!ServeAccount, Wallets!SettleAccount, Wallets!Settles, Wallets!ToggleActive,
       Wallets!TypeAccount, Wallets!TypeEdit, Wallets!TypeMethod

\* the savings goals.
LEMMA GoalsFrame == ASSUME Goals!PigNext PROVE UNCHANGED page
BY DEF Goals!AddContribution, Goals!AnswerPig, Goals!AskDeleteHere, Goals!AskRemove,
       Goals!CancelContribution, Goals!CancelDelete, Goals!CancelDeleteHere,
       Goals!CancelGoal, Goals!CancelRemove, Goals!CloseDrawer, Goals!ConfirmDelete,
       Goals!ConfirmDeleteHere, Goals!ConfirmRemove, Goals!Fails, Goals!FetchContributions,
       Goals!FetchItem, Goals!FetchList, Goals!GoalUser, Goals!Locally,
       Goals!OpenContribution, Goals!OpenDelete, Goals!OpenDrawer, Goals!OpenGoal,
       Goals!Opening, Goals!PigNext, Goals!Sends, Goals!Serve, Goals!ServePig,
       Goals!SubmitGoal, Goals!TypeContribution, Goals!TypeGoal

-----------------------------------------------------------------------------
(***************************************************************************)
(* The form of a transaction.                                              *)
(***************************************************************************)
IsForm(r) == r = TxnForm!FormOf(r)

\* A query that has had no answer holds nothing like a transaction.
NoForm == NoData # None /\ ~IsForm(NoData)

TxnHooks == {"create", "patch", "newTag", "newPayee", "newCategory"}

\* Forms, the transaction and the bodies that patch it have all the fields.
TxnShapes ==
    /\ ui = [editing |-> ui.editing, loaded |-> ui.loaded, form |-> ui.form,
             touched |-> ui.touched, changes |-> ui.changes, done |-> ui.done]
    /\ db = [txn |-> db.txn, created |-> db.created, tags |-> db.tags,
             payees |-> db.payees, categories |-> db.categories]
    /\ seen = [txn |-> seen.txn]
    /\ IsForm(ui.form)
    /\ db.txn = None \/ IsForm(db.txn)
    /\ ui.editing => IsForm(db.txn)
    /\ \A k \in 1..TxnFormCase.calls : Going(call[k]) =>
          /\ call[k].hook \in TxnHooks
          /\ call[k].hook = "patch" => IsForm(call[k].body)

\* Once the transaction has been added, the form is gone, or is about to hear of it.
TxnCounted ==
    ~lost =>
        /\ db.created \in {0, 1}
        /\ OneOf(TxnFormCase.calls, call, "create")
        /\ db.created = 1 =>
              ui.done \/ \E k \in 1..TxnFormCase.calls : Mine(call[k], "create") /\ call[k].state = "done"
        /\ \A k \in 1..TxnFormCase.calls :
              Mine(call[k], "create") /\ call[k].state = "sent" => db.created = 0

TxnFormInv ==
    Calling(TxnFormCase.calls, call) /\ TxnShapes /\ TxnCounted /\ TxnForm!FormFollowsRow

\* A form that is changed in some fields has them all,
LEMMA FormsStay ==
    ASSUME NEW r, IsForm(r)
    PROVE  /\ \A v : /\ IsForm([r EXCEPT !.type = v]) /\ IsForm([r EXCEPT !.amount = v])
                     /\ IsForm([r EXCEPT !.to = v]) /\ IsForm([r EXCEPT !.method = v])
                     /\ IsForm([r EXCEPT !.payee = v]) /\ IsForm([r EXCEPT !.category = v])
                     /\ IsForm([r EXCEPT !.tags = v]) /\ IsForm([r EXCEPT !.text = v])
           /\ \A v, w : IsForm([r EXCEPT !.account = v, !.method = w])
           /\ IsForm(TxnForm!WithDefault(r))
<1> SUFFICES ASSUME NEW v, NEW w
             PROVE  /\ IsForm([r EXCEPT !.type = v]) /\ IsForm([r EXCEPT !.amount = v])
                    /\ IsForm([r EXCEPT !.to = v]) /\ IsForm([r EXCEPT !.method = v])
                    /\ IsForm([r EXCEPT !.payee = v]) /\ IsForm([r EXCEPT !.category = v])
                    /\ IsForm([r EXCEPT !.tags = v]) /\ IsForm([r EXCEPT !.text = v])
                    /\ IsForm([r EXCEPT !.account = v, !.method = w])
                    /\ IsForm(TxnForm!WithDefault(r))
  OBVIOUS
<1>1. PICK t, a, c, o, m, p, g, s, x :
            r = [type |-> t, amount |-> a, account |-> c, to |-> o, method |-> m,
                 payee |-> p, category |-> g, tags |-> s, text |-> x]
  BY DEF IsForm, TxnForm!FormOf
<1>2. IsForm([r EXCEPT !.type = v]) /\ IsForm([r EXCEPT !.amount = v])
  BY <1>1 DEF IsForm, TxnForm!FormOf
<1>3. IsForm([r EXCEPT !.to = v]) /\ IsForm([r EXCEPT !.method = v])
  BY <1>1 DEF IsForm, TxnForm!FormOf
<1>4. IsForm([r EXCEPT !.payee = v])
  BY <1>1 DEF IsForm, TxnForm!FormOf
<1>5. \A d : IsForm([r EXCEPT !.category = d])
  BY <1>1 DEF IsForm, TxnForm!FormOf
<1>6. IsForm([r EXCEPT !.tags = v]) /\ IsForm([r EXCEPT !.text = v])
  BY <1>1 DEF IsForm, TxnForm!FormOf
<1>7. ASSUME NEW f, f = [r EXCEPT !.account = v, !.method = w]
      PROVE  IsForm(f)
  <2>1. f = [type |-> t, amount |-> a, account |-> v, to |-> o, method |-> w,
             payee |-> p, category |-> g, tags |-> s, text |-> x]
    BY <1>1, <1>7
  <2> QED  BY <2>1 DEF IsForm, TxnForm!FormOf
<1>8. IsForm([r EXCEPT !.account = v, !.method = w])
  BY <1>7, Zenon
<1>9. \E d : TxnForm!WithDefault(r) = [r EXCEPT !.category = d]
  BY DEF TxnForm!WithDefault
<1> QED  BY <1>2, <1>3, <1>4, <1>5, <1>6, <1>8, <1>9

\* and so has one that follows a transaction, of which it shows all but the category.
LEMMA FollowedIsIt ==
    ASSUME NEW txn, txn # NoData
    PROVE  LET form == TxnForm!Followed(txn)
           IN  /\ IsForm(form)
               /\ form.category \in {txn.category, TxnForm!DefaultCategory(txn.payee)}
               /\ [form EXCEPT !.category = txn.category] = TxnForm!FormOf(txn)
<1> DEFINE form == [TxnForm!FormOf(txn) EXCEPT !.method = TxnForm!MethodFor(txn.account, txn)]
<1>1. TxnForm!MethodFor(txn.account, txn) = txn.method
  BY DEF TxnForm!MethodFor
<1>2. form = TxnForm!FormOf(txn)
  BY <1>1 DEF TxnForm!FormOf
<1>3. TxnForm!Followed(txn) = IF ~ui.loaded \/ txn.payee # ui.form.payee THEN TxnForm!WithDefault(form) ELSE form
  BY DEF TxnForm!Followed
<1>4. IsForm(form)
  BY <1>2 DEF IsForm, TxnForm!FormOf
<1>5. form.category = txn.category /\ form.payee = txn.payee
  BY <1>2 DEF TxnForm!FormOf
<1>6. \A v : [[form EXCEPT !.category = v] EXCEPT !.category = txn.category] = form
  BY <1>2 DEF TxnForm!FormOf
<1>7. [form EXCEPT !.category = txn.category] = form
  BY <1>2 DEF TxnForm!FormOf
<1>8. \A v : [form EXCEPT !.category = v].category = v
  BY <1>2 DEF TxnForm!FormOf
<1>9. TxnForm!WithDefault(form) = [form EXCEPT !.category =
            IF form.category = None THEN TxnForm!DefaultCategory(form.payee) ELSE form.category]
  BY DEF TxnForm!WithDefault
<1>10. IsForm(TxnForm!WithDefault(form))
  BY <1>4, FormsStay
<1>11. PICK c \in {txn.category, TxnForm!DefaultCategory(txn.payee)} :
                TxnForm!WithDefault(form) = [form EXCEPT !.category = c]
  BY <1>5, <1>9
<1> HIDE DEF form
<1>12. CASE TxnForm!Followed(txn) = form
  BY <1>2, <1>4, <1>5, <1>7, <1>12
<1>13. CASE TxnForm!Followed(txn) = TxnForm!WithDefault(form)
  BY <1>2, <1>6, <1>8, <1>10, <1>11, <1>13
<1> QED  BY <1>3, <1>12, <1>13

\* and so has a transaction that is patched with one.
LEMMA PatchedIsForm == ASSUME NEW row, NEW b, IsForm(b) PROVE IsForm(TxnForm!PatchedTxn(row, b))
<1> DEFINE patched == TxnForm!PatchedTxn(row, b)
<1>1. PICK t, a, c, o, m, p, g, s, x :
            b = [type |-> t, amount |-> a, account |-> c, to |-> o, method |-> m,
                 payee |-> p, category |-> g, tags |-> s, text |-> x]
  BY DEF IsForm, TxnForm!FormOf
<1>2. PICK o1, m1, p1, x1 : patched = [b EXCEPT !.to = o1, !.method = m1, !.payee = p1, !.text = x1]
  BY Zenon DEF TxnForm!PatchedTxn
<1> HIDE DEF patched
<1>3. patched = [type |-> t, amount |-> a, account |-> c, to |-> o1, method |-> m1,
                 payee |-> p1, category |-> g, tags |-> s, text |-> x1]
  BY <1>1, <1>2
<1> QED  BY <1>3 DEF patched, IsForm, TxnForm!FormOf

\* The user changes a field,
LEMMA TxnEdited ==
    ASSUME TxnFormInv, NEW form, IsForm(form), TxnForm!Edited(form)
    PROVE  TxnFormInv'
<1>1. /\ ui' = [ui EXCEPT !.form = form, !.touched = TRUE, !.changes = @ + 1]
      /\ UNCHANGED <<page, db, seen, due, call, lost>>
  BY DEF TxnForm!Edited, TxnForm!Locally
<1>2. /\ ui' = [editing |-> ui.editing, loaded |-> ui.loaded, form |-> form,
                touched |-> TRUE, changes |-> ui.changes + 1, done |-> ui.done]
  BY <1>1 DEF TxnFormInv, TxnShapes
<1> QED  BY <1>1, <1>2 DEF TxnFormInv, TxnShapes, TxnCounted, TxnForm!FormFollowsRow

\* sends a call,
LEMMA TxnSends ==
    ASSUME NoCalls, TxnFormInv, NEW h, NEW b, TxnForm!Sends(h, b), h \in TxnHooks,
           h = "patch" => IsForm(b),
           h = "create" => ~ui.done /\ ~TxnForm!Pending("create")
    PROVE  TxnFormInv'
<1> DEFINE n == TxnFormCase.calls
<1>1. n \in Nat /\ Calling(n, call) /\ TxnShapes /\ TxnCounted /\ TxnForm!FormFollowsRow
  BY ClientAssumption DEF TxnFormInv
<1>2. UNCHANGED <<page, db, seen, due, ui, lost>> /\ Begun(n, call, call', h, b)
  <2>1. TxnForm!Free # {} /\ TxnForm!Free \subseteq Nat /\ \A k \in TxnForm!Free : k \in 1..n /\ call[k] = Idle
    BY <1>1 DEF TxnForm!Sends, TxnForm!Mutate, TxnForm!Free, TxnForm!Slots
  <2>2. /\ TxnForm!Min(TxnForm!Free) \in TxnForm!Free
        /\ \A j \in TxnForm!Free : TxnForm!Min(TxnForm!Free) <= j
    BY <2>1, LeastIsIn DEF TxnForm!Min
  <2>3. \A j \in 1..n : call[j] = Idle => j \in TxnForm!Free
    BY DEF TxnForm!Free, TxnForm!Slots
  <2> QED
    BY <2>1, <2>2, <2>3 DEF TxnForm!Sends, TxnForm!Mutate, TxnForm!Started, TxnForm!Slots, TxnForm!Running,
       Begun, Going
<1>3. h = "create" => \A k \in 1..n : ~(Mine(call[k], "create") /\ call[k].heard)
  BY DEF TxnForm!Pending, TxnForm!Slots, TxnForm!Running, Mine, Going
<1> HIDE DEF n
<1>4. Calling(n, call') /\ Sent(n, call, call', h, b)
  BY <1>1, <1>2, BegunRows
<1>5. PICK new \in 1..n :
                 /\ ~Going(call[new]) /\ Going(call'[new])
                 /\ call'[new] = [hook |-> h, body |-> b, state |-> "sent", awaits |-> {}, heard |-> TRUE]
                 /\ \A j \in 1..n : j # new =>
                       /\ Going(call'[j]) <=> Going(call[j])
                       /\ ~Mine(call[j], h) => call'[j] = call[j]
                       /\ Mine(call[j], h) => Carries(call[j], call'[j]) /\ call'[j].state = call[j].state /\ ~call'[j].heard
  BY <1>1, <1>2, BegunRows
<1>6. TxnShapes'
  BY <1>1, <1>2, <1>4 DEF TxnShapes, Sent, Carries, Mine, n
<1>7. TxnCounted'
  <2> SUFFICES ASSUME ~lost PROVE TxnCounted'
    BY <1>2 DEF TxnCounted
  <2>1. OneOf(n, call', "create")
    BY <1>1, <1>2, <1>3, OneBegins DEF TxnCounted, n
  <2>2. CASE h = "create"
    <3>1. \A k \in 1..n : ~Mine(call[k], "create")
      BY <1>1, <1>3, <2>2 DEF TxnCounted, OneOf, n
    <3>2. db.created = 0
      BY <1>1, <2>2, <3>1 DEF TxnCounted, n
    <3> QED  BY <1>2, <2>1, <3>2 DEF TxnCounted, n
  <2>3. CASE h # "create"
    <3>1. \A j \in 1..n : Mine(call[j], "create") => j # new /\ Mine(call'[j], "create") /\ call'[j].state = call[j].state
      BY <1>5, <2>3 DEF Mine
    <3>2. \A j \in 1..n : Mine(call'[j], "create") => Mine(call[j], "create") /\ call'[j].state = call[j].state
      BY <1>5, <2>3 DEF Mine, Carries
    <3> QED  BY <1>1, <1>2, <2>1, <3>1, <3>2 DEF TxnCounted, n
  <2> QED  BY <2>2, <2>3
<1> QED  BY <1>1, <1>2, <1>4, <1>6, <1>7 DEF TxnFormInv, TxnForm!FormFollowsRow, n

\* Whatever the user does,
LEMMA TxnUser ==
    ASSUME NoCalls, TxnFormInv, TxnForm!FormUser
    PROVE  TxnFormInv'
<1>1. IsForm(ui.form)
  BY DEF TxnFormInv, TxnShapes
<1>2. CASE \E form : IsForm(form) /\ TxnForm!Edited(form)
  BY <1>2, TxnEdited
<1>3. CASE TxnForm!Submit
  <2>1. IsForm(TxnForm!Payload)
    BY <1>1, FormsStay DEF TxnForm!Payload
  <2> QED  BY <1>3, <2>1, TxnSends DEF TxnForm!Submit, TxnForm!Ready, TxnHooks
<1>4. CASE \E hook \in {"newTag", "newPayee", "newCategory"} : TxnForm!CreateInline(hook)
  BY <1>4, TxnSends DEF TxnForm!CreateInline, TxnHooks
<1>5. CASE TxnForm!Refocus
  BY <1>5 DEF TxnForm!Refocus, TxnFormInv, TxnShapes, TxnCounted, TxnForm!FormFollowsRow
<1>6. \/ TxnForm!TypeAmount \/ TxnForm!TypeText \/ (\E type : TxnForm!ChooseType(type))
      \/ (\E a : TxnForm!ChooseAccount(a) \/ TxnForm!ChooseTo(a)) \/ (\E m : TxnForm!ChooseMethod(m))
      \/ (\E p : TxnForm!ChoosePayee(p)) \/ (\E c : TxnForm!ChooseCategory(c)) \/ (\E t : TxnForm!ToggleTag(t))
      => \E form : IsForm(form) /\ TxnForm!Edited(form)
  <2>1. TxnForm!TypeAmount \/ TxnForm!TypeText \/ (\E type : TxnForm!ChooseType(type))
           \/ (\E m : TxnForm!ChooseMethod(m)) \/ (\E c : TxnForm!ChooseCategory(c)) \/ (\E t : TxnForm!ToggleTag(t))
           => \E form : IsForm(form) /\ TxnForm!Edited(form)
    BY <1>1, FormsStay DEF TxnForm!TypeAmount, TxnForm!TypeText, TxnForm!ChooseType, TxnForm!ChooseMethod,
       TxnForm!ChooseCategory, TxnForm!ToggleTag
  <2>2. (\E a : TxnForm!ChooseAccount(a) \/ TxnForm!ChooseTo(a)) => \E form : IsForm(form) /\ TxnForm!Edited(form)
    BY <1>1, FormsStay DEF TxnForm!ChooseAccount, TxnForm!ChooseTo
  <2>3. (\E p : TxnForm!ChoosePayee(p)) => \E form : IsForm(form) /\ TxnForm!Edited(form)
    BY <1>1, FormsStay DEF TxnForm!ChoosePayee
  <2> QED  BY <2>1, <2>2, <2>3
<1> QED  BY <1>2, <1>3, <1>4, <1>5, <1>6 DEF TxnForm!FormUser

\* the server works on a call,
LEMMA TxnServed ==
    ASSUME NoCalls, TxnFormInv, NEW k \in 1..TxnFormCase.calls, Going(call[k]), TxnForm!ServeTxn(k)
    PROVE  TxnFormInv'
<1> DEFINE n == TxnFormCase.calls
           h == call[k].hook
           b == call[k].body
<1>1. n \in Nat /\ k \in 1..n /\ Calling(n, call) /\ TxnShapes /\ TxnCounted /\ TxnForm!FormFollowsRow
  BY ClientAssumption DEF TxnFormInv
<1>2. /\ call[k].state = "sent" /\ db' = TxnForm!TxnResult(k)
      /\ Restated(call, call', k, "done") /\ UNCHANGED <<page, seen, due, ui, lost>>
  BY DEF TxnForm!ServeTxn, TxnForm!Serve, Restated
<1> HIDE DEF n
<1>3. /\ Calling(n, call')
      /\ \A j \in 1..n : j # k => call'[j] = call[j]
      /\ Going(call'[k]) /\ call'[k].state = "done" /\ Carries(call[k], call'[k])
  BY <1>1, <1>2, RestatedRows
<1>4. /\ db' = [txn |-> db'.txn, created |-> db'.created, tags |-> db'.tags,
                payees |-> db'.payees, categories |-> db'.categories]
      /\ db'.created = IF h = "create" THEN db.created + 1 ELSE db.created
      /\ db'.txn = db.txn \/ (h = "patch" /\ db'.txn = TxnForm!PatchedTxn(db.txn, b))
  <2>1. db = [txn |-> db.txn, created |-> db.created, tags |-> db.tags,
              payees |-> db.payees, categories |-> db.categories]
    BY <1>1 DEF TxnShapes
  <2>2. h \in TxnHooks
    BY <1>1 DEF TxnShapes, n
  <2>3. CASE h = "create"
    BY <1>2, <2>1, <2>3 DEF TxnForm!TxnResult
  <2>4. CASE h = "patch"
    BY <1>2, <2>1, <2>4 DEF TxnForm!TxnResult
  <2>5. CASE h \in {"newTag", "newPayee", "newCategory"}
    BY <1>2, <2>1, <2>5 DEF TxnForm!TxnResult
  <2> QED  BY <2>2, <2>3, <2>4, <2>5 DEF TxnHooks
<1>5. /\ db'.txn = None \/ IsForm(db'.txn)
      /\ IsForm(db.txn) => IsForm(db'.txn)
  <2>1. CASE h = "patch" /\ db'.txn = TxnForm!PatchedTxn(db.txn, b)
    <3>1. IsForm(b)
      BY <1>1, <2>1 DEF TxnShapes, n
    <3> QED  BY <2>1, <3>1, PatchedIsForm
  <2> QED  BY <1>1, <1>4, <2>1 DEF TxnShapes
<1>6. \A j \in 1..n : Going(call'[j]) => Going(call[j]) /\ Carries(call[j], call'[j])
  BY <1>3 DEF Carries
<1>7. TxnShapes'
  BY <1>1, <1>2, <1>4, <1>5, <1>6 DEF TxnShapes, Carries, n
<1>8. TxnCounted'
  <2> SUFFICES ASSUME ~lost PROVE TxnCounted'
    BY <1>2 DEF TxnCounted
  <2>1. OneOf(n, call, "create") /\ OneOf(n, call', "create")
    BY <1>1, <1>2, OneGoesOn DEF TxnCounted, n
  <2>2. CASE h = "create"
    <3>1. Mine(call[k], "create") /\ Mine(call'[k], "create")
      BY <1>3, <2>2 DEF Mine, Carries
    <3>2. db.created = 0
      BY <1>1, <1>2, <3>1 DEF TxnCounted, n
    <3>3. \A j \in 1..n : Mine(call'[j], "create") => j = k
      BY <1>1, <2>1, <3>1 DEF OneOf
    <3> QED  BY <1>2, <1>3, <1>4, <2>1, <2>2, <3>1, <3>2, <3>3 DEF TxnCounted, n
  <2>3. CASE h # "create"
    <3>1. \A j \in 1..n : Mine(call[j], "create") => j # k /\ call'[j] = call[j]
      BY <1>3, <2>3 DEF Mine
    <3>2. \A j \in 1..n : Mine(call'[j], "create") => j # k /\ call'[j] = call[j]
      BY <1>3, <2>3 DEF Mine, Carries
    <3>3. db'.created = db.created
      BY <1>4, <2>3
    <3> QED  BY <1>1, <1>2, <2>1, <3>1, <3>2, <3>3 DEF TxnCounted, n
  <2> QED  BY <2>2, <2>3
<1> QED  BY <1>1, <1>2, <1>3, <1>7, <1>8 DEF TxnFormInv, TxnForm!FormFollowsRow, n

\* answers it, or fails to,
LEMMA TxnEnded ==
    ASSUME NoCalls, TxnFormInv, NEW k \in 1..TxnFormCase.calls, Going(call[k]),
           TxnForm!AnswerTxn(k) \/ TxnForm!Fails(k, ui)
    PROVE  TxnFormInv'
<1> DEFINE n == TxnFormCase.calls
           h == call[k].hook
<1>1. n \in Nat /\ k \in 1..n /\ Calling(n, call) /\ TxnShapes /\ TxnCounted /\ TxnForm!FormFollowsRow
  BY ClientAssumption DEF TxnFormInv
<1>2. Dropped(n, call, call', k) /\ UNCHANGED <<page, db, seen>>
  BY DEF TxnForm!AnswerTxn, TxnForm!Returns, TxnForm!Fails, TxnForm!Without, TxnForm!Slots, Dropped
<1>3. \/ call[k].state = "done" /\ lost' = lost /\ ui' = TxnForm!HeardTxn(k)
      \/ lost' = (lost \/ call[k].state = "done") /\ ui' = ui
  BY DEF TxnForm!AnswerTxn, TxnForm!Returns, TxnForm!Fails
<1> HIDE DEF n
<1>4. /\ Calling(n, call')
      /\ \A j \in 1..n : Going(call'[j]) =>
            /\ Before(k, j) \in 1..n /\ Before(k, j) # k /\ call'[j] = call[Before(k, j)]
            /\ \A i \in 1..n : i # j => Before(k, i) # Before(k, j)
      /\ \A j \in 1..n : j # k => After(k, j) \in 1..n /\ call'[After(k, j)] = call[j]
  BY <1>1, <1>2, DroppedRows
<1>5. /\ ui' = [editing |-> ui'.editing, loaded |-> ui'.loaded, form |-> ui'.form,
                touched |-> ui'.touched, changes |-> ui'.changes, done |-> ui'.done]
      /\ IsForm(ui'.form) /\ ui'.editing = ui.editing /\ ui'.loaded = ui.loaded
      /\ ui'.touched = TRUE \/ (ui'.form = ui.form /\ ui'.touched = ui.touched)
      /\ ui'.done = ui.done \/ ui'.done = TRUE
  <2>1. /\ ui = [editing |-> ui.editing, loaded |-> ui.loaded, form |-> ui.form,
                 touched |-> ui.touched, changes |-> ui.changes, done |-> ui.done]
        /\ IsForm(ui.form) /\ h \in TxnHooks
    BY <1>1 DEF TxnShapes, n
  <2>2. CASE ui' = ui
    BY <2>1, <2>2
  <2>3. CASE ui' = TxnForm!HeardTxn(k) /\ h \in {"create", "patch"}
    BY <2>1, <2>3 DEF TxnForm!HeardTxn
  <2>4. CASE ui' = TxnForm!HeardTxn(k) /\ h \notin {"create", "patch"}
    <3>1. \E form : IsForm(form) /\ ui' = [ui EXCEPT !.form = form, !.touched = TRUE]
      <4>1. CASE h = "newTag"
        <5>1. ui' = [ui EXCEPT !.form = [ui.form EXCEPT !.tags = call[k].body.tags \cup {TxnFormCase.newTag}],
                               !.touched = TRUE]
          BY <2>1, <2>4, <4>1 DEF TxnForm!HeardTxn
        <5> QED  BY <2>1, <5>1, FormsStay
      <4>2. CASE h = "newPayee"
        <5>1. ui' = [ui EXCEPT !.form = [TxnForm!WithDefault(ui.form) EXCEPT !.payee = TxnFormCase.newPayee],
                               !.touched = TRUE]
          BY <2>1, <2>4, <4>2 DEF TxnForm!HeardTxn
        <5> QED  BY <2>1, <5>1, FormsStay
      <4>3. CASE h = "newCategory"
        <5>1. ui' = [ui EXCEPT !.form = [ui.form EXCEPT !.category = TxnFormCase.newCategory], !.touched = TRUE]
          BY <2>1, <2>4, <4>3 DEF TxnForm!HeardTxn
        <5> QED  BY <2>1, <5>1, FormsStay
      <4> QED  BY <2>1, <2>4, <4>1, <4>2, <4>3 DEF TxnHooks
    <3> QED  BY <2>1, <2>4, <3>1
  <2> QED  BY <1>3, <2>2, <2>3, <2>4
<1>6. TxnShapes'
  BY <1>1, <1>2, <1>4, <1>5 DEF TxnShapes, n
<1>7. TxnCounted'
  <2> SUFFICES ASSUME ~lost' PROVE TxnCounted'
    BY DEF TxnCounted
  <2>4. ~lost
    BY <1>3, Zenon
  <2>5. OneOf(n, call, "create")
    BY <1>1, <2>4 DEF TxnCounted, n
  <2>1. ~lost /\ OneOf(n, call, "create") /\ OneOf(n, call', "create")
    BY <1>1, <1>2, <2>4, <2>5, OneGoesOn
  <2>2. \A j \in 1..n : Mine(call'[j], "create") /\ call'[j].state = "sent" => db.created = 0
    BY <1>1, <1>4, <2>1 DEF TxnCounted, Mine, n
  <2>3. ASSUME db.created = 1
        PROVE  ui'.done \/ \E j \in 1..n : Mine(call'[j], "create") /\ call'[j].state = "done"
    <3>1. CASE ui.done
      BY <1>5, <3>1
    <3>2. CASE \E j \in 1..n : j # k /\ Mine(call[j], "create") /\ call[j].state = "done"
      BY <1>4, <3>2 DEF Mine
    <3>3. CASE Mine(call[k], "create") /\ call[k].state = "done"
      <4>1. ui' = TxnForm!HeardTxn(k)
        BY <1>3, <3>3
      <4>2. ui' = [ui EXCEPT !.done = TRUE]
        BY <3>3, <4>1 DEF TxnForm!HeardTxn, Mine
      <4> QED  BY <1>1, <4>2 DEF TxnShapes
    <3> QED  BY <1>1, <2>1, <2>3, <3>1, <3>2, <3>3 DEF TxnCounted, n
  <2> QED  BY <1>1, <1>2, <2>1, <2>2, <2>3 DEF TxnCounted, n
<1> QED  BY <1>1, <1>2, <1>4, <1>5, <1>6, <1>7 DEF TxnFormInv, TxnForm!FormFollowsRow, n

\* and the transaction is fetched, perhaps after it was edited elsewhere.
LEMMA TxnFetched ==
    ASSUME NoForm, TxnFormInv, TxnForm!FetchTxn \/ TxnForm!FetchTxnFails \/ TxnForm!OtherTab
    PROVE  TxnFormInv'
<1>1. TxnShapes /\ TxnForm!FormFollowsRow
  BY DEF TxnFormInv
<1>2. CASE TxnForm!OtherTab
  <2>1. db' = [db EXCEPT !.txn = [db.txn EXCEPT !.text = "other"]] /\ IsForm(db.txn)
    BY <1>1, <1>2 DEF TxnForm!OtherTab, TxnShapes
  <2>2. db' = [txn |-> [db.txn EXCEPT !.text = "other"], created |-> db.created, tags |-> db.tags,
               payees |-> db.payees, categories |-> db.categories]
    BY <1>1, <2>1 DEF TxnShapes
  <2>3. IsForm([db.txn EXCEPT !.text = "other"])
    BY <2>1, FormsStay
  <2> QED  BY <1>2, <2>2, <2>3 DEF TxnForm!OtherTab, TxnFormInv, TxnShapes, TxnCounted, TxnForm!FormFollowsRow
<1>3. CASE TxnForm!FetchTxn /\ db.txn = seen.txn
  <2>1. UNCHANGED <<page, db, ui, seen, call, lost>>
    BY <1>1, <1>3 DEF TxnForm!FetchTxn, TxnShapes
  <2> QED  BY <2>1 DEF TxnFormInv, TxnShapes, TxnCounted, TxnForm!FormFollowsRow
<1>4. CASE TxnForm!FetchTxn /\ db.txn # seen.txn
  <2> DEFINE form == TxnForm!Followed(db.txn)
  <2>1. db.txn # NoData
    BY <1>1 DEF TxnShapes, NoForm
  <2>2. /\ IsForm(form)
        /\ form.category \in {db.txn.category, TxnForm!DefaultCategory(db.txn.payee)}
        /\ [form EXCEPT !.category = db.txn.category] = TxnForm!FormOf(db.txn)
    BY <2>1, FollowedIsIt
  <2>3. /\ ui' = [ui EXCEPT !.form = form, !.loaded = TRUE, !.touched = FALSE]
        /\ seen' = [txn |-> db.txn] /\ UNCHANGED <<page, db, call, lost>>
    BY <1>4 DEF TxnForm!FetchTxn
  <2> HIDE DEF form
  <2>4. ui' = [editing |-> ui.editing, loaded |-> TRUE, form |-> form,
               touched |-> FALSE, changes |-> ui.changes, done |-> ui.done]
    BY <1>1, <2>3 DEF TxnShapes
  <2> QED  BY <1>1, <2>2, <2>3, <2>4 DEF TxnFormInv, TxnShapes, TxnCounted, TxnForm!FormFollowsRow
<1>5. CASE TxnForm!FetchTxnFails
  BY <1>5 DEF TxnForm!FetchTxnFails, TxnFormInv, TxnShapes, TxnCounted, TxnForm!FormFollowsRow
<1> QED  BY <1>2, <1>3, <1>4, <1>5

\* The invariant holds when the page is opened,
LEMMA TxnFormInit == ASSUME TxnForm!TxnFormInit PROVE TxnFormInv
<1>1. PICK start \in TxnFormCase.startTxns :
        /\ db = [txn |-> start, created |-> 0, tags |-> TxnFormCase.tags,
                 payees |-> TxnForm!Payees, categories |-> TxnFormCase.categories]
        /\ ui = [editing |-> start # None, loaded |-> FALSE, form |-> TxnForm!BlankForm,
                 touched |-> FALSE, changes |-> 0, done |-> FALSE]
  BY DEF TxnForm!TxnFormInit
<1>2. seen = [txn |-> NoData] /\ call = [k \in 1..TxnFormCase.calls |-> Idle]
  BY DEF TxnForm!TxnFormInit, TxnForm!Slots
<1>3. IsForm(TxnForm!BlankForm) /\ (start = None \/ IsForm(start))
  BY ClientAssumption DEF TxnForm!BlankForm, IsForm, TxnForm!FormOf
<1>4. \A k \in 1..TxnFormCase.calls : ~Going(call[k])
  BY <1>2 DEF Going
<1>5. Calling(TxnFormCase.calls, call)
  BY <1>2 DEF Calling, Going
<1>6. TxnShapes
  BY <1>1, <1>2, <1>3, <1>4 DEF TxnShapes
<1>7. TxnCounted
  BY <1>1, <1>4 DEF TxnCounted, Mine, OneOf
<1> QED  BY <1>1, <1>5, <1>6, <1>7 DEF TxnFormInv, TxnForm!FormFollowsRow

\* and each step keeps it.
LEMMA TxnFormStep == ASSUME NoCalls, NoForm, TxnFormInv, TxnForm!TxnFormNext PROVE TxnFormInv'
<1>1. ASSUME NEW k \in TxnForm!Slots, TxnForm!ServeTxn(k) \/ TxnForm!AnswerTxn(k) \/ TxnForm!Fails(k, ui)
      PROVE  k \in 1..TxnFormCase.calls /\ Going(call[k])
  BY <1>1 DEF TxnForm!Slots, TxnForm!ServeTxn, TxnForm!AnswerTxn, TxnForm!Fails, TxnForm!Running, Going
<1> QED  BY <1>1, TxnUser, TxnServed, TxnEnded, TxnFetched DEF TxnForm!TxnFormNext

-----------------------------------------------------------------------------
(***************************************************************************)
(* The form of a budget.                                                   *)
(***************************************************************************)
\* The form, the budget and the calls have all their fields.
PlanShapes ==
    /\ ui = [editing |-> ui.editing, form |-> ui.form, touched |-> ui.touched, changes |-> ui.changes,
             asking |-> ui.asking, current |-> ui.current, patch |-> ui.patch, behind |-> ui.behind,
             done |-> ui.done]
    /\ db = [budget |-> db.budget, added |-> db.added]
    /\ seen = [budget |-> seen.budget]

\* One call is under way at most, and none while the dialog asks for the scope; what
\* will be sent then is the form, or the form has changed behind the dialog.
PlanCalls ==
    /\ Filled(BudgetFormCase.calls, call)
    /\ \A i, j \in 1..BudgetFormCase.calls : Going(call[i]) /\ Going(call[j]) => i = j /\ call[i].heard
    /\ \A k \in 1..BudgetFormCase.calls : Going(call[k]) => call[k].hook \in {"create", "patch"}
    /\ ui.asking => ~ui.done /\ \A k \in 1..BudgetFormCase.calls : ~Going(call[k])
    /\ ui.asking /\ ~ui.behind => ui.patch = PlanForm!PatchOf(ui.form)

\* Once a budget has been added, the form is gone, or is about to hear of it.
PlanCounted ==
    ~lost =>
        /\ db.added \in {0, 1}
        /\ db.added = 1 => ui.done \/ \E k \in 1..BudgetFormCase.calls : Going(call[k]) /\ call[k].state = "done"
        /\ \A k \in 1..BudgetFormCase.calls : Going(call[k]) /\ call[k].state = "sent" => db.added = 0

PlanFormInv ==
    Calling(BudgetFormCase.calls, call) /\ PlanShapes /\ PlanCalls /\ PlanCounted /\ PlanForm!FormFollowsBudget

\* What a call that is sent says of the form, and that one is sent at all.
PlanAsks ==
    \A k \in 1..BudgetFormCase.calls :
        call[k] = Idle /\ call'[k] # Idle /\ call'[k].hook = "patch" /\ ~ui.behind =>
            call'[k].body.patch = PlanForm!PatchOf(ui.form)

\* The user changes the form, or opens or closes the dialog,
LEMMA PlanLocally ==
    ASSUME PlanFormInv, UNCHANGED <<page, db, seen, call, lost>>,
           ui' = [editing |-> ui'.editing, form |-> ui'.form, touched |-> ui'.touched,
                  changes |-> ui'.changes, asking |-> ui'.asking, current |-> ui'.current,
                  patch |-> ui'.patch, behind |-> ui'.behind, done |-> ui'.done],
           ui'.done = ui.done,
           ui'.asking => ~ui.done /\ \A k \in 1..BudgetFormCase.calls : ~Going(call[k]),
           ui'.asking /\ ~ui'.behind => ui'.patch = PlanForm!PatchOf(ui'.form),
           (ui'.form = ui.form /\ ui'.touched = ui.touched) \/ ui'.touched = TRUE
    PROVE  PlanFormInv' /\ PlanAsks
<1>1. PlanShapes' /\ PlanCounted' /\ Calling(BudgetFormCase.calls, call)'
  BY DEF PlanFormInv, PlanShapes, PlanCounted
<1>2. PlanCalls'
  BY DEF PlanFormInv, PlanCalls
<1>3. (PlanForm!FormFollowsBudget)'
  BY DEF PlanFormInv, PlanForm!FormFollowsBudget, PlanForm!Loaded
<1> QED  BY <1>1, <1>2, <1>3 DEF PlanFormInv, PlanAsks

\* sends a call,
LEMMA PlanSends ==
    ASSUME NoCalls, PlanFormInv, NEW h \in {"create", "patch"}, NEW b, PlanForm!Mutate(h, b),
           UNCHANGED <<page, db, seen, lost>>,
           ui' = ui \/ ui' = [ui EXCEPT !.asking = FALSE],
           ~ui.done, ui.asking => ui' = [ui EXCEPT !.asking = FALSE],
           \A k \in 1..BudgetFormCase.calls : ~Going(call[k]),
           h = "patch" /\ ~ui.behind => b.patch = PlanForm!PatchOf(ui.form)
    PROVE  PlanFormInv' /\ PlanAsks
<1> DEFINE n == BudgetFormCase.calls
<1>1. n \in Nat /\ Calling(n, call) /\ Filled(n, call)
  BY ClientAssumption DEF PlanFormInv, PlanCalls
<1>2. Begun(n, call, call', h, b)
  <2>1. PlanForm!Free # {} /\ PlanForm!Free \subseteq Nat /\ \A k \in PlanForm!Free : k \in 1..n /\ call[k] = Idle
    BY <1>1 DEF PlanForm!Mutate, PlanForm!Free, PlanForm!Slots
  <2>2. /\ PlanForm!Min(PlanForm!Free) \in PlanForm!Free
        /\ \A j \in PlanForm!Free : PlanForm!Min(PlanForm!Free) <= j
    BY <2>1, LeastIsIn DEF PlanForm!Min
  <2>3. \A j \in 1..n : call[j] = Idle => j \in PlanForm!Free
    BY DEF PlanForm!Free, PlanForm!Slots
  <2> QED
    BY <2>1, <2>2, <2>3 DEF PlanForm!Mutate, PlanForm!Started, PlanForm!Slots, PlanForm!Running, Begun, Going
<1>3. \A k \in 1..n : ~Going(call[k])
  OBVIOUS
<1> HIDE DEF n
<1>4. Calling(n, call')
  BY <1>1, <1>2, BegunRows
<1>5. PICK new \in 1..n :
                 /\ Going(call'[new])
                 /\ call'[new] = [hook |-> h, body |-> b, state |-> "sent", awaits |-> {}, heard |-> TRUE]
                 /\ \A j \in 1..n : j # new => ~Going(call'[j])
  <2>1. PICK new \in 1..n :
                 /\ ~Going(call[new]) /\ Going(call'[new])
                 /\ call'[new] = [hook |-> h, body |-> b, state |-> "sent", awaits |-> {}, heard |-> TRUE]
                 /\ \A j \in 1..n : j # new =>
                       /\ Going(call'[j]) <=> Going(call[j])
                       /\ ~Mine(call[j], h) => call'[j] = call[j]
                       /\ Mine(call[j], h) => Carries(call[j], call'[j]) /\ call'[j].state = call[j].state /\ ~call'[j].heard
    BY <1>1, <1>2, BegunRows
  <2> QED  BY <1>3, <2>1
<1>6. /\ Filled(n, call')
      /\ \A j \in 1..n : call[j] = Idle /\ call'[j] # Idle => call'[j].hook = h /\ call'[j].body = b
  BY <1>1, <1>2, FilledBegins
<1>7. PlanShapes
  BY DEF PlanFormInv
<1>8. /\ PlanShapes' /\ ui'.done = ui.done /\ ui'.form = ui.form /\ ui'.touched = ui.touched
      /\ ~ui'.asking
  <2>1. CASE ui' = ui /\ ~ui.asking
    BY <1>7, <2>1 DEF PlanShapes
  <2>2. CASE ui' = [ui EXCEPT !.asking = FALSE]
    BY <1>7, <2>2 DEF PlanShapes
  <2> QED  BY <2>1, <2>2
<1>9. PlanCalls'
  <2>1. \A k \in 1..n : Going(call'[k]) => k = new
    BY <1>5
  <2>2. call'[new].hook = h /\ call'[new].heard
    BY <1>5
  <2> QED  BY <1>6, <1>8, <2>1, <2>2 DEF PlanCalls, n
<1>10. PlanCounted'
  <2>1. ~lost => db.added = 0
    BY <1>3 DEF PlanFormInv, PlanCounted, n
  <2> QED  BY <1>8, <2>1 DEF PlanCounted
<1>11. (PlanForm!FormFollowsBudget)'
  BY <1>8 DEF PlanFormInv, PlanForm!FormFollowsBudget, PlanForm!Loaded
<1>12. PlanAsks
  BY <1>6 DEF PlanAsks, n
<1> QED  BY <1>4, <1>8, <1>9, <1>10, <1>11, <1>12 DEF PlanFormInv, n

\* Whatever the user does,
LEMMA PlanUser ==
    ASSUME NoCalls, PlanFormInv, PlanForm!FormUser
    PROVE  PlanFormInv' /\ PlanAsks
<1>1. /\ ui = [editing |-> ui.editing, form |-> ui.form, touched |-> ui.touched, changes |-> ui.changes,
               asking |-> ui.asking, current |-> ui.current, patch |-> ui.patch, behind |-> ui.behind,
               done |-> ui.done]
      /\ \A k \in 1..BudgetFormCase.calls : Going(call[k]) => call[k].hook \in {"create", "patch"} /\ call[k].heard
      /\ ui.asking => ~ui.done /\ \A k \in 1..BudgetFormCase.calls : ~Going(call[k])
      /\ ui.asking /\ ~ui.behind => ui.patch = PlanForm!PatchOf(ui.form)
  BY DEF PlanFormInv, PlanShapes, PlanCalls
<1>2. PlanForm!CanSubmit => /\ ~ui.done /\ ~ui.asking
                            /\ \A k \in 1..BudgetFormCase.calls : ~Going(call[k])
  BY <1>1 DEF PlanForm!CanSubmit, PlanForm!OnForm, PlanForm!Pending, PlanForm!Slots, PlanForm!Running, Going
<1>3. CASE \E form : PlanForm!Edited(form)
  <2>1. PICK form : PlanForm!Edited(form)
    BY <1>3
  <2>2. /\ ui' = [editing |-> ui.editing, form |-> form, touched |-> TRUE, changes |-> ui.changes + 1,
                  asking |-> ui.asking, current |-> ui.current, patch |-> ui.patch, behind |-> ui.behind,
                  done |-> ui.done]
        /\ ~ui.asking /\ UNCHANGED <<page, db, seen, due, call, lost>>
    BY <1>1, <2>1 DEF PlanForm!Edited, PlanForm!Locally, PlanForm!OnForm
  <2> QED  BY <1>1, <2>2, PlanLocally
<1>4. CASE PlanForm!SubmitNew
  BY <1>2, <1>4, PlanSends DEF PlanForm!SubmitNew, PlanForm!Sends
<1>5. CASE PlanForm!SubmitEdit
  <2> DEFINE b == [patch |-> PlanForm!PatchOf(ui.form), scope |-> "current_and_future"]
  <2>1. PlanForm!Mutate("patch", b) /\ UNCHANGED <<page, db, seen, due, ui, lost>> /\ PlanForm!CanSubmit
    BY <1>5 DEF PlanForm!SubmitEdit, PlanForm!Sends
  <2>2. b.patch = PlanForm!PatchOf(ui.form)
    OBVIOUS
  <2> HIDE DEF b
  <2> QED  BY <1>2, <2>1, <2>2, PlanSends
<1>6. CASE PlanForm!SubmitRecurring
  <2>1. /\ ui' = [editing |-> ui.editing, form |-> ui.form, touched |-> ui.touched, changes |-> ui.changes,
                  asking |-> TRUE, current |-> ui.current, patch |-> PlanForm!PatchOf(ui.form),
                  behind |-> FALSE, done |-> ui.done]
        /\ PlanForm!CanSubmit /\ UNCHANGED <<page, db, seen, due, call, lost>>
    BY <1>1, <1>6 DEF PlanForm!SubmitRecurring, PlanForm!Locally, PlanForm!HeldBack
  <2> QED  BY <1>2, <2>1, PlanLocally
<1>7. CASE PlanForm!AffectCurrent
  <2>1. /\ ui' = [editing |-> ui.editing, form |-> ui.form, touched |-> ui.touched, changes |-> ui.changes,
                  asking |-> ui.asking, current |-> ~ui.current, patch |-> ui.patch,
                  behind |-> ui.behind, done |-> ui.done]
        /\ UNCHANGED <<page, db, seen, due, call, lost>>
    BY <1>1, <1>7 DEF PlanForm!AffectCurrent, PlanForm!Locally
  <2> QED  BY <1>1, <2>1, PlanLocally
<1>8. CASE PlanForm!CancelScope
  <2>1. /\ ui' = [editing |-> ui.editing, form |-> ui.form, touched |-> ui.touched, changes |-> ui.changes,
                  asking |-> FALSE, current |-> ui.current, patch |-> ui.patch,
                  behind |-> ui.behind, done |-> ui.done]
        /\ UNCHANGED <<page, db, seen, due, call, lost>>
    BY <1>1, <1>8 DEF PlanForm!CancelScope, PlanForm!Locally
  <2> QED  BY <2>1, PlanLocally
<1>9. CASE PlanForm!ConfirmScope
  <2> DEFINE b == [patch |-> ui.patch, scope |-> IF ui.current THEN "current_and_future" ELSE "future_only"]
  <2>1. /\ PlanForm!Mutate("patch", b) /\ UNCHANGED <<page, db, seen, due, lost>>
        /\ ui' = [ui EXCEPT !.asking = FALSE] /\ ui.asking
    BY <1>9 DEF PlanForm!ConfirmScope
  <2>2. b.patch = ui.patch
    OBVIOUS
  <2> HIDE DEF b
  <2> QED  BY <1>1, <2>1, <2>2, PlanSends
<1>10. CASE PlanForm!Refocus
  <2>1. UNCHANGED <<page, db, seen, ui, call, lost>>
    BY <1>10 DEF PlanForm!Refocus
  <2> QED  BY <1>1, <2>1, PlanLocally
<1>11. \/ PlanForm!TypeAmount \/ PlanForm!TypeEnd \/ (\E type \in {"adhoc", "recurring"} : PlanForm!ChooseType(type))
       \/ (\E rule \in BudgetFormCase.rules : PlanForm!ChooseRule(rule))
       \/ (\E c \in BudgetFormCase.categories \cup {None} : PlanForm!ChooseCategory(c))
       => \E form : PlanForm!Edited(form)
  BY Zenon DEF PlanForm!TypeAmount, PlanForm!TypeEnd, PlanForm!ChooseType, PlanForm!ChooseRule,
      PlanForm!ChooseCategory
<1> QED
  BY <1>3, <1>4, <1>5, <1>6, <1>7, <1>8, <1>9, <1>10, <1>11 DEF PlanForm!FormUser

\* the server works on a call,
LEMMA PlanServed ==
    ASSUME NoCalls, PlanFormInv, NEW k \in 1..BudgetFormCase.calls, Going(call[k]), PlanForm!ServeBudget(k)
    PROVE  PlanFormInv' /\ PlanAsks
<1> DEFINE n == BudgetFormCase.calls
<1>1. /\ n \in Nat /\ k \in 1..n /\ Calling(n, call) /\ PlanShapes /\ PlanCalls /\ PlanCounted
      /\ Filled(n, call) /\ \A i, j \in 1..n : Going(call[i]) /\ Going(call[j]) => i = j /\ call[i].heard
  BY ClientAssumption DEF PlanFormInv, PlanCalls
<1>2. /\ call[k].state = "sent" /\ db' = PlanForm!BudgetResult(k)
      /\ Restated(call, call', k, "done") /\ UNCHANGED <<page, seen, due, ui, lost>>
  BY DEF PlanForm!ServeBudget, PlanForm!Serve, Restated
<1>3. /\ db' = [budget |-> db'.budget, added |-> db'.added]
      /\ db'.added = db.added \/ db'.added = db.added + 1
  <2>1. db = [budget |-> db.budget, added |-> db.added]
    BY <1>1 DEF PlanShapes
  <2>2. \/ db' = [db EXCEPT !.added = @ + 1]
        \/ \E row : db' = [db EXCEPT !.budget = row]
        \/ db' = [db EXCEPT !.budget.end = "capped", !.budget.active = FALSE, !.added = @ + 1]
    BY <1>2 DEF PlanForm!BudgetResult
  <2>3. CASE db' = [db EXCEPT !.budget.end = "capped", !.budget.active = FALSE, !.added = @ + 1]
    BY <2>1, <2>3
  <2>4. CASE db' = [db EXCEPT !.added = @ + 1]
    BY <2>1, <2>4
  <2>5. CASE \E row : db' = [db EXCEPT !.budget = row]
    BY <2>1, <2>5
  <2> QED  BY <2>2, <2>3, <2>4, <2>5
<1> HIDE DEF n
<1>4. /\ Calling(n, call')
      /\ \A j \in 1..n : j # k => call'[j] = call[j]
      /\ Going(call'[k]) /\ call'[k].state = "done" /\ call'[k].heard = call[k].heard /\ Carries(call[k], call'[k])
  BY <1>1, <1>2, RestatedRows
<1>5. Filled(n, call') /\ \A j \in 1..n : call[j] = Idle => call'[j] = Idle
  BY <1>1, <1>2, FilledStays
<1>6. /\ call[k].heard /\ \A j \in 1..n : Going(call[j]) => j = k
      /\ \A j \in 1..n : Going(call'[j]) => j = k
  BY <1>1, <1>4
<1>7. call[k].hook \in {"create", "patch"} /\ call'[k].hook = call[k].hook /\ ~ui.asking
  BY <1>1, <1>4 DEF PlanCalls, Carries, n
<1>8. PlanCalls'
  BY <1>2, <1>4, <1>5, <1>6, <1>7 DEF PlanCalls, n
<1>9. PlanCounted'
  <2>1. ~lost => db.added = 0
    BY <1>1, <1>2 DEF PlanCounted, n
  <2>2. ~lost => db'.added \in {0, 1}
    BY <1>3, <2>1
  <2>3. \A j \in 1..n : Going(call'[j]) => j = k /\ call'[j].state # "sent"
    BY <1>4, <1>6
  <2> QED  BY <1>1, <1>2, <1>4, <2>2, <2>3 DEF PlanCounted, n
<1>10. PlanShapes'
  BY <1>1, <1>2, <1>3 DEF PlanShapes
<1>11. (PlanForm!FormFollowsBudget)'
  BY <1>2 DEF PlanFormInv, PlanForm!FormFollowsBudget, PlanForm!Loaded
<1> QED  BY <1>4, <1>5, <1>8, <1>9, <1>10, <1>11 DEF PlanFormInv, PlanAsks, n

\* answers it, or fails to,
LEMMA PlanEnded ==
    ASSUME NoCalls, PlanFormInv, NEW k \in 1..BudgetFormCase.calls, Going(call[k]),
           PlanForm!AnswerBudget(k) \/ PlanForm!Fails(k, ui)
    PROVE  PlanFormInv' /\ PlanAsks
<1> DEFINE n == BudgetFormCase.calls
<1>1. /\ n \in Nat /\ k \in 1..n /\ Calling(n, call) /\ PlanShapes /\ PlanCalls /\ PlanCounted
      /\ Filled(n, call) /\ \A i, j \in 1..n : Going(call[i]) /\ Going(call[j]) => i = j /\ call[i].heard
  BY ClientAssumption DEF PlanFormInv, PlanCalls
<1>2. Dropped(n, call, call', k) /\ UNCHANGED <<page, db, seen>>
  BY DEF PlanForm!AnswerBudget, PlanForm!Returns, PlanForm!Fails, PlanForm!Without, PlanForm!Slots, Dropped
<1>3. \/ call[k].state = "done" /\ lost' = lost /\ ui' = [ui EXCEPT !.done = TRUE]
      \/ lost' = (lost \/ call[k].state = "done") /\ ui' = ui
  BY DEF PlanForm!AnswerBudget, PlanForm!Returns, PlanForm!Fails
<1> HIDE DEF n
<1>4. Calling(n, call')
  BY <1>1, <1>2, DroppedRows
<1>5. Filled(n, call') /\ \A j \in 1..n : call[j] = Idle => call'[j] = Idle
  BY <1>1, <1>2, FilledStays
<1>6. \A j \in 1..n : ~Going(call'[j])
  <2>1. \A j \in 1..n : Going(call'[j]) =>
            /\ Before(k, j) \in 1..n /\ Before(k, j) # k /\ call'[j] = call[Before(k, j)]
            /\ \A i \in 1..n : i # j => Before(k, i) # Before(k, j)
    BY <1>1, <1>2, DroppedRows
  <2> QED  BY <1>1, <2>1
<1>7. /\ PlanShapes' /\ ui'.form = ui.form /\ ui'.touched = ui.touched /\ ui'.asking = ui.asking
      /\ ui' = ui \/ ui'.done
  BY <1>1, <1>2, <1>3 DEF PlanShapes
<1>8. ~ui.asking
  BY <1>1 DEF PlanCalls, n
<1>9. PlanCalls'
  BY <1>5, <1>6, <1>7, <1>8 DEF PlanCalls, n
<1>10. PlanCounted'
  <2>1. CASE lost'
    BY <2>1 DEF PlanCounted
  <2>2. CASE ~lost' /\ call[k].state = "done"
    <3>3. ~(lost' = (lost \/ call[k].state = "done"))
      BY <2>2, Zenon
    <3>4. lost' = lost /\ ui' = [ui EXCEPT !.done = TRUE]
      BY <1>3, <3>3, Zenon
    <3>1. ~lost /\ ui' = [ui EXCEPT !.done = TRUE]
      BY <2>2, <3>4, Zenon
    <3>2. ui'.done
      BY <1>1, <3>1 DEF PlanShapes
    <3> QED  BY <1>1, <1>2, <1>6, <3>1, <3>2 DEF PlanCounted, n
  <2>3. CASE ~lost' /\ call[k].state # "done"
    <3>1. ~lost /\ ui' = ui
      BY <1>3, <2>3, Zenon
    <3>2. db.added = 1 => ui.done
      BY <1>1, <2>3, <3>1 DEF PlanCounted, n
    <3> QED  BY <1>1, <1>2, <1>6, <3>1, <3>2 DEF PlanCounted, n
  <2> QED  BY <2>1, <2>2, <2>3
<1>11. (PlanForm!FormFollowsBudget)'
  BY <1>2, <1>7 DEF PlanFormInv, PlanForm!FormFollowsBudget, PlanForm!Loaded
<1> QED  BY <1>4, <1>5, <1>7, <1>9, <1>10, <1>11 DEF PlanFormInv, PlanAsks, n

\* and the budget is fetched, perhaps after it was edited elsewhere.
LEMMA PlanFetched ==
    ASSUME PlanFormInv, PlanForm!FetchBudget \/ PlanForm!OtherTab
    PROVE  PlanFormInv' /\ PlanAsks
<1>1. PlanShapes /\ PlanCalls /\ PlanCounted /\ PlanForm!FormFollowsBudget
  BY DEF PlanFormInv
<1>2. CASE PlanForm!OtherTab
  <2>1. db' = [db EXCEPT !.budget = [db.budget EXCEPT !.amount = 3]]
    BY <1>1, <1>2 DEF PlanForm!OtherTab, PlanShapes
  <2>2. db' = [budget |-> [db.budget EXCEPT !.amount = 3], added |-> db.added]
    BY <1>1, <2>1 DEF PlanShapes
  <2>3. UNCHANGED <<page, seen, due, ui, call, lost>> /\ db'.added = db.added
    BY <1>2, <2>2 DEF PlanForm!OtherTab
  <2>4. PlanShapes'
    BY <1>1, <2>2, <2>3 DEF PlanShapes
  <2> QED  BY <1>1, <2>3, <2>4 DEF PlanFormInv, PlanCalls, PlanCounted, PlanForm!FormFollowsBudget,
          PlanForm!Loaded, PlanAsks
<1>3. CASE PlanForm!FetchBudget /\ db.budget = seen.budget
  <2>1. UNCHANGED <<page, db, ui, seen, call, lost>>
    BY <1>1, <1>3 DEF PlanForm!FetchBudget, PlanShapes
  <2> QED  BY <2>1 DEF PlanFormInv, PlanShapes, PlanCalls, PlanCounted, PlanForm!FormFollowsBudget,
          PlanForm!Loaded, PlanAsks
<1>4. CASE PlanForm!FetchBudget /\ db.budget # seen.budget
  <2>1. /\ ui' = [editing |-> ui.editing, form |-> PlanForm!FormOf(db.budget), touched |-> FALSE,
                  changes |-> ui.changes, asking |-> ui.asking, current |-> ui.current, patch |-> ui.patch,
                  behind |-> ui.asking, done |-> ui.done]
        /\ seen' = [budget |-> db.budget] /\ UNCHANGED <<page, db, call, lost>>
    BY <1>1, <1>4 DEF PlanForm!FetchBudget, PlanShapes
  <2>2. /\ ui'.form = PlanForm!FormOf(seen'.budget) /\ ui'.done = ui.done /\ ui'.asking = ui.asking
        /\ ui'.behind = ui.asking
    BY <2>1
  <2>3. PlanShapes' /\ (PlanForm!FormFollowsBudget)'
    BY <1>1, <2>1, <2>2 DEF PlanShapes, PlanForm!FormFollowsBudget, PlanForm!FormOf
  <2>4. ~(ui'.asking /\ ~ui'.behind)
    BY <2>2, Zenon
  <2>5. PlanCalls' /\ PlanCounted'
    BY <1>1, <2>1, <2>2, <2>4 DEF PlanCalls, PlanCounted
  <2> QED  BY <2>1, <2>3, <2>5 DEF PlanFormInv, PlanAsks
<1> QED  BY <1>2, <1>3, <1>4

\* The invariant holds when the page is opened,
LEMMA PlanFormInit == ASSUME PlanForm!BudgetFormInit PROVE PlanFormInv
<1>1. PICK start \in BudgetFormCase.startBudgets :
        /\ db = [budget |-> start, added |-> 0]
        /\ ui = [editing |-> start # None, form |-> PlanForm!BlankForm, touched |-> FALSE, changes |-> 0,
                 asking |-> FALSE, current |-> TRUE, patch |-> None, behind |-> FALSE, done |-> FALSE]
  BY DEF PlanForm!BudgetFormInit
<1>2. seen = [budget |-> NoData] /\ call = [k \in 1..BudgetFormCase.calls |-> Idle]
  BY DEF PlanForm!BudgetFormInit, PlanForm!Slots
<1>3. \A k \in 1..BudgetFormCase.calls : ~Going(call[k]) /\ call[k] = Idle
  BY <1>2 DEF Going
<1>4. Calling(BudgetFormCase.calls, call)
  BY <1>2 DEF Calling, Going
<1>5. PlanShapes /\ PlanCalls /\ PlanCounted
  BY <1>1, <1>2, <1>3 DEF PlanShapes, PlanCalls, PlanCounted, Filled
<1> QED  BY <1>2, <1>4, <1>5 DEF PlanFormInv, PlanForm!FormFollowsBudget, PlanForm!Loaded

\* each step keeps it, and sends what was submitted.
LEMMA PlanFormStep ==
    ASSUME NoCalls, PlanFormInv, PlanForm!BudgetFormNext
    PROVE  PlanFormInv' /\ PlanAsks
<1>1. ASSUME NEW k \in PlanForm!Slots,
          PlanForm!ServeBudget(k) \/ PlanForm!AnswerBudget(k) \/ PlanForm!Fails(k, ui)
      PROVE  k \in 1..BudgetFormCase.calls /\ Going(call[k])
  BY <1>1 DEF PlanForm!Slots, PlanForm!ServeBudget, PlanForm!AnswerBudget, PlanForm!Fails, PlanForm!Running,
      Going
<1> QED  BY <1>1, PlanUser, PlanServed, PlanEnded, PlanFetched DEF PlanForm!BudgetFormNext

-----------------------------------------------------------------------------
(***************************************************************************)
(* The drawer of an earmark.                                               *)
(***************************************************************************)
IsPilesUi(u) ==
    u = [open |-> u.open, id |-> u.id, form |-> u.form, touched |-> u.touched,
         target |-> u.target, confirm |-> u.confirm, changes |-> u.changes]

PilesHooks == {"create", "patch", "toggle", "delete", "deleteHere"}

PilesInv ==
    /\ Hooks(EarmarksCase.calls, call, PilesHooks)
    /\ IsPilesUi(ui)
    /\ seen = [list |-> seen.list, item |-> seen.item]
    /\ seen.item = [e \in DOMAIN seen.item |-> seen.item[e]]
    /\ Piles!FormIsTheEarmark

\* A drawer that is closed, changed by the user or left as it is goes on showing what it should,
LEMMA PilesKept ==
    ASSUME PilesInv, Hooks(EarmarksCase.calls, call', PilesHooks), IsPilesUi(ui'),
        seen' = [list |-> seen'.list, item |-> seen.item],
           \/ ~ui'.open
           \/ ui'.touched = TRUE
           \/ ui'.form = ui.form /\ ui'.touched = ui.touched /\ ui'.id = ui.id /\ ui'.open = ui.open
    PROVE  PilesInv'
<1>1. seen'.item = seen.item
  OBVIOUS
<1>2. (Piles!FormIsTheEarmark)'
  BY <1>1 DEF PilesInv, Piles!FormIsTheEarmark, Piles!Known
<1> QED  BY <1>1, <1>2 DEF PilesInv, IsPilesUi

\* and so does one that has just been opened or followed an earmark.
LEMMA PilesSynced ==
    ASSUME PilesInv, Hooks(EarmarksCase.calls, call', PilesHooks), NEW id, NEW item,
        ui'.form = Piles!Synced(id, item), ui'.id = id,
           IsPilesUi(ui'), seen' = [list |-> seen'.list, item |-> item],
           item = [e \in DOMAIN item |-> item[e]]
    PROVE  PilesInv'
<1>1. seen'.item = item
  OBVIOUS
<1>2. (Piles!FormIsTheEarmark)'
  BY <1>1 DEF Piles!FormIsTheEarmark, Piles!Known, Piles!Synced, Piles!FormOf, Piles!BlankForm
<1> QED  BY <1>1, <1>2 DEF PilesInv, IsPilesUi

\* The calls a step leaves are those of the page.
LEMMA PilesCalls ==
    ASSUME NoCalls, PilesInv,
           \/ call' = call
           \/ \E h \in PilesHooks : \E b : Piles!Mutate(h, b)
           \/ \E k \in 1..EarmarksCase.calls :
                  /\ Going(call[k])
                  /\ call' = Piles!Without(k) \/ \E s : call' = [call EXCEPT ![k].state = s]
    PROVE  Hooks(EarmarksCase.calls, call', PilesHooks)
<1> DEFINE n == EarmarksCase.calls
<1> SUFFICES Hooks(n, call', PilesHooks)
  OBVIOUS
<1>1. n \in Nat /\ Hooks(n, call, PilesHooks)
  BY ClientAssumption DEF PilesInv
<1>2. CASE \E h \in PilesHooks : \E b : Piles!Mutate(h, b)
  <2>1. PICK h, b : h \in PilesHooks /\ Piles!Mutate(h, b)
    BY <1>2
  <2>2. Piles!Free # {} /\ Piles!Free \subseteq Nat /\ \A k \in Piles!Free : k \in 1..n /\ call[k] = Idle
    BY <1>1, <2>1 DEF Piles!Mutate, Piles!Free, Piles!Slots
  <2>3. /\ Piles!Min(Piles!Free) \in Piles!Free
        /\ \A j \in Piles!Free : Piles!Min(Piles!Free) <= j
    BY <2>2, LeastIsIn DEF Piles!Min
  <2>4. \A j \in 1..n : call[j] = Idle => j \in Piles!Free
    BY DEF Piles!Free, Piles!Slots
  <2>5. Begun(n, call, call', h, b)
    BY <2>1, <2>2, <2>3, <2>4 DEF Piles!Mutate, Piles!Started, Piles!Slots, Piles!Running, Begun, Going
  <2> HIDE DEF n
  <2> QED  BY <1>1, <2>1, <2>5, HooksStay
<1>3. CASE \E k \in 1..EarmarksCase.calls :
                  /\ Going(call[k])
                  /\ call' = Piles!Without(k) \/ \E s : call' = [call EXCEPT ![k].state = s]
  <2>1. \E k \in 1..n : Going(call[k]) /\ ((\E s : Restated(call, call', k, s)) \/ Dropped(n, call, call', k))
    BY <1>3 DEF Piles!Without, Piles!Slots, Dropped, Restated
  <2> HIDE DEF n
  <2> QED  BY <1>1, <2>1, HooksStay
<1> QED  BY <1>1, <1>2, <1>3

\* What the user does to the drawer and to the dialog,
LEMMA PilesUser == ASSUME NoCalls, PilesInv, Piles!EarmarkUser PROVE PilesInv'
<1>1. /\ ui = [open |-> ui.open, id |-> ui.id, form |-> ui.form, touched |-> ui.touched,
               target |-> ui.target, confirm |-> ui.confirm, changes |-> ui.changes]
      /\ seen = [list |-> seen.list, item |-> seen.item]
      /\ seen.item = [e \in DOMAIN seen.item |-> seen.item[e]]
  BY DEF PilesInv, IsPilesUi
<1>2. CASE \E id : Piles!OpenDrawer(id)
  <2>1. PICK id : Piles!OpenDrawer(id)
    BY <1>2
  <2>2. /\ ui' = [open |-> TRUE, id |-> id, form |-> Piles!Synced(id, seen.item), touched |-> FALSE,
                  target |-> ui.target, confirm |-> ui.confirm, changes |-> ui.changes + 1]
        /\ seen' = seen /\ call' = call
    BY <1>1, <2>1 DEF Piles!OpenDrawer
  <2>3. ui'.form = Piles!Synced(id, seen.item) /\ ui'.id = id /\ IsPilesUi(ui')
    BY <2>2 DEF IsPilesUi
  <2> QED  BY <1>1, <2>2, <2>3, PilesCalls, PilesSynced
<1>3. CASE Piles!CloseDrawer
  <2>1. /\ ui' = [open |-> FALSE, id |-> ui.id, form |-> Piles!Synced(ui.id, seen.item), touched |-> FALSE,
                  target |-> ui.target, confirm |-> ui.confirm, changes |-> ui.changes]
        /\ seen' = seen /\ call' = call
    BY <1>1, <1>3 DEF Piles!CloseDrawer, Piles!Closed, Piles!Locally
  <2>2. ~ui'.open /\ IsPilesUi(ui')
    BY <2>1 DEF IsPilesUi
  <2> QED  BY <1>1, <2>1, <2>2, PilesCalls, PilesKept
<1>4. CASE \E form : Piles!Edited(form)
  <2>1. PICK form : Piles!Edited(form)
    BY <1>4
  <2>2. /\ ui' = [open |-> ui.open, id |-> ui.id, form |-> form, touched |-> TRUE,
                  target |-> ui.target, confirm |-> ui.confirm, changes |-> ui.changes + 1]
        /\ seen' = seen /\ call' = call
    BY <1>1, <2>1 DEF Piles!Edited, Piles!Locally
  <2>3. ui'.touched = TRUE /\ IsPilesUi(ui')
    BY <2>2 DEF IsPilesUi
  <2> QED  BY <1>1, <2>2, <2>3, PilesCalls, PilesKept
<1>5. CASE \E h \in PilesHooks : \E b : Piles!Sends(h, b)
  <2>1. (\E h \in PilesHooks : \E b : Piles!Mutate(h, b)) /\ UNCHANGED <<seen, ui>>
    BY <1>5 DEF Piles!Sends
  <2> QED  BY <1>1, <2>1, PilesCalls, PilesKept DEF IsPilesUi
<1>6. CASE \/ \E e : Piles!Locally([ui EXCEPT !.target = e])
           \/ \E c : Piles!Locally([ui EXCEPT !.confirm = c])
  <2>1. /\ seen' = seen /\ call' = call /\ IsPilesUi(ui') /\ ui'.form = ui.form /\ ui'.touched = ui.touched
        /\ ui'.id = ui.id /\ ui'.open = ui.open
    <3>1. CASE \E e : Piles!Locally([ui EXCEPT !.target = e])
      BY <1>1, <3>1 DEF Piles!Locally, IsPilesUi
    <3>2. CASE \E c : Piles!Locally([ui EXCEPT !.confirm = c])
      BY <1>1, <3>2 DEF Piles!Locally, IsPilesUi
    <3> QED  BY <1>6, <3>1, <3>2
  <2> QED  BY <1>1, <2>1, PilesCalls, PilesKept
<1>7. \/ Piles!HandleCreate \/ (\E e \in Piles!Shown : Piles!HandleEdit(e)) => \E id : Piles!OpenDrawer(id)
  BY Zenon DEF Piles!HandleCreate, Piles!HandleEdit
<1>8. \/ Piles!ConfirmDelete \/ Piles!HandleSubmit \/ Piles!ConfirmInDrawer \/ Piles!ToggleInDrawer
      \/ (\E e \in Piles!Shown : Piles!HandleToggle(e))
      => \E h \in PilesHooks : \E b : Piles!Sends(h, b)
  BY DEF PilesHooks, Piles!ConfirmDelete, Piles!HandleSubmit, Piles!ConfirmInDrawer, Piles!ToggleInDrawer,
     Piles!HandleToggle
<1>9. Piles!TypeNote \/ (\E a \in EarmarksCase.typed : Piles!TypeAmount(a)) => \E form : Piles!Edited(form)
  BY Zenon DEF Piles!TypeNote, Piles!TypeAmount
<1>10. Piles!CancelDelete \/ (\E e \in Piles!Shown : Piles!AskDelete(e))
       => \E e : Piles!Locally([ui EXCEPT !.target = e])
  BY Zenon DEF Piles!CancelDelete, Piles!AskDelete
<1>11. Piles!AskDeleteInDrawer \/ Piles!CancelInDrawer => \E c : Piles!Locally([ui EXCEPT !.confirm = c])
  BY Zenon DEF Piles!AskDeleteInDrawer, Piles!CancelInDrawer
<1> QED
  BY <1>2, <1>3, <1>4, <1>5, <1>6, <1>7, <1>8, <1>9, <1>10, <1>11 DEF Piles!EarmarkUser

\* what the server answers,
LEMMA PilesAnswered ==
    ASSUME NoCalls, PilesInv, NEW k \in 1..EarmarksCase.calls, Going(call[k]),
           Piles!ServeEarmark(k) \/ Piles!AnswerEarmark(k) \/ Piles!Fails(k, ui)
    PROVE  PilesInv'
<1>1. /\ ui = [open |-> ui.open, id |-> ui.id, form |-> ui.form, touched |-> ui.touched,
               target |-> ui.target, confirm |-> ui.confirm, changes |-> ui.changes]
      /\ seen = [list |-> seen.list, item |-> seen.item]
  BY DEF PilesInv, IsPilesUi
<1>2. seen' = seen /\ (ui' = ui \/ ui' = Piles!HeardEarmark(k))
  BY DEF Piles!ServeEarmark, Piles!AnswerEarmark, Piles!Fails, Piles!Serve, Piles!Returns
<1>5. Hooks(EarmarksCase.calls, call', PilesHooks)
  <2>1. call' = Piles!Without(k) \/ \E s : call' = [call EXCEPT ![k].state = s]
    BY DEF Piles!ServeEarmark, Piles!AnswerEarmark, Piles!Fails, Piles!Serve, Piles!Returns
  <2> QED  BY <2>1, PilesCalls
<1>3. CASE ui' = ui
  BY <1>1, <1>2, <1>3, <1>5, PilesKept DEF IsPilesUi
<1>4. CASE Piles!AnswerEarmark(k) /\ ui' # ui
  <2>1. ui' = Piles!HeardEarmark(k)
    BY <1>2, <1>4
  <2>2. CASE ui' = [ui EXCEPT !.target = None]
    <3>1. /\ IsPilesUi(ui') /\ ui'.form = ui.form /\ ui'.touched = ui.touched
          /\ ui'.id = ui.id /\ ui'.open = ui.open
      BY <1>1, <2>2 DEF IsPilesUi
    <3> QED  BY <1>1, <1>2, <1>5, <3>1, PilesKept
  <2>3. CASE ui' = Piles!Closed([ui EXCEPT !.confirm = FALSE]) \/ ui' = Piles!Closed(ui)
    <3>1. IsPilesUi(ui') /\ ~ui'.open
      BY <1>1, <2>3 DEF IsPilesUi, Piles!Closed
    <3> QED  BY <1>1, <1>2, <1>5, <3>1, PilesKept
  <2>4. call[k].hook \in {"toggle", "deleteHere", "delete", "create", "patch"}
    BY DEF PilesInv, Hooks, PilesHooks
  <2> QED  BY <1>4, <2>1, <2>2, <2>3, <2>4 DEF Piles!HeardEarmark
<1> QED  BY <1>2, <1>3, <1>4 DEF Piles!ServeEarmark, Piles!AnswerEarmark, Piles!Fails, Piles!Serve

\* and what is fetched.
LEMMA PilesFetched ==
    ASSUME NoCalls, PilesInv, Piles!FetchList \/ Piles!FetchItem \/ Piles!FetchItemFails
    PROVE  PilesInv'
<1>1. /\ ui = [open |-> ui.open, id |-> ui.id, form |-> ui.form, touched |-> ui.touched,
               target |-> ui.target, confirm |-> ui.confirm, changes |-> ui.changes]
      /\ seen = [list |-> seen.list, item |-> seen.item]
      /\ seen.item = [e \in DOMAIN seen.item |-> seen.item[e]]
  BY DEF PilesInv, IsPilesUi
<1>4. Hooks(EarmarksCase.calls, call', PilesHooks)
  BY PilesCalls DEF Piles!FetchList, Piles!FetchItem, Piles!FetchItemFails
<1>2. CASE Piles!FetchList
  BY <1>1, <1>2, <1>4, PilesKept DEF Piles!FetchList, IsPilesUi
<1>3. CASE Piles!FetchItem
  <2>1. PICK item :
          /\ item = IF ui.id \in DOMAIN db THEN [seen.item EXCEPT ![ui.id] = db[ui.id]] ELSE seen.item
          /\ seen' = [seen EXCEPT !.item = item]
          /\ ui' = IF item = seen.item THEN ui
                   ELSE [ui EXCEPT !.form = Piles!Synced(ui.id, item), !.touched = FALSE]
    BY <1>3 DEF Piles!FetchItem
  <2>2. item = [e \in DOMAIN item |-> item[e]]
    BY <1>1, <2>1
  <2>3. seen' = [list |-> seen.list, item |-> item]
    BY <1>1, <2>1
  <2>4. CASE item = seen.item
    BY <1>1, <1>4, <2>1, <2>3, <2>4, PilesKept DEF IsPilesUi
  <2>5. CASE item # seen.item
    <3>1. ui' = [open |-> ui.open, id |-> ui.id, form |-> Piles!Synced(ui.id, item), touched |-> FALSE,
                 target |-> ui.target, confirm |-> ui.confirm, changes |-> ui.changes]
      BY <1>1, <2>1, <2>5
    <3>2. ui'.form = Piles!Synced(ui.id, item) /\ ui'.id = ui.id /\ IsPilesUi(ui')
      BY <3>1 DEF IsPilesUi
    <3> QED  BY <1>4, <2>2, <2>3, <3>2, PilesSynced
  <2> QED  BY <2>4, <2>5
<1>5. CASE Piles!FetchItemFails
  BY <1>1, <1>4, <1>5, PilesKept DEF Piles!FetchItemFails, IsPilesUi
<1> QED  BY <1>2, <1>3, <1>5

\* The invariant holds when the page is opened,
LEMMA PilesInit == ASSUME Piles!EarmarkInit PROVE PilesInv
<1>1. call = [k \in 1..EarmarksCase.calls |-> Idle]
  BY DEF Piles!EarmarkInit, Piles!Slots
<1>2. Hooks(EarmarksCase.calls, call, PilesHooks)
  BY <1>1 DEF Hooks, Calling, Going
<1> QED  BY <1>2 DEF Piles!EarmarkInit, PilesInv, IsPilesUi, Piles!FormIsTheEarmark

\* and each step keeps it.
LEMMA PilesStep == ASSUME NoCalls, PilesInv, Piles!EarmarkNext PROVE PilesInv'
<1>1. ASSUME NEW k \in Piles!Slots, Piles!ServeEarmark(k) \/ Piles!AnswerEarmark(k) \/ Piles!Fails(k, ui)
      PROVE  k \in 1..EarmarksCase.calls /\ Going(call[k])
  BY <1>1 DEF Piles!Slots, Piles!ServeEarmark, Piles!AnswerEarmark, Piles!Fails, Piles!Running, Going
<1> QED  BY <1>1, PilesUser, PilesAnswered, PilesFetched DEF Piles!EarmarkNext

-----------------------------------------------------------------------------
(***************************************************************************)
(* Forms that may be submitted again and again: the user's drafts are      *)
(* counted, a call carries the draft it was sent for, and a row remembers  *)
(* it.                                                                     *)
(***************************************************************************)
\* The calls of the hook h make the rows with the ids.  No two calls under way and no two
\* rows are of one draft, and none of the rows is of a draft that is still to be served.
\* While the form is open it hears of the call for its draft, and there is one if the row
\* has been made.
Drafts(n, c, h, ids, rows, draft, open) ==
    /\ draft \in Nat
    /\ \A r \in DOMAIN rows \cap ids : rows[r].draft \in 0..draft
    /\ \A r, s \in DOMAIN rows \cap ids : rows[r].draft = rows[s].draft => r = s
    /\ \A k \in 1..n : Mine(c[k], h) => c[k].body.draft \in 0..draft
    /\ \A j, k \in 1..n : Mine(c[j], h) /\ Mine(c[k], h) /\ c[j].body.draft = c[k].body.draft => j = k
    /\ \A k \in 1..n : Mine(c[k], h) /\ c[k].state = "sent" =>
          \A r \in DOMAIN rows \cap ids : rows[r].draft # c[k].body.draft
    /\ open => /\ \A k \in 1..n : Mine(c[k], h) /\ c[k].body.draft = draft => c[k].heard
               /\ (\E r \in DOMAIN rows \cap ids : rows[r].draft = draft) =>
                     \E k \in 1..n : Mine(c[k], h) /\ c[k].body.draft = draft

\* The rows that are now there were there before, of the same drafts, but for one that the
\* call c of the hook h has made.
Made(ids, rows, now, c, h) ==
    \E id : \A r \in DOMAIN now \cap ids :
              \/ r \in DOMAIN rows /\ now[r].draft = rows[r].draft
              \/ Mine(c, h) /\ c.state = "sent" /\ r = id /\ now[r].draft = c.body.draft

\* The user begins another draft,
LEMMA DraftsNext ==
    ASSUME NEW n, NEW c, NEW h, NEW ids, NEW rows, NEW draft, NEW open, NEW p,
           Drafts(n, c, h, ids, rows, draft, open)
    PROVE  Drafts(n, c, h, ids, rows, draft + 1, p)
<1>1. /\ draft + 1 \in Nat /\ \A x \in 0..draft : x \in 0..(draft + 1) /\ x # draft + 1
  BY DEF Drafts
<1> QED  BY <1>1 DEF Drafts

\* closes the form,
LEMMA DraftsShut ==
    ASSUME NEW n, NEW c, NEW h, NEW ids, NEW rows, NEW draft, NEW open, NEW p,
           Drafts(n, c, h, ids, rows, draft, open), p => open
    PROVE  Drafts(n, c, h, ids, rows, draft, p)
BY DEF Drafts

\* sends what is in it,
LEMMA DraftsSent ==
    ASSUME NoCalls, NEW n \in Nat, NEW c, Calling(n, c), NEW h, NEW ids, NEW rows, NEW draft, NEW open,
           Drafts(n, c, h, ids, rows, draft, open), NEW d, NEW g, NEW b, Begun(n, c, d, g, b),
           g = h => open /\ b.draft = draft /\ \A k \in 1..n : ~(Mine(c[k], h) /\ c[k].heard)
    PROVE  Drafts(n, d, h, ids, rows, draft, open)
<1>1. PICK new \in 1..n :
                 /\ ~Going(c[new]) /\ Going(d[new])
                 /\ d[new] = [hook |-> g, body |-> b, state |-> "sent", awaits |-> {}, heard |-> TRUE]
                 /\ \A j \in 1..n : j # new =>
                       /\ Going(d[j]) <=> Going(c[j])
                       /\ ~Mine(c[j], g) => d[j] = c[j]
                       /\ Mine(c[j], g) => Carries(c[j], d[j]) /\ d[j].state = c[j].state /\ ~d[j].heard
  BY BegunRows
<1>2. CASE g # h
  <2>1. \A j \in 1..n : Mine(d[j], h) \/ Mine(c[j], h) => Mine(c[j], h) /\ d[j] = c[j]
    BY <1>1, <1>2 DEF Mine, Carries
  <2> QED  BY <2>1 DEF Drafts
<1>3. CASE g = h
  <2>1. /\ \A j \in 1..n : Mine(c[j], h) => c[j].body.draft # draft
        /\ \A r \in DOMAIN rows \cap ids : rows[r].draft # draft
    BY <1>3 DEF Drafts
  <2>2. /\ Mine(d[new], h) /\ d[new].body.draft = draft /\ d[new].heard
        /\ \A j \in 1..n : j # new /\ Mine(d[j], h) =>
              Mine(c[j], h) /\ d[j].body = c[j].body /\ d[j].state = c[j].state
    BY <1>1, <1>3 DEF Mine, Carries
  <2>3. draft \in 0..draft
    BY DEF Drafts
  <2>4. \A j \in 1..n : Mine(d[j], h) => d[j].body.draft \in 0..draft
    BY <2>2, <2>3 DEF Drafts
  <2>5. \A j, k \in 1..n : Mine(d[j], h) /\ Mine(d[k], h) /\ d[j].body.draft = d[k].body.draft => j = k
    BY <2>1, <2>2 DEF Drafts
  <2>6. \A k \in 1..n : Mine(d[k], h) /\ d[k].state = "sent" =>
            \A r \in DOMAIN rows \cap ids : rows[r].draft # d[k].body.draft
    BY <2>1, <2>2 DEF Drafts
  <2>7. \A k \in 1..n : Mine(d[k], h) /\ d[k].body.draft = draft => d[k].heard
    BY <2>1, <2>2
  <2> QED  BY <2>1, <2>4, <2>5, <2>6, <2>7 DEF Drafts
<1> QED  BY <1>2, <1>3

\* the server makes the row, or works on another call,
LEMMA DraftsServed ==
    ASSUME NoCalls, NEW n \in Nat, NEW c, Calling(n, c), NEW h, NEW ids, NEW rows, NEW draft, NEW open,
           Drafts(n, c, h, ids, rows, draft, open),
           NEW k \in 1..n, Going(c[k]), NEW s, s # "sent", NEW d, Restated(c, d, k, s),
           NEW now, Made(ids, rows, now, c[k], h)
    PROVE  Drafts(n, d, h, ids, now, draft, open)
<1>0. PICK id : \A r \in DOMAIN now \cap ids :
              \/ r \in DOMAIN rows /\ now[r].draft = rows[r].draft
              \/ Mine(c[k], h) /\ c[k].state = "sent" /\ r = id /\ now[r].draft = c[k].body.draft
  BY DEF Made
<1>1. /\ \A j \in 1..n : j # k => d[j] = c[j]
      /\ Going(d[k]) /\ d[k].state = s /\ d[k].heard = c[k].heard /\ Carries(c[k], d[k])
  BY RestatedRows
<1>2. \A j \in 1..n : /\ Mine(d[j], h) <=> Mine(c[j], h)
                      /\ Mine(d[j], h) => d[j].body = c[j].body /\ d[j].heard = c[j].heard
                      /\ Mine(d[j], h) /\ d[j].state = "sent" => j # k /\ c[j].state = "sent"
  BY <1>1 DEF Mine, Carries
<1>3. \A r \in DOMAIN now \cap ids : now[r].draft \in 0..draft
  BY <1>0 DEF Drafts
<1>4. ASSUME NEW r \in DOMAIN now \cap ids, NEW t \in DOMAIN now \cap ids, now[r].draft = now[t].draft
      PROVE  r = t
  <2>1. CASE r \in DOMAIN rows /\ now[r].draft = rows[r].draft /\ t \in DOMAIN rows /\ now[t].draft = rows[t].draft
    BY <1>4, <2>1 DEF Drafts
  <2>2. Mine(c[k], h) /\ c[k].state = "sent" => \A q \in DOMAIN rows \cap ids : rows[q].draft # c[k].body.draft
    BY DEF Drafts
  <2> QED  BY <1>0, <1>4, <2>1, <2>2
<1>5. /\ \A j \in 1..n : Mine(d[j], h) => d[j].body.draft \in 0..draft
      /\ \A i, j \in 1..n : Mine(d[i], h) /\ Mine(d[j], h) /\ d[i].body.draft = d[j].body.draft => i = j
  BY <1>2 DEF Drafts
<1>6. ASSUME NEW j \in 1..n, Mine(d[j], h), d[j].state = "sent", NEW r \in DOMAIN now \cap ids
      PROVE  now[r].draft # d[j].body.draft
  <2>1. Mine(c[j], h) /\ c[j].state = "sent" /\ j # k /\ d[j].body = c[j].body
    BY <1>2, <1>6
  <2>2. Mine(c[k], h) => c[k].body.draft # c[j].body.draft
    BY <2>1 DEF Drafts
  <2>3. r \in DOMAIN rows => rows[r].draft # c[j].body.draft
    BY <2>1 DEF Drafts
  <2> QED  BY <1>0, <2>1, <2>2, <2>3
<1>7. ASSUME open
      PROVE  /\ \A j \in 1..n : Mine(d[j], h) /\ d[j].body.draft = draft => d[j].heard
             /\ (\E r \in DOMAIN now \cap ids : now[r].draft = draft) =>
                   \E j \in 1..n : Mine(d[j], h) /\ d[j].body.draft = draft
  <2>1. (\E r \in DOMAIN now \cap ids : now[r].draft = draft) =>
                   \E j \in 1..n : Mine(c[j], h) /\ c[j].body.draft = draft
    BY <1>0, <1>7 DEF Drafts
  <2> QED  BY <1>2, <1>7, <2>1 DEF Drafts
<1>8. draft \in Nat
  BY DEF Drafts
<1> QED  BY <1>3, <1>4, <1>5, <1>6, <1>7, <1>8 DEF Drafts

\* a call is over,
LEMMA DraftsGone ==
    ASSUME NEW n \in Nat, NEW c, Calling(n, c), NEW h, NEW ids, NEW rows, NEW draft, NEW open, NEW p,
           Drafts(n, c, h, ids, rows, draft, open), p => open,
           NEW k \in 1..n, NEW d, Dropped(n, c, d, k),
           p /\ Mine(c[k], h) => c[k].state = "sent" \/ ~c[k].heard
    PROVE  Drafts(n, d, h, ids, rows, draft, p)
<1>1. /\ \A j \in 1..n : Going(d[j]) =>
            /\ Before(k, j) \in 1..n /\ d[j] = c[Before(k, j)]
            /\ \A i \in 1..n : i # j => Before(k, i) # Before(k, j)
      /\ \A j \in 1..n : j # k => After(k, j) \in 1..n /\ d[After(k, j)] = c[j]
  BY DroppedRows
<1>2. \A j \in 1..n : Mine(d[j], h) => Before(k, j) \in 1..n /\ Mine(c[Before(k, j)], h) /\ d[j] = c[Before(k, j)]
  BY <1>1 DEF Mine
<1>3. \A j \in 1..n : Mine(d[j], h) => d[j].body.draft \in 0..draft
  BY <1>2 DEF Drafts
<1>4. \A i, j \in 1..n : Mine(d[i], h) /\ Mine(d[j], h) /\ d[i].body.draft = d[j].body.draft => i = j
  <2>1. \A i, j \in 1..n : Mine(d[i], h) /\ Mine(d[j], h) /\ d[i].body.draft = d[j].body.draft
                              => Before(k, i) = Before(k, j)
    BY <1>2 DEF Drafts
  <2>2. \A i, j \in 1..n : Mine(d[j], h) /\ i # j => Before(k, i) # Before(k, j)
    BY <1>1 DEF Mine
  <2> QED  BY <2>1, <2>2
<1>5. \A j \in 1..n : Mine(d[j], h) /\ d[j].state = "sent" =>
          \A r \in DOMAIN rows \cap ids : rows[r].draft # d[j].body.draft
  BY <1>2 DEF Drafts
<1>6. ASSUME p
      PROVE  /\ \A j \in 1..n : Mine(d[j], h) /\ d[j].body.draft = draft => d[j].heard
             /\ (\E r \in DOMAIN rows \cap ids : rows[r].draft = draft) =>
                   \E j \in 1..n : Mine(d[j], h) /\ d[j].body.draft = draft
  <2>1. \A j \in 1..n : Mine(d[j], h) /\ d[j].body.draft = draft => d[j].heard
    BY <1>2, <1>6 DEF Drafts
  <2>2. ASSUME \E r \in DOMAIN rows \cap ids : rows[r].draft = draft
        PROVE  \E j \in 1..n : Mine(d[j], h) /\ d[j].body.draft = draft
    <3>1. PICK j \in 1..n : Mine(c[j], h) /\ c[j].body.draft = draft /\ c[j].heard
      BY <1>6, <2>2 DEF Drafts
    <3>2. c[j].state # "sent"
      BY <2>2, <3>1 DEF Drafts
    <3>3. j # k
      BY <1>6, <3>1, <3>2
    <3> QED  BY <1>1, <3>1, <3>3
  <2> QED  BY <2>1, <2>2
<1> QED  BY <1>3, <1>4, <1>5, <1>6 DEF Drafts

\* and callbacks are taken away from the calls of a form that is closed.
LEMMA DraftsUnheard ==
    ASSUME NEW n, NEW c, NEW h, NEW ids, NEW rows, NEW draft, NEW open, NEW p,
           Drafts(n, c, h, ids, rows, draft, open), NEW d,
           \A j \in 1..n : Mine(d[j], h) => /\ Mine(c[j], h) /\ d[j].state = c[j].state
                                            /\ d[j].body.draft = c[j].body.draft,
           p => open /\ \A j \in 1..n : Mine(c[j], h) => d[j] = c[j]
    PROVE  Drafts(n, d, h, ids, rows, draft, p)
<1>1. ASSUME p
      PROVE  /\ \A j \in 1..n : Mine(d[j], h) /\ d[j].body.draft = draft => d[j].heard
             /\ (\E r \in DOMAIN rows \cap ids : rows[r].draft = draft) =>
                   \E j \in 1..n : Mine(d[j], h) /\ d[j].body.draft = draft
  BY <1>1 DEF Drafts
<1> QED  BY <1>1 DEF Drafts

-----------------------------------------------------------------------------
(***************************************************************************)
(* Savings goals.                                                          *)
(***************************************************************************)
Positive(a) == a \in Nat /\ a > 0

GoalHooks == {"create", "patch", "delete", "deleteHere", "add", "remove"}

IsPig(r) == r = [target |-> r.target, notes |-> r.notes, completed |-> r.completed, draft |-> r.draft]

IsContribution(r) == r = [pig |-> r.pig, amount |-> r.amount, draft |-> r.draft]

\* Goals and contributions have all their fields, and a contribution has its goal.
GoalTables(d) ==
    /\ d = [pig |-> d.pig, contrib |-> d.contrib]
    /\ d.pig = [p \in DOMAIN d.pig |-> d.pig[p]]
    /\ d.contrib = [c \in DOMAIN d.contrib |-> d.contrib[c]]
    /\ \A p \in DOMAIN d.pig : IsPig(d.pig[p]) /\ Positive(d.pig[p].target)
    /\ \A c \in DOMAIN d.contrib : IsContribution(d.contrib[c]) /\ d.contrib[c].pig \in DOMAIN d.pig

Reached(d, p) == d.pig[p].completed <=> Goals!Total(d, p) >= d.pig[p].target

GoalRows(d) == GoalTables(d) /\ \A p \in DOMAIN d.pig : Reached(d, p)

\* The rows of d are those of e, of the same drafts, but for one that is new.
SameDrafts(d, e, new, draft) ==
    \A r \in DOMAIN e : (r \in DOMAIN d /\ e[r].draft = d[r].draft) \/ (r = new /\ e[r].draft = draft)

\* No contributions come to 0.
LEMMA NoneContributed ==
    ASSUME NEW d, NEW p, \A c \in DOMAIN d.contrib : d.contrib[c].pig # p
    PROVE  Goals!Total(d, p) = 0
<1> DEFINE rows == Goals!Contributions(d, p)
           step(g, s) == IF s = {} THEN 0
                         ELSE LET x == CHOOSE x \in s : TRUE IN rows[x].amount + g[s \ {x}]
<1>1. DOMAIN rows = {}
  BY DEF Goals!Contributions, Goals!Restrict
<1>2. Goals!AmountOf(rows) = (CHOOSE g : g = [s \in SUBSET {} |-> step(g, s)])[{}]
  BY <1>1 DEF Goals!AmountOf, Goals!MapThenSumSet, Goals!MapThenFoldSet
<1>3. \E g : g = [s \in SUBSET {} |-> step(g, s)]
  <2>1. [s \in SUBSET {} |-> 0] = [s \in SUBSET {} |-> step([t \in SUBSET {} |-> 0], s)]
    OBVIOUS
  <2> QED  BY <2>1
<1>4. PICK g : g = [s \in SUBSET {} |-> step(g, s)] /\ Goals!AmountOf(rows) = g[{}]
  BY <1>2, <1>3
<1>5. g[{}] = 0
  BY <1>4
<1> QED  BY <1>4, <1>5 DEF Goals!Total

\* The total of a goal is a matter of its contributions, whatever becomes of the others.
LEMMA TotalDepends ==
    ASSUME NEW d, NEW e, NEW p,
           \A c : (c \in DOMAIN d.contrib /\ d.contrib[c].pig = p) <=> (c \in DOMAIN e.contrib /\ e.contrib[c].pig = p),
           \A c \in DOMAIN d.contrib : d.contrib[c].pig = p => e.contrib[c] = d.contrib[c]
    PROVE  Goals!Total(e, p) = Goals!Total(d, p)
<1>1. Goals!Contributions(e, p) = Goals!Contributions(d, p)
  BY DEF Goals!Contributions, Goals!Restrict
<1> QED  BY <1>1 DEF Goals!Total

\* UpdateCompletion sets right the goal it is called for,
LEMMA CompletionUpdated ==
    ASSUME NEW d, GoalTables(d), NEW p \in DOMAIN d.pig,
           \A q \in DOMAIN d.pig : q # p => Reached(d, q)
    PROVE  LET e == Goals!UpdateCompletion(d, p)
           IN  /\ GoalRows(e)
               /\ \A q \in DOMAIN e.pig : q \in DOMAIN d.pig /\ e.pig[q].draft = d.pig[q].draft
               /\ e.contrib = d.contrib
<1> DEFINE e == Goals!UpdateCompletion(d, p)
           full == Goals!Total(d, p) >= d.pig[p].target
<1>1. d = [pig |-> d.pig, contrib |-> d.contrib] /\ d.pig = [q \in DOMAIN d.pig |-> d.pig[q]]
  BY DEF GoalTables
<1>2. e = [d EXCEPT !.pig = [d.pig EXCEPT ![p] = [d.pig[p] EXCEPT !.completed = full]]]
  BY <1>1 DEF Goals!UpdateCompletion
<1>3. e = [pig |-> [d.pig EXCEPT ![p] = [d.pig[p] EXCEPT !.completed = full]], contrib |-> d.contrib]
  BY <1>1, <1>2
<1>4. /\ e.contrib = d.contrib /\ DOMAIN e.pig = DOMAIN d.pig
      /\ e.pig = [q \in DOMAIN d.pig |-> e.pig[q]]
      /\ e.pig[p] = [d.pig[p] EXCEPT !.completed = full]
      /\ \A q \in DOMAIN d.pig : q # p => e.pig[q] = d.pig[q]
  BY <1>1, <1>3
<1>5. e = [pig |-> e.pig, contrib |-> e.contrib]
  BY <1>3, <1>4
<1> HIDE DEF e, full
<1>6. e.pig[p] = [target |-> d.pig[p].target, notes |-> d.pig[p].notes, completed |-> full, draft |-> d.pig[p].draft]
  BY <1>4 DEF GoalTables, IsPig
<1>7. IsPig(e.pig[p]) /\ e.pig[p].target = d.pig[p].target /\ e.pig[p].draft = d.pig[p].draft /\ e.pig[p].completed = full
  BY <1>6 DEF IsPig
<1>8. GoalTables(e)
  BY <1>4, <1>5, <1>7 DEF GoalTables
<1>9. \A q : Goals!Total(e, q) = Goals!Total(d, q)
  BY <1>4, TotalDepends
<1>10. Reached(e, p)
  <2>1. e.pig[p].completed <=> full
    BY <1>7
  <2> QED  BY <1>7, <1>9, <2>1 DEF Reached, full
<1>11. \A q \in DOMAIN d.pig : q # p => Reached(e, q)
  BY <1>4, <1>9 DEF Reached
<1>12. \A q \in DOMAIN e.pig : q \in DOMAIN d.pig /\ e.pig[q].draft = d.pig[q].draft
  BY <1>4, <1>7
<1> QED  BY <1>4, <1>8, <1>10, <1>11, <1>12 DEF GoalRows, e

\* The server writes what it does to goals that are right about whether they are reached.
LEMMA GoalsWritten ==
    ASSUME GoalRows(db), NEW k, Goals!PigAccepted(k), call[k].hook \in GoalHooks,
           call[k].hook \in {"create", "add"} => Goals!Unused # {},
           call[k].hook \in {"create", "patch"} => Positive(call[k].body.target)
    PROVE  LET d == Goals!PigResult(k)
               b == call[k].body
           IN  /\ GoalRows(d)
               /\ \E id : /\ id \in Goals!Unused \/ call[k].hook \notin {"create", "add"}
                          /\ SameDrafts(db.pig, d.pig, id, b.draft)
                          /\ SameDrafts(db.contrib, d.contrib, id, b.draft)
                          /\ call[k].hook # "create" => \A p \in DOMAIN d.pig : p \in DOMAIN db.pig /\ d.pig[p].draft = db.pig[p].draft
                          /\ call[k].hook # "add" => \A c \in DOMAIN d.contrib : c \in DOMAIN db.contrib /\ d.contrib[c].draft = db.contrib[c].draft
<1> DEFINE d == Goals!PigResult(k)
           h == call[k].hook
           b == call[k].body
           new == CHOOSE id \in Goals!Unused : TRUE
           Done(e, id) ==
               /\ GoalRows(e)
               /\ id \in Goals!Unused \/ h \notin {"create", "add"}
               /\ SameDrafts(db.pig, e.pig, id, b.draft) /\ SameDrafts(db.contrib, e.contrib, id, b.draft)
               /\ h # "create" => \A p \in DOMAIN e.pig : p \in DOMAIN db.pig /\ e.pig[p].draft = db.pig[p].draft
               /\ h # "add" => \A c \in DOMAIN e.contrib : c \in DOMAIN db.contrib /\ e.contrib[c].draft = db.contrib[c].draft
<1> SUFFICES \E id : Done(d, id)
  OBVIOUS
<1>1. /\ GoalTables(db) /\ \A q \in DOMAIN db.pig : Reached(db, q)
      /\ db = [pig |-> db.pig, contrib |-> db.contrib]
      /\ db.pig = [q \in DOMAIN db.pig |-> db.pig[q]]
      /\ db.contrib = [c \in DOMAIN db.contrib |-> db.contrib[c]]
  BY DEF GoalRows, GoalTables
<1>2. h \in {"create", "add"} => new \in Goals!Unused /\ new \notin DOMAIN db.pig /\ new \notin DOMAIN db.contrib
  BY DEF Goals!Unused
<1>3. h # "create" => b.pig \in DOMAIN db.pig
  BY DEF Goals!PigAccepted
<1>4. CASE h = "create"
  <2> DEFINE row == [target |-> b.target, notes |-> b.notes, completed |-> FALSE, draft |-> b.draft]
             pigs == Goals!With(db.pig, new, row)
  <2>1. d = [db EXCEPT !.pig = pigs]
    BY <1>4 DEF Goals!PigResult
  <2>2. d.pig = pigs /\ d.contrib = db.contrib /\ d = [pig |-> d.pig, contrib |-> d.contrib]
    BY <1>1, <2>1
  <2>3. /\ pigs = [p \in DOMAIN pigs |-> pigs[p]]
        /\ DOMAIN pigs = DOMAIN db.pig \cup {new}
        /\ pigs[new] = row /\ \A p \in DOMAIN db.pig : pigs[p] = db.pig[p]
    BY <1>2, <1>4 DEF Goals!With
  <2>4. IsPig(row) /\ row.target = b.target /\ row.draft = b.draft /\ ~row.completed
    BY DEF IsPig
  <2> HIDE DEF d, pigs, row, new
  <2>5. GoalTables(d)
    BY <1>1, <1>4, <2>2, <2>3, <2>4 DEF GoalTables
  <2>6. \A q : Goals!Total(d, q) = Goals!Total(db, q)
    BY <2>2, TotalDepends
  <2>7. Goals!Total(db, new) = 0
    <3>1. \A c \in DOMAIN db.contrib : db.contrib[c].pig # new
      BY <1>1, <1>2, <1>4 DEF GoalTables
    <3> QED  BY <3>1, NoneContributed
  <2>8. Reached(d, new)
    <3>1. d.pig[new] = row
      BY <2>2, <2>3
    <3>2. d.pig[new].target = b.target /\ ~d.pig[new].completed
      BY <2>4, <3>1
    <3>3. ~(0 >= b.target)
      BY <1>4 DEF Positive
    <3> QED  BY <2>6, <2>7, <3>2, <3>3 DEF Reached
  <2>9. \A q \in DOMAIN db.pig : Reached(d, q)
    BY <1>1, <2>2, <2>3, <2>6 DEF Reached
  <2>10. SameDrafts(db.pig, d.pig, new, b.draft) /\ SameDrafts(db.contrib, d.contrib, new, b.draft)
    BY <2>2, <2>3, <2>4 DEF SameDrafts
  <2>11. Done(d, new)
    BY <1>2, <1>4, <2>2, <2>3, <2>5, <2>8, <2>9, <2>10 DEF GoalRows
  <2> QED  BY <2>11
<1>5. CASE h = "patch"
  <2> DEFINE p == b.pig
             row == Goals!Patched(db.pig[p], b)
             e == [db EXCEPT !.pig = [db.pig EXCEPT ![p] = row]]
  <2>1. d = Goals!UpdateCompletion(e, p) /\ p \in DOMAIN db.pig
    BY <1>3, <1>5 DEF Goals!PigResult
  <2>2. /\ e.pig = [db.pig EXCEPT ![p] = row] /\ e.contrib = db.contrib /\ e = [pig |-> e.pig, contrib |-> e.contrib]
    BY <1>1
  <2>3. PICK notes : row = [db.pig[p] EXCEPT !.target = b.target, !.notes = notes]
    BY Zenon DEF Goals!Patched
  <2> HIDE DEF d, e, row
  <2>4. row = [target |-> b.target, notes |-> notes, completed |-> db.pig[p].completed, draft |-> db.pig[p].draft]
    <3> DEFINE old == db.pig[p]
    <3>1. old = [target |-> old.target, notes |-> old.notes, completed |-> old.completed, draft |-> old.draft]
      BY <1>1, <2>1 DEF GoalTables, IsPig
    <3>2. row = [old EXCEPT !.target = b.target, !.notes = notes]
      BY <2>3
    <3> HIDE DEF old
    <3>3. row = [target |-> b.target, notes |-> notes, completed |-> old.completed, draft |-> old.draft]
      BY <3>1, <3>2
    <3> QED  BY <3>3 DEF old
  <2>5. IsPig(row) /\ Positive(row.target) /\ row.draft = db.pig[p].draft
    BY <1>5, <2>4 DEF IsPig
  <2>6. /\ e.pig = [q \in DOMAIN e.pig |-> e.pig[q]] /\ DOMAIN e.pig = DOMAIN db.pig /\ e.pig[p] = row
        /\ \A q \in DOMAIN db.pig : q # p => e.pig[q] = db.pig[q]
    BY <1>1, <2>1, <2>2
  <2>7. GoalTables(e)
    BY <1>1, <2>2, <2>5, <2>6 DEF GoalTables
  <2>8. \A q : Goals!Total(e, q) = Goals!Total(db, q)
    BY <2>2, TotalDepends
  <2>9. \A q \in DOMAIN e.pig : q # p => Reached(e, q)
    BY <1>1, <2>6, <2>8 DEF Reached
  <2>10. GoalRows(d) /\ (\A q \in DOMAIN d.pig : q \in DOMAIN e.pig /\ d.pig[q].draft = e.pig[q].draft) /\ d.contrib = e.contrib
    BY <2>1, <2>6, <2>7, <2>9, CompletionUpdated
  <2>11. \A q \in DOMAIN d.pig : q \in DOMAIN db.pig /\ d.pig[q].draft = db.pig[q].draft
    BY <2>5, <2>6, <2>10
  <2>12. \E id : Done(d, id)
    BY <1>5, <2>2, <2>10, <2>11 DEF SameDrafts
  <2> QED  BY <2>12
<1>6. CASE h \in {"delete", "deleteHere"}
  <2> DEFINE p == b.pig
             pigs == Goals!Less(db.pig, {p})
             rest == Goals!Less(db.contrib, DOMAIN Goals!Contributions(db, p))
  <2>1. d = [db EXCEPT !.pig = pigs, !.contrib = rest]
    BY <1>6 DEF Goals!PigResult
  <2>2. d.pig = pigs /\ d.contrib = rest /\ d = [pig |-> d.pig, contrib |-> d.contrib]
    BY <1>1, <2>1
  <2>3. /\ pigs = [q \in DOMAIN pigs |-> pigs[q]]
        /\ DOMAIN pigs = DOMAIN db.pig \ {p} /\ \A q \in DOMAIN pigs : pigs[q] = db.pig[q]
    BY DEF Goals!Less, Goals!Restrict
  <2>4. /\ rest = [c \in DOMAIN rest |-> rest[c]]
        /\ \A c : c \in DOMAIN rest <=> (c \in DOMAIN db.contrib /\ db.contrib[c].pig # p)
        /\ \A c \in DOMAIN rest : rest[c] = db.contrib[c]
    BY DEF Goals!Less, Goals!Restrict, Goals!Contributions
  <2> HIDE DEF d, pigs, rest
  <2>5. GoalTables(d)
    BY <1>1, <2>2, <2>3, <2>4 DEF GoalTables
  <2>6. ASSUME NEW q, q # p PROVE Goals!Total(d, q) = Goals!Total(db, q)
    BY <2>2, <2>4, <2>6, TotalDepends
  <2>7. \A q \in DOMAIN d.pig : Reached(d, q)
    BY <1>1, <2>2, <2>3, <2>6 DEF Reached
  <2>8. \E id : Done(d, id)
    BY <1>6, <2>2, <2>3, <2>4, <2>5, <2>7 DEF GoalRows, SameDrafts
  <2> QED  BY <2>8
<1>7. CASE h = "add"
  <2> DEFINE p == b.pig
             row == [pig |-> b.pig, amount |-> b.amount, draft |-> b.draft]
             rows == Goals!With(db.contrib, new, row)
             e == [db EXCEPT !.contrib = rows]
  <2>1. d = Goals!UpdateCompletion(e, p) /\ p \in DOMAIN db.pig
    BY <1>3, <1>7 DEF Goals!PigResult
  <2>2. e.pig = db.pig /\ e.contrib = rows /\ e = [pig |-> e.pig, contrib |-> e.contrib]
    BY <1>1
  <2>3. /\ rows = [c \in DOMAIN rows |-> rows[c]]
        /\ DOMAIN rows = DOMAIN db.contrib \cup {new}
        /\ rows[new] = row /\ \A c \in DOMAIN db.contrib : rows[c] = db.contrib[c]
    BY <1>2, <1>7 DEF Goals!With
  <2>4. IsContribution(row) /\ row.pig = p /\ row.draft = b.draft
    BY DEF IsContribution
  <2> HIDE DEF d, e, rows, row, new
  <2>5. GoalTables(e)
    BY <1>1, <2>1, <2>2, <2>3, <2>4 DEF GoalTables
  <2>6. ASSUME NEW q, q # p PROVE Goals!Total(e, q) = Goals!Total(db, q)
    BY <1>2, <1>7, <2>2, <2>3, <2>4, <2>6, TotalDepends
  <2>7. \A q \in DOMAIN e.pig : q # p => Reached(e, q)
    BY <1>1, <2>2, <2>6 DEF Reached
  <2>8. GoalRows(d) /\ (\A q \in DOMAIN d.pig : q \in DOMAIN e.pig /\ d.pig[q].draft = e.pig[q].draft) /\ d.contrib = e.contrib
    BY <2>1, <2>2, <2>5, <2>7, CompletionUpdated
  <2>9. \A q \in DOMAIN d.pig : q \in DOMAIN db.pig /\ d.pig[q].draft = db.pig[q].draft
    BY <2>2, <2>8
  <2>10. SameDrafts(db.contrib, d.contrib, new, b.draft)
    BY <2>2, <2>3, <2>4, <2>8 DEF SameDrafts
  <2>11. Done(d, new)
    BY <1>2, <1>7, <2>8, <2>9, <2>10 DEF SameDrafts
  <2> QED  BY <2>11
<1>8. CASE h = "remove"
  <2> DEFINE p == b.pig
             rows == Goals!Less(db.contrib, {b.id})
             e == [db EXCEPT !.contrib = rows]
  <2>1. d = Goals!UpdateCompletion(e, p) /\ p \in DOMAIN db.pig /\ b.id \in DOMAIN Goals!Contributions(db, p)
    BY <1>3, <1>8 DEF Goals!PigResult, Goals!PigAccepted
  <2>2. e.pig = db.pig /\ e.contrib = rows /\ e = [pig |-> e.pig, contrib |-> e.contrib]
    BY <1>1
  <2>3. /\ rows = [c \in DOMAIN rows |-> rows[c]]
        /\ DOMAIN rows = DOMAIN db.contrib \ {b.id}
        /\ \A c \in DOMAIN rows : rows[c] = db.contrib[c]
    BY DEF Goals!Less, Goals!Restrict
  <2>4. db.contrib[b.id].pig = p
    BY <2>1 DEF Goals!Contributions, Goals!Restrict
  <2> HIDE DEF d, e, rows
  <2>5. GoalTables(e)
    BY <1>1, <2>1, <2>2, <2>3 DEF GoalTables
  <2>6. ASSUME NEW q, q # p PROVE Goals!Total(e, q) = Goals!Total(db, q)
    BY <2>2, <2>3, <2>4, <2>6, TotalDepends
  <2>7. \A q \in DOMAIN e.pig : q # p => Reached(e, q)
    BY <1>1, <2>2, <2>6 DEF Reached
  <2>8. GoalRows(d) /\ (\A q \in DOMAIN d.pig : q \in DOMAIN e.pig /\ d.pig[q].draft = e.pig[q].draft) /\ d.contrib = e.contrib
    BY <2>1, <2>2, <2>5, <2>7, CompletionUpdated
  <2>9. \A q \in DOMAIN d.pig : q \in DOMAIN db.pig /\ d.pig[q].draft = db.pig[q].draft
    BY <2>2, <2>8
  <2>10. \E id : Done(d, id)
    BY <1>8, <2>2, <2>3, <2>8, <2>9 DEF SameDrafts
  <2> QED  BY <2>10
<1> QED  BY <1>4, <1>5, <1>6, <1>7, <1>8 DEF GoalHooks

IsGoalUi(u) ==
    u = [view |-> u.view, subject |-> u.subject, adding |-> u.adding, goal |-> u.goal,
         contribution |-> u.contribution, remove |-> u.remove, deleting |-> u.deleting,
         target |-> u.target, touched |-> u.touched, draft |-> u.draft, opens |-> u.opens]

\* The form shows what is known of its goal, and can be sent.
GoalForm ==
    /\ IsGoalUi(ui) /\ (ui.goal.target # None => Positive(ui.goal.target))
    /\ seen = [list |-> seen.list, item |-> seen.item, contributions |-> seen.contributions]
    /\ seen.item = [p \in Goals!PigIds |-> seen.item[p]]
    /\ \A p \in Goals!PigIds : seen.item[p] # NoData => Positive(seen.item[p].target)
    /\ ui.view = "form" => due \subseteq {<<"item", ui.subject>>}
    /\ Goals!FormIsTheGoal

GoalCalls ==
    /\ Hooks(GoalsCase.calls, call, GoalHooks) /\ GoalRows(db)
    /\ \A k \in 1..GoalsCase.calls :
          Going(call[k]) /\ call[k].hook \in {"create", "patch"} => Positive(call[k].body.target)

\* Where a goal can be made, and a contribution.
Creating(u) == u.view = "form" \/ (u.view = "list" /\ u.adding)
Adding(u) == u.view = "detail" /\ u.adding

GoalDrafts ==
    ~lost =>
        /\ Drafts(GoalsCase.calls, call, "create", GoalsCase.newIds, db.pig, ui.draft, Creating(ui))
        /\ Drafts(GoalsCase.calls, call, "add", GoalsCase.newIds, db.contrib, ui.draft, Adding(ui))

GoalsInv == GoalForm /\ GoalCalls /\ GoalDrafts

\* The form goes on showing its goal when that is left as it is, or the user has typed.
LEMMA GoalFormKept ==
    ASSUME GoalForm, IsGoalUi(ui'), ui'.goal.target # None => Positive(ui'.goal.target),
           seen' = [list |-> seen'.list, item |-> seen.item, contributions |-> seen'.contributions],
           ui'.view = "form" =>
              /\ ui.view = "form" /\ due' \subseteq {<<"item", ui'.subject>>}
              /\ ui'.subject \in {None, ui.subject}
              /\ ui'.touched = TRUE \/ (ui'.touched = ui.touched /\ ui'.goal = ui.goal)
    PROVE  GoalForm'
<1>1. seen'.item = seen.item /\ Goals!PigIds' = Goals!PigIds
  BY DEF Goals!PigIds
<1>2. (Goals!FormIsTheGoal)'
  BY <1>1 DEF GoalForm, Goals!FormIsTheGoal, Goals!Loaded
<1> QED  BY <1>1, <1>2 DEF GoalForm

\* What the user does to the local state, but for the form, leaves all as it is,
LEMMA GoalsQuiet ==
    ASSUME GoalsInv, UNCHANGED <<db, seen, call, lost>>, IsGoalUi(ui'),
           ui'.view = ui.view, ui'.goal = ui.goal, ui'.touched = ui.touched, ui'.draft = ui.draft,
           ui.view = "form" => due' \subseteq due /\ ui'.subject = ui.subject,
           ui'.adding = ui.adding \/ ui'.adding = FALSE
    PROVE  GoalsInv'
<1>1. GoalForm'
  BY GoalFormKept DEF GoalsInv, GoalForm
<1>2. GoalCalls'
  BY DEF GoalsInv, GoalCalls, GoalRows, GoalTables, Reached, Goals!Total, Goals!Contributions
<1>3. (Creating(ui') => Creating(ui)) /\ (Adding(ui') => Adding(ui))
  BY DEF Creating, Adding
<1>4. GoalDrafts'
  BY <1>3, DraftsShut DEF GoalsInv, GoalDrafts
<1> QED  BY <1>1, <1>2, <1>4 DEF GoalsInv

\* what is done to the form is typing or a new draft,
LEMMA GoalsTyped ==
    ASSUME GoalsInv, UNCHANGED <<db, seen, due, call, lost>>, IsGoalUi(ui'),
           ui'.view = ui.view, ui'.subject = ui.subject,
           ui'.goal.target # None => Positive(ui'.goal.target),
           \/ ui'.draft = ui.draft /\ ui'.adding = ui.adding
           \/ ui'.draft = ui.draft + 1,
           ui.view = "form" => ui'.touched = TRUE
    PROVE  GoalsInv'
<1>1. GoalForm'
  BY GoalFormKept DEF GoalsInv, GoalForm
<1>2. GoalCalls'
  BY DEF GoalsInv, GoalCalls, GoalRows, GoalTables, Reached, Goals!Total, Goals!Contributions
<1>3. GoalDrafts'
  <2>1. CASE ui'.draft = ui.draft /\ ui'.adding = ui.adding
    <3>1. (Creating(ui') => Creating(ui)) /\ (Adding(ui') => Adding(ui))
      BY <2>1 DEF Creating, Adding
    <3> QED  BY <2>1, <3>1, DraftsShut DEF GoalsInv, GoalDrafts
  <2>2. CASE ui'.draft = ui.draft + 1
    BY <2>2, DraftsNext DEF GoalsInv, GoalDrafts
  <2> QED  BY <2>1, <2>2
<1> QED  BY <1>1, <1>2, <1>3 DEF GoalsInv

\* A call that is sent takes a place,
LEMMA GoalBegun ==
    ASSUME NEW h, NEW b, Goals!Mutate(h, b)
    PROVE  Begun(GoalsCase.calls, call, call', h, b)
<1> DEFINE n == GoalsCase.calls
<1>1. n \in Nat
  BY ClientAssumption
<1>2. Goals!Free # {} /\ Goals!Free \subseteq Nat /\ \A k \in Goals!Free : k \in 1..n /\ call[k] = Idle
  BY <1>1 DEF Goals!Mutate, Goals!Free, Goals!Slots
<1>3. /\ Goals!Min(Goals!Free) \in Goals!Free
      /\ \A j \in Goals!Free : Goals!Min(Goals!Free) <= j
  BY <1>2, LeastIsIn DEF Goals!Min
<1>4. \A j \in 1..n : call[j] = Idle => j \in Goals!Free
  BY DEF Goals!Free, Goals!Slots
<1> QED
  BY <1>2, <1>3, <1>4 DEF Goals!Mutate, Goals!Started, Goals!Slots, Goals!Running, Begun, Going

\* and a form sends only the draft it has open.
LEMMA GoalsSends ==
    ASSUME NoCalls, GoalsInv, NEW h \in GoalHooks, NEW b, Goals!Sends(h, b),
           h \in {"create", "patch"} => Positive(b.target),
           h = "create" => Creating(ui) /\ b.draft = ui.draft /\ ~Goals!Pending("create"),
           h = "add" => Adding(ui) /\ b.draft = ui.draft /\ ~Goals!Pending("add")
    PROVE  GoalsInv'
<1> DEFINE n == GoalsCase.calls
<1>1. n \in Nat /\ Calling(n, call) /\ Hooks(n, call, GoalHooks)
  BY ClientAssumption DEF GoalsInv, GoalCalls, Hooks
<1>2. Begun(n, call, call', h, b) /\ UNCHANGED <<page, db, seen, due, ui, lost>>
  BY GoalBegun DEF Goals!Sends
<1>3. \A g : ~Goals!Pending(g) => \A k \in 1..n : ~(Mine(call[k], g) /\ call[k].heard)
  BY DEF Goals!Pending, Goals!Slots, Goals!Running, Mine, Going
<1>4. ~lost => /\ Drafts(n, call, "create", GoalsCase.newIds, db.pig, ui.draft, Creating(ui))
               /\ Drafts(n, call, "add", GoalsCase.newIds, db.contrib, ui.draft, Adding(ui))
  BY DEF GoalsInv, GoalDrafts
<1>5. \A k \in 1..n : Going(call[k]) /\ call[k].hook \in {"create", "patch"} => Positive(call[k].body.target)
  BY DEF GoalsInv, GoalCalls
<1>6. GoalForm'
  BY <1>2, GoalFormKept DEF GoalsInv, GoalForm
<1> SUFFICES /\ Hooks(n, call', GoalHooks)
             /\ \A k \in 1..n : Going(call'[k]) /\ call'[k].hook \in {"create", "patch"} => Positive(call'[k].body.target)
             /\ ~lost => /\ Drafts(n, call', "create", GoalsCase.newIds, db.pig, ui.draft, Creating(ui))
                         /\ Drafts(n, call', "add", GoalsCase.newIds, db.contrib, ui.draft, Adding(ui))
  BY <1>2, <1>6 DEF GoalsInv, GoalCalls, GoalDrafts, GoalRows, GoalTables, Reached, Goals!Total,
      Goals!Contributions
<1> HIDE DEF n
<1>7. Hooks(n, call', GoalHooks)
  BY <1>1, <1>2, HooksStay
<1>8. \A k \in 1..n : Going(call'[k]) /\ call'[k].hook \in {"create", "patch"} => Positive(call'[k].body.target)
  <2>1. Sent(n, call, call', h, b)
    BY <1>1, <1>2, BegunRows
  <2> QED  BY <1>5, <2>1 DEF Sent, Carries
<1>9. ~lost => Drafts(n, call', "create", GoalsCase.newIds, db.pig, ui.draft, Creating(ui))
  BY <1>1, <1>2, <1>3, <1>4, DraftsSent
<1>10. ~lost => Drafts(n, call', "add", GoalsCase.newIds, db.contrib, ui.draft, Adding(ui))
  BY <1>1, <1>2, <1>3, <1>4, DraftsSent
<1> QED  BY <1>7, <1>8, <1>9, <1>10

\* What is open or asked for in the drawer and the dialogs,
LEMMA GoalsDialogs ==
    ASSUME GoalsInv,
           \/ Goals!CloseDrawer \/ Goals!CancelRemove \/ Goals!OpenDelete \/ Goals!CancelDelete
           \/ Goals!CancelDeleteHere \/ Goals!CancelGoal
           \/ \E p \in Goals!Shown : Goals!OpenDrawer(p) \/ Goals!AskDeleteHere(p)
           \/ \E c \in Goals!ContributionsShown : Goals!AskRemove(c)
           \/ \E t, a : Goals!TypeContribution(t, a)
    PROVE  GoalsInv'
<1>1. ui = [view |-> ui.view, subject |-> ui.subject, adding |-> ui.adding, goal |-> ui.goal,
            contribution |-> ui.contribution, remove |-> ui.remove, deleting |-> ui.deleting,
            target |-> ui.target, touched |-> ui.touched, draft |-> ui.draft, opens |-> ui.opens]
  BY DEF GoalsInv, GoalForm, IsGoalUi
<1>2. UNCHANGED <<db, seen, call, lost>>
  BY DEF Goals!CloseDrawer, Goals!CancelRemove, Goals!OpenDelete, Goals!CancelDelete, Goals!CancelDeleteHere,
         Goals!CancelGoal, Goals!OpenDrawer, Goals!AskDeleteHere, Goals!AskRemove, Goals!TypeContribution,
         Goals!Opening, Goals!Locally
<1>3. CASE Goals!CloseDrawer \/ \E p \in Goals!Shown : Goals!OpenDrawer(p)
  <2>2. PICK p, opens :
          ui' = [view |-> ui.view, subject |-> p, adding |-> ui.adding, goal |-> ui.goal,
                 contribution |-> ui.contribution, remove |-> ui.remove, deleting |-> ui.deleting,
                 target |-> ui.target, touched |-> ui.touched, draft |-> ui.draft, opens |-> opens]
    <3>1. CASE Goals!CloseDrawer
      <4>1. ui' = [ui EXCEPT !.subject = None]
        BY <3>1 DEF Goals!CloseDrawer
      <4> QED  BY <1>1, <4>1
    <3>2. CASE \E p \in Goals!Shown : Goals!OpenDrawer(p)
      BY <1>1, <3>2 DEF Goals!OpenDrawer
    <3> QED  BY <1>3, <3>1, <3>2
  <2>3. ui.view = "list"
    BY <1>3 DEF Goals!CloseDrawer, Goals!OpenDrawer, Goals!OnList
  <2>4. IsGoalUi(ui')
    BY <2>2 DEF IsGoalUi
  <2> QED  BY <1>2, <2>2, <2>3, <2>4, GoalsQuiet
<1>4. CASE \E new : ui' = new /\ UNCHANGED due /\
              \E remove, deleting, target, opens, adding, contribution :
                 /\ new = [view |-> ui.view, subject |-> ui.subject, adding |-> adding, goal |-> ui.goal,
                           contribution |-> contribution, remove |-> remove, deleting |-> deleting,
                           target |-> target, touched |-> ui.touched, draft |-> ui.draft, opens |-> opens]
                 /\ adding \in {ui.adding, FALSE}
  <2>1. PICK remove, deleting, target, opens, adding, contribution :
           /\ ui' = [view |-> ui.view, subject |-> ui.subject, adding |-> adding, goal |-> ui.goal,
                     contribution |-> contribution, remove |-> remove, deleting |-> deleting,
                     target |-> target, touched |-> ui.touched, draft |-> ui.draft, opens |-> opens]
           /\ adding \in {ui.adding, FALSE}
    BY <1>4
  <2>2. IsGoalUi(ui')
    BY <2>1 DEF IsGoalUi
  <2> QED  BY <1>2, <1>4, <2>1, <2>2, GoalsQuiet
<1>5. CASE \E v : Goals!Locally([ui EXCEPT !.remove = v]) \/ Goals!Opening([ui EXCEPT !.remove = v])
  BY <1>1, <1>4, <1>5 DEF Goals!Opening, Goals!Locally
<1>6. CASE \E v : Goals!Locally([ui EXCEPT !.deleting = v]) \/ Goals!Opening([ui EXCEPT !.deleting = v])
  BY <1>1, <1>4, <1>6 DEF Goals!Opening, Goals!Locally
<1>7. CASE \E v : Goals!Locally([ui EXCEPT !.target = v]) \/ Goals!Opening([ui EXCEPT !.target = v])
  BY <1>1, <1>4, <1>7 DEF Goals!Opening, Goals!Locally
<1>8. CASE Goals!Locally([ui EXCEPT !.adding = FALSE]) \/ \E v : Goals!Opening([ui EXCEPT !.contribution = v])
  BY <1>1, <1>4, <1>8 DEF Goals!Opening, Goals!Locally
<1>9. Goals!CancelRemove \/ (\E c \in Goals!ContributionsShown : Goals!AskRemove(c)) =>
         \E v : Goals!Locally([ui EXCEPT !.remove = v]) \/ Goals!Opening([ui EXCEPT !.remove = v])
  BY Zenon DEF Goals!CancelRemove, Goals!AskRemove
<1>10. Goals!OpenDelete \/ Goals!CancelDelete =>
         \E v : Goals!Locally([ui EXCEPT !.deleting = v]) \/ Goals!Opening([ui EXCEPT !.deleting = v])
  BY Zenon DEF Goals!OpenDelete, Goals!CancelDelete
<1>11. Goals!CancelDeleteHere \/ (\E p \in Goals!Shown : Goals!AskDeleteHere(p)) =>
         \E v : Goals!Locally([ui EXCEPT !.target = v]) \/ Goals!Opening([ui EXCEPT !.target = v])
  BY Zenon DEF Goals!CancelDeleteHere, Goals!AskDeleteHere
<1>12. Goals!CancelGoal \/ (\E t, a : Goals!TypeContribution(t, a)) =>
         Goals!Locally([ui EXCEPT !.adding = FALSE]) \/ \E v : Goals!Opening([ui EXCEPT !.contribution = v])
  BY Zenon DEF Goals!CancelGoal, Goals!TypeContribution
<1> QED  BY <1>3, <1>5, <1>6, <1>7, <1>8, <1>9, <1>10, <1>11, <1>12

\* the forms,
LEMMA GoalsForms ==
    ASSUME GoalsInv,
           \/ Goals!OpenGoal \/ Goals!OpenContribution
           \/ \E a \in GoalsCase.typed, n \in {None, "new"} : Goals!TypeGoal([target |-> a, notes |-> n])
    PROVE  GoalsInv'
<1>1. ui = [view |-> ui.view, subject |-> ui.subject, adding |-> ui.adding, goal |-> ui.goal,
            contribution |-> ui.contribution, remove |-> ui.remove, deleting |-> ui.deleting,
            target |-> ui.target, touched |-> ui.touched, draft |-> ui.draft, opens |-> ui.opens]
      /\ (ui.goal.target # None => Positive(ui.goal.target))
  BY DEF GoalsInv, GoalForm, IsGoalUi
<1>2. UNCHANGED <<db, seen, due, call, lost>>
  BY DEF Goals!OpenGoal, Goals!OpenContribution, Goals!TypeGoal, Goals!Opening, Goals!Locally
<1>3. CASE Goals!OpenGoal
  <2>1. /\ ui' = [view |-> ui.view, subject |-> ui.subject, adding |-> TRUE, goal |-> Goals!BlankGoal,
                  contribution |-> ui.contribution, remove |-> ui.remove, deleting |-> ui.deleting,
                  target |-> ui.target, touched |-> ui.touched, draft |-> ui.draft + 1,
                      opens |-> ui.opens + 1]
        /\ ui.view = "list"
    BY <1>1, <1>3 DEF Goals!OpenGoal, Goals!Opening, Goals!Locally, Goals!OnList
  <2>2. ui'.goal.target = None
    BY <2>1 DEF Goals!BlankGoal
  <2>3. IsGoalUi(ui')
    BY <2>1 DEF IsGoalUi
  <2> QED  BY <1>2, <2>1, <2>2, <2>3, GoalsTyped
<1>4. CASE Goals!OpenContribution
  <2>1. /\ ui' = [view |-> ui.view, subject |-> ui.subject, adding |-> TRUE, goal |-> ui.goal,
                  contribution |-> Goals!BlankContribution, remove |-> ui.remove, deleting |-> ui.deleting,
                  target |-> ui.target, touched |-> ui.touched, draft |-> ui.draft + 1,
                      opens |-> ui.opens + 1]
        /\ ui.view = "detail"
    BY <1>1, <1>4 DEF Goals!OpenContribution, Goals!Opening, Goals!Locally
  <2>2. IsGoalUi(ui')
    BY <2>1 DEF IsGoalUi
  <2> QED  BY <1>1, <1>2, <2>1, <2>2, GoalsTyped
<1>5. CASE \E a \in GoalsCase.typed, n \in {None, "new"} : Goals!TypeGoal([target |-> a, notes |-> n])
  <2>1. PICK a \in GoalsCase.typed, n \in {None, "new"} : Goals!TypeGoal([target |-> a, notes |-> n])
    BY <1>5
  <2>2. ui' = [view |-> ui.view, subject |-> ui.subject, adding |-> ui.adding,
               goal |-> [target |-> a, notes |-> n],
               contribution |-> ui.contribution, remove |-> ui.remove, deleting |-> ui.deleting,
               target |-> ui.target, touched |-> TRUE, draft |-> ui.draft, opens |-> ui.opens + 1]
    BY <1>1, <2>1 DEF Goals!TypeGoal, Goals!Opening, Goals!Locally
  <2>3. IsGoalUi(ui') /\ ui'.goal.target = a /\ Positive(a)
    BY <2>2, StartAssumption DEF IsGoalUi, Positive
  <2> QED  BY <1>2, <2>2, <2>3, GoalsTyped
<1> QED  BY <1>3, <1>4, <1>5

\* and what is sent from them.
LEMMA GoalsSubmits ==
    ASSUME NoCalls, GoalsInv,
           \/ Goals!ConfirmRemove \/ Goals!ConfirmDelete \/ Goals!ConfirmDeleteHere
           \/ Goals!AddContribution \/ Goals!SubmitGoal
    PROVE  GoalsInv'
<1>1. CASE \E h \in {"remove", "delete", "deleteHere"} : \E b : Goals!Sends(h, b)
  <2>1. PICK h, b : h \in {"remove", "delete", "deleteHere"} /\ Goals!Sends(h, b)
    BY <1>1
  <2> QED  BY <2>1, GoalsSends DEF GoalHooks
<1>2. Goals!ConfirmRemove \/ Goals!ConfirmDelete \/ Goals!ConfirmDeleteHere =>
         \E h \in {"remove", "delete", "deleteHere"} : \E b : Goals!Sends(h, b)
  BY DEF Goals!ConfirmRemove, Goals!ConfirmDelete, Goals!ConfirmDeleteHere
<1>3. CASE Goals!AddContribution
  <2> DEFINE b == [pig |-> ui.subject, txn |-> ui.contribution.txn, amount |-> ui.contribution.amount,
                   draft |-> ui.draft]
  <2>1. Goals!Sends("add", b) /\ b.draft = ui.draft /\ Adding(ui) /\ ~Goals!Pending("add") /\ "add" \in GoalHooks
    BY <1>3 DEF Goals!AddContribution, Adding, GoalHooks
  <2> HIDE DEF b
  <2> QED  BY <2>1, GoalsSends
<1>4. CASE Goals!SubmitGoal
  <2>1. Creating(ui) /\ ~Goals!Pending("create") /\ Positive(ui.goal.target)
    BY <1>4 DEF Goals!SubmitGoal, Creating, GoalsInv, GoalForm
  <2>2. CASE Goals!Sends("patch", [pig |-> ui.subject, target |-> ui.goal.target, notes |-> ui.goal.notes])
    <3> DEFINE b == [pig |-> ui.subject, target |-> ui.goal.target, notes |-> ui.goal.notes]
    <3>1. Goals!Sends("patch", b) /\ b.target = ui.goal.target /\ "patch" \in GoalHooks
      BY <2>2 DEF GoalHooks
    <3> HIDE DEF b
    <3> QED  BY <2>1, <3>1, GoalsSends
  <2>3. CASE Goals!Sends("create", [target |-> ui.goal.target, notes |-> ui.goal.notes, draft |-> ui.draft])
    <3> DEFINE b == [target |-> ui.goal.target, notes |-> ui.goal.notes, draft |-> ui.draft]
    <3>1. Goals!Sends("create", b) /\ b.target = ui.goal.target /\ b.draft = ui.draft /\ "create" \in GoalHooks
      BY <2>3 DEF GoalHooks
    <3> HIDE DEF b
    <3> QED  BY <2>1, <3>1, GoalsSends
  <2> QED  BY <1>4, <2>2, <2>3 DEF Goals!SubmitGoal
<1> QED  BY <1>1, <1>2, <1>3, <1>4

\* Nothing is heard any more of a contribution whose form is closed.
LEMMA GoalsCancelled == ASSUME NoCalls, GoalsInv, Goals!CancelContribution PROVE GoalsInv'
<1> DEFINE n == GoalsCase.calls
<1>1. n \in Nat /\ Calling(n, call) /\ Hooks(n, call, GoalHooks)
  BY ClientAssumption DEF GoalsInv, GoalCalls, Hooks
<1>2. UNCHANGED <<page, db, seen, due, lost>> /\ ui.view = "detail"
  BY DEF Goals!CancelContribution
<1>3. DOMAIN call' = 1..n /\ \A j \in 1..n : call'[j] = call[j] \/ (Going(call[j]) /\ call'[j] = [call[j] EXCEPT !.heard = FALSE])
  BY DEF Goals!CancelContribution, Goals!Unheard, Goals!Slots, Goals!Running, Going
<1>4. Calling(n, call')
  BY <1>1, <1>3, UnheardContinues
<1>5. \A j \in 1..n : Going(call'[j]) =>
         Going(call[j]) /\ Carries(call[j], call'[j]) /\ call'[j].state = call[j].state
  <2> SUFFICES ASSUME NEW j \in 1..n, Going(call'[j])
               PROVE  Going(call[j]) /\ Carries(call[j], call'[j]) /\ call'[j].state = call[j].state
    OBVIOUS
  <2>1. CASE call'[j] = call[j]
    BY <2>1 DEF Carries
  <2>2. CASE Going(call[j]) /\ call'[j] = [call[j] EXCEPT !.heard = FALSE]
    <3>1. IsCall(call[j])
      BY <1>1, <2>2 DEF Calling
    <3> QED  BY <2>2, <3>1 DEF IsCall, Carries
  <2> QED  BY <1>3, <2>1, <2>2
<1>6. ui' = [view |-> ui.view, subject |-> ui.subject, adding |-> FALSE, goal |-> ui.goal,
            contribution |-> ui.contribution, remove |-> ui.remove, deleting |-> ui.deleting,
            target |-> ui.target, touched |-> ui.touched, draft |-> ui.draft, opens |-> ui.opens]
  BY DEF GoalsInv, GoalForm, IsGoalUi, Goals!CancelContribution
<1>7. GoalForm'
  <2>1. IsGoalUi(ui')
    BY <1>6 DEF IsGoalUi
  <2> QED  BY <1>2, <1>6, <2>1, GoalFormKept DEF GoalsInv, GoalForm
<1>8. GoalCalls'
  <2>1. GoalRows(db)' /\ \A k \in 1..n : Going(call[k]) /\ call[k].hook \in {"create", "patch"} => Positive(call[k].body.target)
    BY <1>2 DEF GoalsInv, GoalCalls, GoalRows, GoalTables, Reached, Goals!Total, Goals!Contributions
  <2>2. \A k \in 1..n : Going(call'[k]) /\ call'[k].hook \in {"create", "patch"} => Positive(call'[k].body.target)
    BY <1>5, <2>1 DEF Carries
  <2>3. Hooks(n, call', GoalHooks)
    BY <1>1, <1>4, <1>5 DEF Hooks, Carries
  <2> QED  BY <2>1, <2>2, <2>3 DEF GoalCalls
<1>9. GoalDrafts'
  <2>1. ~Creating(ui') /\ ~Adding(ui') /\ ui'.draft = ui.draft
    BY <1>2, <1>6 DEF Creating, Adding
  <2>2. ~lost => /\ Drafts(n, call, "create", GoalsCase.newIds, db.pig, ui.draft, Creating(ui))
                 /\ Drafts(n, call, "add", GoalsCase.newIds, db.contrib, ui.draft, Adding(ui))
    BY DEF GoalsInv, GoalDrafts
  <2> SUFFICES ~lost => /\ Drafts(n, call', "create", GoalsCase.newIds, db.pig, ui.draft, Creating(ui'))
                        /\ Drafts(n, call', "add", GoalsCase.newIds, db.contrib, ui.draft, Adding(ui'))
    BY <1>2, <2>1 DEF GoalDrafts
  <2> HIDE DEF n
  <2>3. \A j \in 1..n : \A h : Mine(call'[j], h) => /\ Mine(call[j], h) /\ call'[j].state = call[j].state
                                                /\ call'[j].body.draft = call[j].body.draft
    BY <1>5 DEF Mine, Carries
  <2>4. ~lost => Drafts(n, call', "create", GoalsCase.newIds, db.pig, ui.draft, Creating(ui'))
    BY <2>1, <2>2, <2>3, DraftsUnheard
  <2>5. ~lost => Drafts(n, call', "add", GoalsCase.newIds, db.contrib, ui.draft, Adding(ui'))
    BY <2>1, <2>2, <2>3, DraftsUnheard
  <2> QED  BY <2>4, <2>5
<1> QED  BY <1>7, <1>8, <1>9 DEF GoalsInv

\* The server does what it was asked for,
LEMMA GoalsServed ==
    ASSUME NoCalls, GoalsInv, NEW k \in 1..GoalsCase.calls, Goals!ServePig(k)
    PROVE  GoalsInv'
<1> DEFINE n == GoalsCase.calls
           ids == GoalsCase.newIds
<1>1. n \in Nat /\ k \in 1..n /\ Calling(n, call) /\ Hooks(n, call, GoalHooks)
  BY ClientAssumption DEF GoalsInv, GoalCalls, Hooks
<1>2. /\ Going(call[k]) /\ call[k].state = "sent" /\ Restated(call, call', k, "done")
      /\ UNCHANGED <<page, seen, due, ui, lost>> /\ db' = Goals!PigResult(k)
  BY DEF Goals!ServePig, Goals!Serve, Goals!Running, Going, Restated
<1>3. /\ GoalRows(db) /\ call[k].hook \in GoalHooks
      /\ \A j \in 1..n : Going(call[j]) /\ call[j].hook \in {"create", "patch"} => Positive(call[j].body.target)
  BY <1>1, <1>2 DEF GoalsInv, GoalCalls, Hooks
<1>4. ~lost => /\ Drafts(n, call, "create", ids, db.pig, ui.draft, Creating(ui))
               /\ Drafts(n, call, "add", ids, db.contrib, ui.draft, Adding(ui))
  BY DEF GoalsInv, GoalDrafts
<1>5. Goals!PigAccepted(k) /\ (call[k].hook \in {"create", "add"} => Goals!Unused # {})
  BY DEF Goals!ServePig
<1>6. PICK id :
        /\ GoalRows(db')
        /\ SameDrafts(db.pig, db'.pig, id, call[k].body.draft)
        /\ SameDrafts(db.contrib, db'.contrib, id, call[k].body.draft)
        /\ call[k].hook # "create" => \A p \in DOMAIN db'.pig : p \in DOMAIN db.pig /\ db'.pig[p].draft = db.pig[p].draft
        /\ call[k].hook # "add" => \A c \in DOMAIN db'.contrib : c \in DOMAIN db.contrib /\ db'.contrib[c].draft = db.contrib[c].draft
  <2>1. call[k].hook \in {"create", "patch"} => Positive(call[k].body.target)
    BY <1>1, <1>2, <1>3
  <2> QED  BY <1>2, <1>3, <1>5, <2>1, GoalsWritten
<1>7. GoalForm'
  BY <1>2, GoalFormKept DEF GoalsInv, GoalForm
<1> SUFFICES /\ Hooks(n, call', GoalHooks)
             /\ \A j \in 1..n : Going(call'[j]) /\ call'[j].hook \in {"create", "patch"} => Positive(call'[j].body.target)
             /\ ~lost => /\ Drafts(n, call', "create", ids, db'.pig, ui.draft, Creating(ui))
                         /\ Drafts(n, call', "add", ids, db'.contrib, ui.draft, Adding(ui))
  <2>1. GoalRows(db)'
    BY <1>6 DEF GoalRows, GoalTables, Reached, Goals!Total, Goals!Contributions
  <2> QED  BY <1>2, <1>7, <2>1 DEF GoalsInv, GoalCalls, GoalDrafts
<1> HIDE DEF n, ids
<1>8. Hooks(n, call', GoalHooks)
  BY <1>1, <1>2, HooksStay
<1>9. /\ \A j \in 1..n : j # k => call'[j] = call[j]
      /\ Carries(call[k], call'[k])
  BY <1>1, <1>2, RestatedRows
<1>10. \A j \in 1..n : Going(call'[j]) /\ call'[j].hook \in {"create", "patch"} => Positive(call'[j].body.target)
  BY <1>1, <1>2, <1>3, <1>9 DEF Carries
<1>11. ~lost => Drafts(n, call', "create", ids, db'.pig, ui.draft, Creating(ui))
  <2>1. Made(ids, db.pig, db'.pig, call[k], "create")
    BY <1>2, <1>6 DEF SameDrafts, Mine, Made
  <2>2. Going(call[k]) /\ Restated(call, call', k, "done") /\ "done" # "sent"
    BY <1>2
  <2>3. ASSUME Drafts(n, call, "create", ids, db.pig, ui.draft, Creating(ui))
        PROVE  Drafts(n, call', "create", ids, db'.pig, ui.draft, Creating(ui))
    BY <1>1, <2>1, <2>2, <2>3, DraftsServed
  <2> QED  BY <1>4, <2>3
<1>12. ~lost => Drafts(n, call', "add", ids, db'.contrib, ui.draft, Adding(ui))
  <2>1. Made(ids, db.contrib, db'.contrib, call[k], "add")
    BY <1>2, <1>6 DEF SameDrafts, Mine, Made
  <2>2. Going(call[k]) /\ Restated(call, call', k, "done") /\ "done" # "sent"
    BY <1>2
  <2>3. ASSUME Drafts(n, call, "add", ids, db.contrib, ui.draft, Adding(ui))
        PROVE  Drafts(n, call', "add", ids, db'.contrib, ui.draft, Adding(ui))
    BY <1>1, <2>1, <2>2, <2>3, DraftsServed
  <2> QED  BY <1>4, <2>3
<1> QED  BY <1>8, <1>10, <1>11, <1>12

\* the page hears of it,
LEMMA GoalsHeard ==
    ASSUME NEW k, IsGoalUi(ui), call[k].hook \in GoalHooks
    PROVE  LET u == Goals!HeardPig(k)
           IN  /\ IsGoalUi(u) /\ u.goal = ui.goal /\ u.touched = ui.touched /\ u.draft = ui.draft
               /\ u.view = "form" => ui.view = "form" /\ u.subject \in {None, ui.subject}
               /\ Creating(u) => Creating(ui) /\ ~(call[k].heard /\ call[k].hook = "create")
               /\ Adding(u) => Adding(ui) /\ ~(call[k].heard /\ call[k].hook = "add")
<1> DEFINE u == Goals!HeardPig(k)
           Good(v) ==
               /\ IsGoalUi(v) /\ v.goal = ui.goal /\ v.touched = ui.touched /\ v.draft = ui.draft
               /\ v.view = "form" => ui.view = "form" /\ v.subject \in {None, ui.subject}
               /\ Creating(v) => Creating(ui) /\ ~(call[k].heard /\ call[k].hook = "create")
               /\ Adding(v) => Adding(ui) /\ ~(call[k].heard /\ call[k].hook = "add")
<1> SUFFICES Good(u)
  OBVIOUS
<1>1. ui = [view |-> ui.view, subject |-> ui.subject, adding |-> ui.adding, goal |-> ui.goal,
            contribution |-> ui.contribution, remove |-> ui.remove, deleting |-> ui.deleting,
            target |-> ui.target, touched |-> ui.touched, draft |-> ui.draft, opens |-> ui.opens]
  BY DEF IsGoalUi
<1>2. \/ ~call[k].heard /\ u = ui
      \/ call[k].hook \notin {"create", "add"} /\ u = [ui EXCEPT !.target = None]
      \/ call[k].hook \notin {"create", "add"} /\ u = [ui EXCEPT !.remove = None]
      \/ call[k].hook \notin {"create", "add"} /\ u = [ui EXCEPT !.deleting = FALSE, !.subject = None]
      \/ call[k].hook = "add" /\ u = [ui EXCEPT !.adding = FALSE]
      \/ ui.view # "form" /\ u = [ui EXCEPT !.adding = FALSE]
      \/ u = Goals!Left
  BY DEF Goals!HeardPig, GoalHooks
<1> HIDE DEF u
<1>3. CASE ~call[k].heard /\ u = ui
  BY <1>3
<1>4. CASE call[k].hook \notin {"create", "add"} /\ u = [ui EXCEPT !.target = None]
  BY <1>1, <1>4 DEF IsGoalUi, Creating, Adding
<1>5. CASE call[k].hook \notin {"create", "add"} /\ u = [ui EXCEPT !.remove = None]
  BY <1>1, <1>5 DEF IsGoalUi, Creating, Adding
<1>6. CASE call[k].hook \notin {"create", "add"} /\ u = [ui EXCEPT !.deleting = FALSE, !.subject = None]
  <2>1. u = [view |-> ui.view, subject |-> None, adding |-> ui.adding, goal |-> ui.goal,
            contribution |-> ui.contribution, remove |-> ui.remove, deleting |-> FALSE,
            target |-> ui.target, touched |-> ui.touched, draft |-> ui.draft, opens |-> ui.opens]
    BY <1>1, <1>6
  <2> QED  BY <1>6, <2>1 DEF IsGoalUi, Creating, Adding
<1>7. CASE (call[k].hook = "add" \/ ui.view # "form") /\ u = [ui EXCEPT !.adding = FALSE]
  BY <1>1, <1>7 DEF IsGoalUi, Creating, Adding
<1>8. CASE u = Goals!Left
  <2>1. u = [view |-> "left", subject |-> None, adding |-> FALSE, goal |-> ui.goal,
            contribution |-> ui.contribution, remove |-> None, deleting |-> FALSE,
            target |-> None, touched |-> ui.touched, draft |-> ui.draft, opens |-> ui.opens]
    BY <1>1, <1>8 DEF Goals!Left
  <2> QED  BY <2>1 DEF IsGoalUi, Creating, Adding
<1> QED  BY <1>2, <1>3, <1>4, <1>5, <1>6, <1>7, <1>8 DEF u

\* or the call fails,
LEMMA GoalsEnded ==
    ASSUME NoCalls, GoalsInv, NEW k \in 1..GoalsCase.calls, Goals!AnswerPig(k) \/ Goals!Fails(k, ui)
    PROVE  GoalsInv'
<1> DEFINE n == GoalsCase.calls
           ids == GoalsCase.newIds
<1>1. n \in Nat /\ k \in 1..n /\ Calling(n, call) /\ Hooks(n, call, GoalHooks)
  BY ClientAssumption DEF GoalsInv, GoalCalls, Hooks
<1>2. Going(call[k]) /\ Dropped(n, call, call', k) /\ UNCHANGED <<db, seen>>
  BY DEF Goals!AnswerPig, Goals!Fails, Goals!Running, Going, Goals!Without, Goals!Slots, Dropped
<1>3. GoalForm /\ IsGoalUi(ui) /\ call[k].hook \in GoalHooks
  BY <1>1, <1>2 DEF GoalsInv, GoalForm, Hooks
<1>4. \/ /\ call[k].state = "done" /\ lost' = lost /\ ui' = Goals!HeardPig(k)
         /\ due' \subseteq Goals!InUse'
      \/ /\ lost' = (lost \/ call[k].state = "done") /\ ui' = ui /\ due' = due
         /\ call[k].state \in {"sent", "done"}
  BY DEF Goals!AnswerPig, Goals!Fails
<1>5. /\ IsGoalUi(ui') /\ ui'.goal = ui.goal /\ ui'.touched = ui.touched /\ ui'.draft = ui.draft
      /\ ui'.view = "form" => ui.view = "form" /\ ui'.subject \in {None, ui.subject}
      /\ (Creating(ui') => Creating(ui)) /\ (Adding(ui') => Adding(ui))
  BY <1>3, <1>4, GoalsHeard
<1>6. ui'.view = "form" => due' \subseteq {<<"item", ui'.subject>>}
  <2>1. ui'.view = "form" => Goals!InUse' \subseteq {<<"item", ui'.subject>>}
    BY DEF Goals!InUse
  <2> QED  BY <1>3, <1>4, <2>1 DEF GoalForm
<1>7. GoalForm'
  BY <1>2, <1>3, <1>5, <1>6, GoalFormKept DEF GoalForm
<1>8. ~lost' =>
        /\ ~lost
        /\ Creating(ui') /\ Mine(call[k], "create") => call[k].state = "sent" \/ ~call[k].heard
        /\ Adding(ui') /\ Mine(call[k], "add") => call[k].state = "sent" \/ ~call[k].heard
  <2>1. CASE call[k].state = "done" /\ lost' = lost /\ ui' = Goals!HeardPig(k)
    BY <1>3, <2>1, GoalsHeard DEF Mine
  <2>2. CASE lost' = (lost \/ call[k].state = "done") /\ call[k].state \in {"sent", "done"}
    <3>1. ~lost' => ~lost /\ call[k].state # "done"
      BY <2>2, Zenon
    <3> QED  BY <2>2, <3>1
  <2> QED  BY <1>4, <2>1, <2>2
<1>9. ~lost => /\ Drafts(n, call, "create", ids, db.pig, ui.draft, Creating(ui))
               /\ Drafts(n, call, "add", ids, db.contrib, ui.draft, Adding(ui))
  BY DEF GoalsInv, GoalDrafts
<1>10. /\ GoalRows(db)'
       /\ \A j \in 1..n : Going(call[j]) /\ call[j].hook \in {"create", "patch"} => Positive(call[j].body.target)
  BY <1>2 DEF GoalsInv, GoalCalls, GoalRows, GoalTables, Reached, Goals!Total, Goals!Contributions
<1> SUFFICES /\ Hooks(n, call', GoalHooks)
             /\ \A j \in 1..n : Going(call'[j]) /\ call'[j].hook \in {"create", "patch"} => Positive(call'[j].body.target)
             /\ ~lost' => /\ Drafts(n, call', "create", ids, db.pig, ui.draft, Creating(ui'))
                          /\ Drafts(n, call', "add", ids, db.contrib, ui.draft, Adding(ui'))
  BY <1>2, <1>5, <1>7, <1>10 DEF GoalsInv, GoalCalls, GoalDrafts
<1> HIDE DEF n, ids
<1>11. Hooks(n, call', GoalHooks)
  BY <1>1, <1>2, HooksStay
<1>12. \A j \in 1..n : Going(call'[j]) /\ call'[j].hook \in {"create", "patch"} => Positive(call'[j].body.target)
  BY <1>1, <1>2, <1>10, DroppedRows
<1>13. ~lost' => Drafts(n, call', "create", ids, db.pig, ui.draft, Creating(ui'))
  BY <1>1, <1>2, <1>5, <1>8, <1>9, DraftsGone
<1>14. ~lost' => Drafts(n, call', "add", ids, db.contrib, ui.draft, Adding(ui'))
  BY <1>1, <1>2, <1>5, <1>8, <1>9, DraftsGone
<1> QED  BY <1>11, <1>12, <1>13, <1>14

\* and what is due is fetched.
LEMMA GoalsFetched ==
    ASSUME GoalsInv,
           Goals!FetchList \/ \E p \in Goals!PigIds : Goals!FetchItem(p) \/ Goals!FetchContributions(p)
    PROVE  GoalsInv'
<1>1. UNCHANGED <<page, db, call, lost>> /\ due' \subseteq due
  BY DEF Goals!FetchList, Goals!FetchItem, Goals!FetchContributions
<1>2. GoalCalls'
  BY <1>1 DEF GoalsInv, GoalCalls, GoalRows, GoalTables, Reached, Goals!Total, Goals!Contributions
<1>3. seen = [list |-> seen.list, item |-> seen.item, contributions |-> seen.contributions]
  BY DEF GoalsInv, GoalForm
<1>4. CASE Goals!FetchList \/ \E p \in Goals!PigIds : Goals!FetchContributions(p)
  <2>1. ui' = ui
    BY <1>4 DEF Goals!FetchList, Goals!FetchContributions
  <2>2. seen' = [list |-> seen'.list, item |-> seen.item, contributions |-> seen'.contributions]
    BY <1>3, <1>4 DEF Goals!FetchList, Goals!FetchContributions
  <2>3. GoalForm'
    BY <1>1, <2>1, <2>2, GoalFormKept DEF GoalsInv, GoalForm
  <2>4. GoalDrafts'
    BY <1>1, <2>1 DEF GoalsInv, GoalDrafts
  <2> QED  BY <1>2, <2>3, <2>4 DEF GoalsInv
<1>5. CASE \E p \in Goals!PigIds : Goals!FetchItem(p)
  <2>1. PICK p \in Goals!PigIds : Goals!FetchItem(p)
    BY <1>5
  <2>2. PICK item :
          /\ item = IF p \in DOMAIN db.pig THEN Goals!Answer(db, p) ELSE seen.item[p]
          /\ seen' = [seen EXCEPT !.item[p] = item]
          /\ ui' = IF ui.view = "form" /\ item # seen.item[p]
                   THEN [ui EXCEPT !.goal = Goals!FormOf(item), !.touched = FALSE] ELSE ui
    BY <2>1 DEF Goals!FetchItem
  <2>3. ui.view = "form" => p = ui.subject
    <3>1. <<"item", p>> \in due
      BY <2>1 DEF Goals!FetchItem
    <3> QED  BY <3>1 DEF GoalsInv, GoalForm
  <2>4. /\ seen' = [list |-> seen.list, item |-> [seen.item EXCEPT ![p] = item], contributions |-> seen.contributions]
        /\ seen'.item = [q \in Goals!PigIds |-> IF q = p THEN item ELSE seen.item[q]]
    BY <1>3, <2>2 DEF GoalsInv, GoalForm
  <2>5. item # NoData => Positive(item.target)
    <3>1. CASE p \in DOMAIN db.pig
      <4>1. item.target = db.pig[p].target
        BY <2>2, <3>1 DEF Goals!Answer
      <4> QED  BY <3>1, <4>1 DEF GoalsInv, GoalCalls, GoalRows, GoalTables
    <3>2. CASE p \notin DOMAIN db.pig
      BY <2>2, <3>2 DEF GoalsInv, GoalForm
    <3> QED  BY <3>1, <3>2
  <2>6. Goals!PigIds' = Goals!PigIds
    BY DEF Goals!PigIds
  <2>7. CASE ui.view = "form" /\ item # seen.item[p]
    <3>1. ui' = [view |-> ui.view, subject |-> ui.subject, adding |-> ui.adding, goal |-> Goals!FormOf(item),
                 contribution |-> ui.contribution, remove |-> ui.remove, deleting |-> ui.deleting,
                 target |-> ui.target, touched |-> FALSE, draft |-> ui.draft, opens |-> ui.opens]
      BY <2>2, <2>7 DEF GoalsInv, GoalForm, IsGoalUi
    <3>2. IsGoalUi(ui') /\ Creating(ui') = Creating(ui) /\ Adding(ui') = Adding(ui) /\ ui'.draft = ui.draft
      BY <3>1 DEF IsGoalUi, Creating, Adding
    <3>3. item = Goals!Answer(db, p) /\ p \in DOMAIN db.pig
      BY <2>2, <2>7
    <3>4. Positive(Goals!Answer(db, p).target)
      BY <3>3 DEF Goals!Answer, GoalsInv, GoalCalls, GoalRows, GoalTables
    <3>5. ui'.goal = Goals!FormOf(item) /\ ui'.goal.target = item.target
      BY <3>1 DEF Goals!FormOf
    <3>6. (Goals!FormIsTheGoal)'
      <4>1. seen'.item[ui'.subject] = item
        BY <2>3, <2>4, <2>7, <3>1
      <4> QED  BY <3>5, <4>1 DEF Goals!FormIsTheGoal, Goals!FormOf
    <3>7. \A q \in Goals!PigIds : seen'.item[q] # NoData => Positive(seen'.item[q].target)
      BY <2>4, <2>5 DEF GoalsInv, GoalForm
    <3>8. ui'.view = "form" => due' \subseteq {<<"item", ui'.subject>>}
      BY <1>1, <3>1 DEF GoalsInv, GoalForm
    <3>9. seen' = [list |-> seen'.list, item |-> seen'.item, contributions |-> seen'.contributions]
      BY <2>4
    <3>10. seen'.item = [q \in Goals!PigIds |-> seen'.item[q]]
      BY <2>4
    <3>11. GoalForm'
      BY <2>6, <3>2, <3>3, <3>4, <3>5, <3>6, <3>7, <3>8, <3>9, <3>10 DEF GoalForm
    <3>12. GoalDrafts'
      BY <1>1, <3>2 DEF GoalsInv, GoalDrafts
    <3> QED  BY <1>2, <3>11, <3>12 DEF GoalsInv
  <2>8. CASE ~(ui.view = "form" /\ item # seen.item[p])
    <3>1. ui' = ui
      BY <2>2, <2>8
    <3>2. ui.view = "form" => seen'.item = seen.item
      BY <2>4, <2>8 DEF GoalsInv, GoalForm
    <3>3. (Goals!FormIsTheGoal)'
      BY <3>1, <3>2 DEF GoalsInv, GoalForm, Goals!FormIsTheGoal, Goals!Loaded
    <3>4. \A q \in Goals!PigIds : seen'.item[q] # NoData => Positive(seen'.item[q].target)
      BY <2>4, <2>5 DEF GoalsInv, GoalForm
    <3>5. seen' = [list |-> seen'.list, item |-> seen'.item, contributions |-> seen'.contributions]
      BY <2>4
    <3>6. seen'.item = [q \in Goals!PigIds |-> seen'.item[q]]
      BY <2>4
    <3>7. GoalForm'
      BY <1>1, <2>6, <3>1, <3>3, <3>4, <3>5, <3>6 DEF GoalsInv, GoalForm
    <3>8. GoalDrafts'
      BY <1>1, <3>1 DEF GoalsInv, GoalDrafts
    <3> QED  BY <1>2, <3>7, <3>8 DEF GoalsInv
  <2> QED  BY <2>7, <2>8
<1> QED  BY <1>4, <1>5

\* The invariant holds when a page is opened,
LEMMA GoalsInit == ASSUME Goals!PigInit PROVE GoalsInv
<1> DEFINE pigs == GoalsCase.startPigs
           contribs == GoalsCase.startContribs
           ids == GoalsCase.newIds
           n == GoalsCase.calls
<1>1. /\ db = [pig |-> pigs, contrib |-> contribs]
      /\ seen = [list |-> NoData, item |-> [p \in Goals!PigIds |-> NoData],
                 contributions |-> [p \in Goals!PigIds |-> NoData]]
      /\ call = [k \in 1..n |-> Idle] /\ due = Goals!InUse
  BY DEF Goals!PigInit, Goals!Slots
<1>2. PICK view, shown :
         ui = [view |-> view, subject |-> shown, adding |-> FALSE, goal |-> Goals!BlankGoal,
               contribution |-> Goals!BlankContribution, remove |-> None, deleting |-> FALSE,
               target |-> None, touched |-> FALSE, draft |-> 0, opens |-> 0]
  BY DEF Goals!PigInit
<1>3. /\ pigs = [p \in DOMAIN pigs \ ids |->
                      [target |-> pigs[p].target, notes |-> pigs[p].notes,
                       completed |-> pigs[p].completed, draft |-> pigs[p].draft]]
      /\ contribs = [c \in DOMAIN contribs \ ids |->
                      [pig |-> contribs[c].pig, amount |-> contribs[c].amount, draft |-> contribs[c].draft]]
      /\ \A c \in DOMAIN contribs : contribs[c].pig \in DOMAIN pigs
      /\ \A p \in DOMAIN pigs :
            /\ pigs[p].target \in Nat \ {0}
            /\ pigs[p].completed <=> Goals!Total([contrib |-> contribs], p) >= pigs[p].target
  BY StartAssumption
<1>4. GoalTables(db)
  <2>1. /\ pigs = [p \in DOMAIN pigs |-> pigs[p]] /\ contribs = [c \in DOMAIN contribs |-> contribs[c]]
        /\ \A p \in DOMAIN pigs : pigs[p] = [target |-> pigs[p].target, notes |-> pigs[p].notes,
                       completed |-> pigs[p].completed, draft |-> pigs[p].draft]
        /\ \A c \in DOMAIN contribs : contribs[c] = [pig |-> contribs[c].pig, amount |-> contribs[c].amount, draft |-> contribs[c].draft]
    BY <1>3
  <2>2. db.pig = pigs /\ db.contrib = contribs
    BY <1>1
  <2> HIDE DEF pigs, contribs
  <2> QED  BY <1>1, <1>3, <2>1, <2>2 DEF GoalTables, IsPig, IsContribution, Positive
<1>5. \A p \in DOMAIN db.pig : Reached(db, p)
  <2>1. \A p : Goals!Total(db, p) = Goals!Total([contrib |-> contribs], p)
    BY <1>1, TotalDepends
  <2> QED  BY <1>1, <1>3, <2>1 DEF Reached
<1>6. DOMAIN db.pig \cap ids = {} /\ DOMAIN db.contrib \cap ids = {}
  <2>1. DOMAIN pigs = DOMAIN pigs \ ids /\ DOMAIN contribs = DOMAIN contribs \ ids
    BY <1>3
  <2> QED  BY <1>1, <2>1
<1>7. Hooks(n, call, GoalHooks) /\ \A k \in 1..n : ~Going(call[k])
  BY <1>1 DEF Hooks, Calling, Going
<1>8. GoalCalls
  BY <1>4, <1>5, <1>7 DEF GoalCalls, GoalRows
<1>9. GoalDrafts
  <2>1. ui.draft = 0
    BY <1>2
  <2>2. \A k \in 1..n : \A h : ~Mine(call[k], h)
    BY <1>7 DEF Mine
  <2> HIDE DEF n, ids
  <2>3. \A open : Drafts(n, call, "create", ids, db.pig, 0, open) /\ Drafts(n, call, "add", ids, db.contrib, 0, open)
    BY <1>6, <2>2 DEF Drafts
  <2> QED  BY <2>1, <2>3 DEF GoalDrafts, n, ids
<1>10. GoalForm
  <2>1. IsGoalUi(ui) /\ ui.goal.target = None
    BY <1>2 DEF IsGoalUi, Goals!BlankGoal
  <2>2. ui.view = "form" => due \subseteq {<<"item", ui.subject>>}
    BY <1>1 DEF Goals!InUse
  <2>3. \A p \in Goals!PigIds : seen.item[p] = NoData
    BY <1>1
  <2>4. ui.subject # None => ui.subject \in Goals!PigIds
    <3>1. ui.subject \in DOMAIN GoalsCase.startPigs \cup {None}
      BY DEF Goals!PigInit
    <3> QED  BY <3>1 DEF Goals!PigIds
  <2>5. Goals!FormIsTheGoal
    BY <2>3, <2>4 DEF Goals!FormIsTheGoal, Goals!Loaded
  <2> QED  BY <1>1, <2>1, <2>2, <2>3, <2>5 DEF GoalForm
<1> QED  BY <1>8, <1>9, <1>10 DEF GoalsInv

\* and each step keeps it.
LEMMA GoalsStep == ASSUME NoCalls, GoalsInv, Goals!PigNext PROVE GoalsInv'
<1>1. CASE Goals!GoalUser
  BY <1>1, GoalsDialogs, GoalsForms, GoalsSubmits, GoalsCancelled DEF Goals!GoalUser
<1>2. CASE \E k \in Goals!Slots : Goals!ServePig(k) \/ Goals!AnswerPig(k) \/ Goals!Fails(k, ui)
  BY <1>2, GoalsServed, GoalsEnded DEF Goals!Slots
<1>3. CASE Goals!FetchList \/ \E p \in Goals!PigIds : Goals!FetchItem(p) \/ Goals!FetchContributions(p)
  BY <1>3, GoalsFetched
<1> QED  BY <1>1, <1>2, <1>3 DEF Goals!PigNext

-----------------------------------------------------------------------------
(***************************************************************************)
(* Accounts.                                                               *)
(***************************************************************************)
WalletHooks == {"create", "edit", "toggle", "delete", "addMethod", "deleteMethod"}

IsAccount(r) == r = [name |-> r.name, type |-> r.type, active |-> r.active, draft |-> r.draft]

IsWalletUi(u) ==
    u = [creating |-> u.creating, form |-> u.form, edit |-> u.edit, target |-> u.target,
         expanded |-> u.expanded, panel |-> u.panel, drawer |-> u.drawer, draft |-> u.draft,
         opens |-> u.opens]

\* Accounts have all their fields, and None is none of them.
WalletRows(d) ==
    /\ d = [account |-> d.account, method |-> d.method, gone |-> d.gone]
    /\ d.account = [a \in DOMAIN d.account |-> d.account[a]]
    /\ d.method = [m \in DOMAIN d.method |-> d.method[m]]
    /\ \A a \in DOMAIN d.account : a # None /\ IsAccount(d.account[a])

WalletShapes ==
    /\ IsWalletUi(ui) /\ WalletRows(db)
    /\ seen = [list |-> seen.list, methods |-> seen.methods]
    /\ seen.list # NoData => None \notin DOMAIN seen.list

\* A call for a panel that is no longer shown is not heard.
OfPanel(c) ==
    /\ c.body = [account |-> c.body.account, here |-> c.body.here, draft |-> c.body.draft]
    /\ c.body.here \in BOOLEAN /\ (~c.body.here => ~c.heard)

WalletCalls ==
    /\ Hooks(AccountsCase.calls, call, WalletHooks)
    /\ \A k \in 1..AccountsCase.calls : Mine(call[k], "addMethod") => OfPanel(call[k])

\* What is typed into the dialog stays when that is closed; what is typed into a panel
\* does not when the panel goes.
WalletDrafts ==
    ~lost =>
        /\ Drafts(AccountsCase.calls, call, "create", AccountsCase.newIds, db.account, ui.draft, TRUE)
        /\ Drafts(AccountsCase.calls, call, "addMethod", AccountsCase.newIds, db.method, ui.draft, ui.expanded # None)

WalletsInv == WalletShapes /\ WalletCalls /\ WalletDrafts

\* The server writes rows with all their fields, and makes one for each call that asks for it.
LEMMA WalletsWritten ==
    ASSUME WalletRows(db), NEW k, Going(call[k]), call[k].hook \in WalletHooks, call[k].state = "sent",
           Wallets!AccountAccepted(k), call[k].hook \in {"create", "addMethod"} => Wallets!Unused # {},
           None \notin AccountsCase.newIds
    PROVE  LET d == Wallets!AccountResult(k)
           IN  /\ WalletRows(d)
               /\ Made(AccountsCase.newIds, db.account, d.account, call[k], "create")
               /\ Made(AccountsCase.newIds, db.method, d.method, call[k], "addMethod")
<1> DEFINE d == Wallets!AccountResult(k)
           h == call[k].hook
           b == call[k].body
           ids == AccountsCase.newIds
           new == CHOOSE id \in Wallets!Unused : TRUE
           Done(e) == /\ WalletRows(e)
                      /\ Made(ids, db.account, e.account, call[k], "create")
                      /\ Made(ids, db.method, e.method, call[k], "addMethod")
<1> SUFFICES Done(d)
  OBVIOUS
<1>1. /\ db = [account |-> db.account, method |-> db.method, gone |-> db.gone]
      /\ db.account = [a \in DOMAIN db.account |-> db.account[a]]
      /\ db.method = [m \in DOMAIN db.method |-> db.method[m]]
      /\ \A a \in DOMAIN db.account : a # None /\ IsAccount(db.account[a])
  BY DEF WalletRows
<1>2. h \in {"create", "addMethod"} => new \in ids /\ new \notin DOMAIN db.account /\ new \notin DOMAIN db.method
  BY DEF Wallets!Unused
<1>3. \A rows, g : Made(ids, rows, rows, call[k], g)
  BY DEF Made
<1>4. CASE h = "create"
  <2> DEFINE row == [name |-> b.name, type |-> b.type, active |-> TRUE, draft |-> b.draft]
             rows == Wallets!With(db.account, new, row)
  <2>1. d = [db EXCEPT !.account = rows]
    BY <1>4 DEF Wallets!AccountResult
  <2>2. d.account = rows /\ d.method = db.method /\ d = [account |-> d.account, method |-> d.method, gone |-> d.gone]
    BY <1>1, <2>1
  <2>3. /\ rows = [a \in DOMAIN rows |-> rows[a]] /\ DOMAIN rows = DOMAIN db.account \cup {new}
        /\ rows[new] = row /\ \A a \in DOMAIN db.account : rows[a] = db.account[a]
    BY <1>2, <1>4 DEF Wallets!With
  <2>4. IsAccount(row) /\ row.draft = b.draft
    BY DEF IsAccount
  <2> HIDE DEF d, rows, row, new
  <2>5. WalletRows(d)
    BY <1>1, <1>2, <1>4, <2>2, <2>3, <2>4 DEF WalletRows
  <2>6. Made(ids, db.account, d.account, call[k], "create")
    BY <1>4, <2>2, <2>3, <2>4 DEF Made, Mine
  <2> QED  BY <1>3, <2>2, <2>5, <2>6
<1>5. CASE h \in {"edit", "toggle"}
  <2>1. PICK a : a = b.id /\ a \in DOMAIN db.account
    BY <1>5 DEF Wallets!AccountAccepted
  <2>2. PICK old : /\ old = db.account[a]
                   /\ old = [name |-> old.name, type |-> old.type, active |-> old.active, draft |-> old.draft]
    BY <1>1, <2>1 DEF IsAccount
  <2>3. PICK name, active : d = [db EXCEPT !.account = [db.account EXCEPT ![a] =
                                    [name |-> name, type |-> old.type, active |-> active, draft |-> old.draft]]]
    <3>1. CASE h = "edit"
      <4>1. PICK mid : mid = [db EXCEPT !.account[a].name = b.name] /\ d = [mid EXCEPT !.account[a].active = b.active]
        BY <2>1, <3>1 DEF Wallets!AccountResult
      <4>2. PICK one : one = [name |-> b.name, type |-> old.type, active |-> old.active, draft |-> old.draft]
        OBVIOUS
      <4>3. one = [old EXCEPT !.name = b.name]
        BY <2>2, <4>2
      <4>4. mid = [account |-> [db.account EXCEPT ![a] = one], method |-> db.method, gone |-> db.gone]
        BY <1>1, <2>1, <2>2, <4>1, <4>3
      <4>5. mid.account = [db.account EXCEPT ![a] = one] /\ mid.account[a] = one /\ mid.method = db.method
        BY <1>1, <2>1, <4>4
      <4>6. PICK two : two = [name |-> b.name, type |-> old.type, active |-> b.active, draft |-> old.draft]
        OBVIOUS
      <4>7. two = [one EXCEPT !.active = b.active]
        BY <4>2, <4>6
      <4>8. d = [account |-> [mid.account EXCEPT ![a] = two], method |-> db.method, gone |-> db.gone]
        BY <4>1, <4>4, <4>5, <4>7
      <4>9. [mid.account EXCEPT ![a] = two] = [db.account EXCEPT ![a] = two]
        BY <1>1, <2>1, <4>5
      <4>10. d = [db EXCEPT !.account = [db.account EXCEPT ![a] = two]]
        BY <1>1, <4>8, <4>9
      <4> QED  BY <4>6, <4>10
    <3>2. CASE h = "toggle"
      <4>1. d = [db EXCEPT !.account[a].active = b.active]
        BY <2>1, <3>2 DEF Wallets!AccountResult
      <4>2. PICK one : one = [name |-> old.name, type |-> old.type, active |-> b.active, draft |-> old.draft]
        OBVIOUS
      <4>3. one = [old EXCEPT !.active = b.active]
        BY <2>2, <4>2
      <4>4. d = [db EXCEPT !.account = [db.account EXCEPT ![a] = one]]
        BY <1>1, <2>1, <2>2, <4>1, <4>3
      <4> QED  BY <4>2, <4>4
    <3> QED  BY <1>5, <3>1, <3>2
  <2> DEFINE row == [name |-> name, type |-> old.type, active |-> active, draft |-> old.draft]
  <2>4. IsAccount(row) /\ row.draft = old.draft
    BY DEF IsAccount
  <2> HIDE DEF d, row
  <2>5. d.account = [db.account EXCEPT ![a] = row] /\ d.method = db.method /\ d = [account |-> d.account, method |-> d.method, gone |-> d.gone]
    BY <1>1, <2>3 DEF row
  <2>6. /\ d.account = [x \in DOMAIN d.account |-> d.account[x]] /\ DOMAIN d.account = DOMAIN db.account
        /\ d.account[a] = row /\ \A x \in DOMAIN db.account : x # a => d.account[x] = db.account[x]
    BY <1>1, <2>1, <2>5
  <2>7. WalletRows(d)
    BY <1>1, <2>4, <2>5, <2>6 DEF WalletRows
  <2>8. Made(ids, db.account, d.account, call[k], "create")
    BY <2>2, <2>4, <2>6 DEF Made
  <2> QED  BY <1>3, <2>5, <2>7, <2>8
<1>6. CASE h = "delete"
  <2> DEFINE rows == Wallets!Less(db.account, b.id)
  <2>1. d.account = rows /\ d.method = db.method /\ d = [account |-> d.account, method |-> d.method, gone |-> d.gone]
    BY <1>1, <1>6 DEF Wallets!AccountResult
  <2>2. /\ rows = [a \in DOMAIN rows |-> rows[a]]
        /\ \A a \in DOMAIN rows : a \in DOMAIN db.account /\ rows[a] = db.account[a]
    BY DEF Wallets!Less, Wallets!Restrict
  <2> HIDE DEF d, rows
  <2>3. WalletRows(d)
    BY <1>1, <2>1, <2>2 DEF WalletRows
  <2>4. Made(ids, db.account, d.account, call[k], "create")
    BY <2>1, <2>2 DEF Made
  <2> QED  BY <1>3, <2>1, <2>3, <2>4
<1>7. CASE h = "addMethod"
  <2> DEFINE row == [account |-> b.account, draft |-> b.draft]
             rows == Wallets!With(db.method, new, row)
  <2>1. d = [db EXCEPT !.method = rows]
    BY <1>7 DEF Wallets!AccountResult
  <2>2. d.method = rows /\ d.account = db.account /\ d = [account |-> d.account, method |-> d.method, gone |-> d.gone]
    BY <1>1, <2>1
  <2>3. /\ rows = [a \in DOMAIN rows |-> rows[a]] /\ DOMAIN rows = DOMAIN db.method \cup {new}
        /\ rows[new] = row /\ \A a \in DOMAIN db.method : rows[a] = db.method[a]
    BY <1>2, <1>7 DEF Wallets!With
  <2>4. row.draft = b.draft
    OBVIOUS
  <2> HIDE DEF d, rows, row, new
  <2>5. WalletRows(d)
    BY <1>1, <2>2, <2>3 DEF WalletRows
  <2>6. Made(ids, db.method, d.method, call[k], "addMethod")
    BY <1>7, <2>2, <2>3, <2>4 DEF Made, Mine
  <2> QED  BY <1>3, <2>2, <2>5, <2>6
<1>8. CASE h = "deleteMethod"
  <2> DEFINE rows == Wallets!Less(db.method, b.id)
  <2>1. d.method = rows /\ d.account = db.account /\ d = [account |-> d.account, method |-> d.method, gone |-> d.gone]
    BY <1>1, <1>8 DEF Wallets!AccountResult
  <2>2. /\ rows = [a \in DOMAIN rows |-> rows[a]]
        /\ \A a \in DOMAIN rows : a \in DOMAIN db.method /\ rows[a] = db.method[a]
    BY DEF Wallets!Less, Wallets!Restrict
  <2> HIDE DEF d, rows
  <2>3. WalletRows(d)
    BY <1>1, <2>1, <2>2 DEF WalletRows
  <2>4. Made(ids, db.method, d.method, call[k], "addMethod")
    BY <2>1, <2>2 DEF Made
  <2> QED  BY <1>3, <2>1, <2>3, <2>4
<1> QED  BY <1>4, <1>5, <1>6, <1>7, <1>8 DEF WalletHooks

\* What the user does to the local state leaves all as it is,
LEMMA WalletsQuiet ==
    ASSUME WalletsInv, UNCHANGED <<db, call, lost>>, IsWalletUi(ui'),
           ui'.draft = ui.draft, ui'.expanded = ui.expanded, seen' = seen
    PROVE  WalletsInv'
<1>1. WalletShapes'
  BY DEF WalletsInv, WalletShapes, WalletRows
<1>2. WalletCalls' /\ WalletDrafts'
  BY DEF WalletsInv, WalletCalls, WalletDrafts
<1> QED  BY <1>1, <1>2 DEF WalletsInv

\* a call that is sent takes a place,
LEMMA WalletBegun ==
    ASSUME NEW h, NEW b, Wallets!Mutate(h, b)
    PROVE  Begun(AccountsCase.calls, call, call', h, b)
<1> DEFINE n == AccountsCase.calls
<1>1. n \in Nat
  BY ClientAssumption
<1>2. Wallets!Free # {} /\ Wallets!Free \subseteq Nat /\ \A k \in Wallets!Free : k \in 1..n /\ call[k] = Idle
  BY <1>1 DEF Wallets!Mutate, Wallets!Free, Wallets!Slots
<1>3. /\ Wallets!Min(Wallets!Free) \in Wallets!Free
      /\ \A j \in Wallets!Free : Wallets!Min(Wallets!Free) <= j
  BY <1>2, LeastIsIn DEF Wallets!Min
<1>4. \A j \in 1..n : call[j] = Idle => j \in Wallets!Free
  BY DEF Wallets!Free, Wallets!Slots
<1> QED
  BY <1>2, <1>3, <1>4 DEF Wallets!Mutate, Wallets!Started, Wallets!Slots, Wallets!Running, Begun, Going

\* and a form sends only the draft it has open.
LEMMA WalletsSends ==
    ASSUME NoCalls, WalletsInv, NEW h \in WalletHooks, NEW b, Wallets!Sends(h, b),
           h = "create" => b.draft = ui.draft /\ ~Wallets!Pending("create"),
           h = "addMethod" => /\ b = [account |-> ui.expanded, here |-> TRUE, draft |-> ui.draft]
                              /\ ui.expanded # None /\ ~Wallets!Pending("addMethod")
    PROVE  WalletsInv'
<1> DEFINE n == AccountsCase.calls
           ids == AccountsCase.newIds
<1>1. n \in Nat /\ Calling(n, call) /\ Hooks(n, call, WalletHooks)
  BY ClientAssumption DEF WalletsInv, WalletCalls, Hooks
<1>2. Begun(n, call, call', h, b) /\ UNCHANGED <<page, db, seen, due, ui, lost>>
  BY WalletBegun DEF Wallets!Sends
<1>3. \A g : ~Wallets!Pending(g) => \A k \in 1..n : ~(Mine(call[k], g) /\ call[k].heard)
  BY DEF Wallets!Pending, Wallets!Slots, Wallets!Running, Mine, Going
<1>4. ~lost => /\ Drafts(n, call, "create", ids, db.account, ui.draft, TRUE)
               /\ Drafts(n, call, "addMethod", ids, db.method, ui.draft, ui.expanded # None)
  BY DEF WalletsInv, WalletDrafts
<1>5. \A k \in 1..n : Mine(call[k], "addMethod") => OfPanel(call[k])
  BY DEF WalletsInv, WalletCalls
<1>6. WalletShapes'
  BY <1>2 DEF WalletsInv, WalletShapes, WalletRows
<1> SUFFICES /\ Hooks(n, call', WalletHooks)
             /\ \A k \in 1..n : Mine(call'[k], "addMethod") => OfPanel(call'[k])
             /\ ~lost => /\ Drafts(n, call', "create", ids, db.account, ui.draft, TRUE)
                         /\ Drafts(n, call', "addMethod", ids, db.method, ui.draft, ui.expanded # None)
  BY <1>2, <1>6 DEF WalletsInv, WalletCalls, WalletDrafts
<1> HIDE DEF n, ids
<1>7. Hooks(n, call', WalletHooks)
  BY <1>1, <1>2, HooksStay
<1>8. \A k \in 1..n : Mine(call'[k], "addMethod") => OfPanel(call'[k])
  <2>1. PICK new \in 1..n :
                 /\ ~Going(call[new]) /\ Going(call'[new])
                 /\ call'[new] = [hook |-> h, body |-> b, state |-> "sent", awaits |-> {}, heard |-> TRUE]
                 /\ \A j \in 1..n : j # new =>
                       /\ Going(call'[j]) <=> Going(call[j])
                       /\ ~Mine(call[j], h) => call'[j] = call[j]
                       /\ Mine(call[j], h) => Carries(call[j], call'[j]) /\ call'[j].state = call[j].state /\ ~call'[j].heard
    BY <1>1, <1>2, BegunRows
  <2>2. Mine(call'[new], "addMethod") => OfPanel(call'[new])
    <3>1. call'[new].hook = h /\ call'[new].body = b
      BY <2>1
    <3>2. CASE h = "addMethod"
      <4>1. b = [account |-> b.account, here |-> b.here, draft |-> b.draft] /\ b.here = TRUE
        BY <3>2
      <4> QED  BY <3>1, <4>1 DEF OfPanel
    <3> QED  BY <3>1, <3>2 DEF Mine
  <2>3. ASSUME NEW j \in 1..n, j # new, Mine(call'[j], "addMethod") PROVE OfPanel(call'[j])
    <3>1. CASE ~Mine(call[j], h)
      BY <1>5, <2>1, <2>3, <3>1
    <3>2. CASE Mine(call[j], h)
      <4>1. Mine(call[j], "addMethod") /\ call'[j].body = call[j].body /\ ~call'[j].heard
        BY <2>1, <2>3, <3>2 DEF Mine, Carries
      <4> QED  BY <1>5, <4>1 DEF OfPanel
    <3> QED  BY <3>1, <3>2
  <2> QED  BY <2>2, <2>3
<1>9. ~lost => Drafts(n, call', "create", ids, db.account, ui.draft, TRUE)
  BY <1>1, <1>2, <1>3, <1>4, DraftsSent
<1>10. ~lost => Drafts(n, call', "addMethod", ids, db.method, ui.draft, ui.expanded # None)
  <2>1. h = "addMethod" => b.draft = ui.draft
    OBVIOUS
  <2> QED  BY <1>1, <1>2, <1>3, <1>4, <2>1, DraftsSent
<1> QED  BY <1>7, <1>8, <1>9, <1>10

\* When a panel goes, nothing is heard any more of its calls.
LEMMA PanelGone ==
    ASSUME NoCalls, WalletCalls, call' = Wallets!Unmounted
    PROVE  /\ WalletCalls'
           /\ \A j \in 1..AccountsCase.calls, h \in {"create", "addMethod"} : Mine(call'[j], h) =>
                 /\ Mine(call[j], h) /\ call'[j].state = call[j].state
                 /\ call'[j].body.draft = call[j].body.draft
           /\ \A j \in 1..AccountsCase.calls : Mine(call[j], "create") => call'[j] = call[j]
<1> DEFINE n == AccountsCase.calls
<1>1. /\ Calling(n, call) /\ \A k \in 1..n : Going(call[k]) => call[k].hook \in WalletHooks
      /\ \A k \in 1..n : Mine(call[k], "addMethod") => OfPanel(call[k])
  BY DEF WalletCalls, Hooks
<1>2. /\ DOMAIN call' = 1..n
      /\ \A j \in 1..n :
            call'[j] = IF Going(call[j]) /\ call[j].hook \in {"addMethod", "deleteMethod"}
                       THEN [call[j] EXCEPT !.heard = FALSE, !.body.here = FALSE] ELSE call[j]
  BY DEF Wallets!Unmounted, Wallets!Slots, Wallets!Running, Wallets!PanelHooks, Going
<1> HIDE DEF n
<1>3. ASSUME NEW j \in 1..n, Going(call[j]), call[j].hook \in {"addMethod", "deleteMethod"}
      PROVE  call'[j] = [hook |-> call[j].hook, body |-> [call[j].body EXCEPT !.here = FALSE],
                         state |-> call[j].state, awaits |-> call[j].awaits, heard |-> FALSE]
  <2>1. PICK c : c = call[j]
    OBVIOUS
  <2>2. c = [hook |-> c.hook, body |-> c.body, state |-> c.state, awaits |-> c.awaits, heard |-> c.heard]
    BY <1>1, <1>3, <2>1 DEF Calling, IsCall
  <2>3. PICK quiet : quiet = [c EXCEPT !.heard = FALSE]
    OBVIOUS
  <2>4. quiet = [hook |-> c.hook, body |-> c.body, state |-> c.state, awaits |-> c.awaits, heard |-> FALSE]
    BY <2>2, <2>3
  <2>5. call'[j] = [c EXCEPT !.heard = FALSE, !.body.here = FALSE]
    BY <1>2, <1>3, <2>1
  <2>6. call'[j] = [quiet EXCEPT !.body.here = FALSE]
    BY <2>3, <2>5
  <2>7. call'[j] = [hook |-> c.hook, body |-> [c.body EXCEPT !.here = FALSE], state |-> c.state,
                    awaits |-> c.awaits, heard |-> FALSE]
    BY <2>4, <2>6
  <2> QED  BY <2>1, <2>7
<1>4. \A j \in 1..n : Going(call'[j]) => Going(call[j]) /\ IsCall(call'[j]) /\ call'[j].hook = call[j].hook /\ call'[j].state = call[j].state
  BY <1>1, <1>2, <1>3 DEF IsCall, Calling
<1>5. \A j \in 1..n : Mine(call'[j], "addMethod") =>
         /\ Mine(call[j], "addMethod") /\ OfPanel(call'[j])
         /\ call'[j].body.draft = call[j].body.draft
  <2> SUFFICES ASSUME NEW j \in 1..n, Mine(call'[j], "addMethod")
               PROVE  /\ Mine(call[j], "addMethod") /\ OfPanel(call'[j])
                      /\ call'[j].body.draft = call[j].body.draft
    OBVIOUS
  <2>1. Mine(call[j], "addMethod") /\ Going(call[j]) /\ call[j].hook = "addMethod"
    BY <1>4 DEF Mine
  <2>2. PICK b : b = call[j].body /\ b = [account |-> b.account, here |-> b.here, draft |-> b.draft]
    BY <1>1, <2>1 DEF OfPanel
  <2>3. call'[j].body = [b EXCEPT !.here = FALSE] /\ call'[j].heard = FALSE
    <3>1. PICK new : new = [call[j].body EXCEPT !.here = FALSE]
      OBVIOUS
    <3>2. call'[j] = [hook |-> call[j].hook, body |-> new, state |-> call[j].state,
                      awaits |-> call[j].awaits, heard |-> FALSE]
      BY <1>3, <2>1, <3>1
    <3>3. call'[j].body = new /\ call'[j].heard = FALSE
      BY <3>2
    <3> QED  BY <2>2, <3>1, <3>3
  <2>4. call'[j].body = [account |-> b.account, here |-> FALSE, draft |-> b.draft]
    BY <2>2, <2>3
  <2> QED  BY <2>1, <2>2, <2>3, <2>4 DEF OfPanel
<1>6. \A j \in 1..n : call[j].hook = "create" \/ ~Going(call[j]) => call'[j] = call[j]
  BY <1>2
<1>7. Calling(n, call') /\ \A k \in 1..n : Going(call'[k]) => call'[k].hook \in WalletHooks
  BY <1>1, <1>2, <1>4 DEF Calling
<1>8. WalletCalls'
  BY <1>5, <1>7 DEF WalletCalls, Hooks, n
<1>9. \A j \in 1..n : Mine(call'[j], "create") => Mine(call[j], "create") /\ call'[j] = call[j]
  BY <1>4, <1>6 DEF Mine
<1> QED  BY <1>4, <1>5, <1>6, <1>8, <1>9 DEF Mine, n

\* The user shows another panel, and the drafts begun are others.
LEMMA WalletsExpanded == ASSUME NoCalls, WalletsInv, NEW a, Wallets!Expand(a) PROVE WalletsInv'
<1> DEFINE n == AccountsCase.calls
           ids == AccountsCase.newIds
<1>1. UNCHANGED <<db, seen, lost>> /\ call' = Wallets!Unmounted
  BY DEF Wallets!Expand, Wallets!Opened
<1>2. PICK expanded :
        ui' = [creating |-> ui.creating, form |-> ui.form, edit |-> ui.edit, target |-> ui.target,
               expanded |-> expanded, panel |-> Wallets!NewPanel, drawer |-> ui.drawer,
               draft |-> ui.draft + 1, opens |-> ui.opens + 1]
  BY DEF Wallets!Expand, Wallets!Opened, WalletsInv, WalletShapes, IsWalletUi
<1>3. IsWalletUi(ui') /\ ui'.draft = ui.draft + 1
  BY <1>2 DEF IsWalletUi
<1>4. WalletShapes'
  BY <1>1, <1>3 DEF WalletsInv, WalletShapes, WalletRows
<1>5. /\ WalletCalls'
      /\ \A j \in 1..n, h \in {"create", "addMethod"} : Mine(call'[j], h) =>
                 /\ Mine(call[j], h) /\ call'[j].state = call[j].state
                 /\ call'[j].body.draft = call[j].body.draft
  BY <1>1, PanelGone DEF WalletsInv
<1>6. ~lost => /\ Drafts(n, call, "create", ids, db.account, ui.draft, TRUE)
               /\ Drafts(n, call, "addMethod", ids, db.method, ui.draft, ui.expanded # None)
  BY DEF WalletsInv, WalletDrafts
<1> SUFFICES ~lost => /\ Drafts(n, call', "create", ids, db.account, ui.draft + 1, TRUE)
                      /\ Drafts(n, call', "addMethod", ids, db.method, ui.draft + 1, ui'.expanded # None)
  BY <1>1, <1>3, <1>4, <1>5 DEF WalletsInv, WalletDrafts
<1> HIDE DEF n, ids
<1>7. ~lost => /\ Drafts(n, call', "create", ids, db.account, ui.draft, FALSE)
               /\ Drafts(n, call', "addMethod", ids, db.method, ui.draft, FALSE)
  BY <1>5, <1>6, DraftsUnheard
<1> QED  BY <1>7, DraftsNext

\* What is open or typed in the dialogs and the panel,
LEMMA WalletsDialogs ==
    ASSUME NoCalls, WalletsInv,
           \/ Wallets!OpenCreate \/ Wallets!CloseCreate \/ Wallets!CloseEdit \/ Wallets!CancelDelete
           \/ Wallets!CloseDrawer \/ Wallets!OpenAddMethod \/ Wallets!CloseAddMethod \/ Wallets!CancelDeleteMethod
           \/ \E form : Wallets!TypeAccount(form)
           \/ \E name, active : Wallets!TypeEdit(name, active)
           \/ \E name : Wallets!TypeMethod(name)
           \/ \E a : Wallets!OpenDrawer(a) \/ Wallets!OpenEdit(a) \/ Wallets!AskDelete(a)
           \/ \E m : Wallets!AskDeleteMethod(m)
    PROVE  WalletsInv'
<1>1. ui = [creating |-> ui.creating, form |-> ui.form, edit |-> ui.edit, target |-> ui.target,
            expanded |-> ui.expanded, panel |-> ui.panel, drawer |-> ui.drawer, draft |-> ui.draft,
            opens |-> ui.opens]
  BY DEF WalletsInv, WalletShapes, IsWalletUi
<1>2. UNCHANGED <<db, seen, call, lost>>
  BY DEF Wallets!OpenCreate, Wallets!CloseCreate, Wallets!CloseEdit, Wallets!CancelDelete,
      Wallets!CloseDrawer,
         Wallets!OpenAddMethod, Wallets!CloseAddMethod, Wallets!CancelDeleteMethod, Wallets!TypeAccount,
         Wallets!TypeEdit, Wallets!TypeMethod, Wallets!OpenDrawer, Wallets!OpenEdit, Wallets!AskDelete,
         Wallets!AskDeleteMethod, Wallets!Opening, Wallets!Opened, Wallets!Locally
<1>3. ASSUME NEW new, \E opens : ui' \in {new, [new EXCEPT !.opens = opens]},
             IsWalletUi(new), new.draft = ui.draft, new.expanded = ui.expanded
      PROVE  WalletsInv'
  <2>1. PICK opens : ui' \in {new, [new EXCEPT !.opens = opens]}
    BY <1>3
  <2>2. new = [creating |-> new.creating, form |-> new.form, edit |-> new.edit, target |-> new.target,
               expanded |-> new.expanded, panel |-> new.panel, drawer |-> new.drawer, draft |-> new.draft,
               opens |-> new.opens]
    BY <1>3 DEF IsWalletUi
  <2>3. IsWalletUi(ui') /\ ui'.draft = ui.draft /\ ui'.expanded = ui.expanded
    BY <1>3, <2>1, <2>2 DEF IsWalletUi
  <2> QED  BY <1>2, <2>3, WalletsQuiet
<1>4. CASE \E v, new : (Wallets!Locally(new) \/ Wallets!Opened(new)) /\
              new \in {[ui EXCEPT !.creating = v], [ui EXCEPT !.form = v], [ui EXCEPT !.edit = v],
                       [ui EXCEPT !.target = v], [ui EXCEPT !.panel = v], [ui EXCEPT !.drawer = v]}
  <2>1. PICK v, new : (Wallets!Locally(new) \/ Wallets!Opened(new)) /\
              new \in {[ui EXCEPT !.creating = v], [ui EXCEPT !.form = v], [ui EXCEPT !.edit = v],
                       [ui EXCEPT !.target = v], [ui EXCEPT !.panel = v], [ui EXCEPT !.drawer = v]}
    BY <1>4
  <2>2. \E opens : ui' \in {new, [new EXCEPT !.opens = opens]}
    BY <2>1 DEF Wallets!Locally, Wallets!Opened
  <2>3. IsWalletUi(new) /\ new.draft = ui.draft /\ new.expanded = ui.expanded
    BY <1>1, <2>1 DEF IsWalletUi
  <2> QED  BY <1>3, <2>2, <2>3
<1>5. CASE \E name, active : Wallets!TypeEdit(name, active)
  <2>1. PICK name, active : ui' = [ui EXCEPT !.edit.name = name, !.edit.active = active]
    BY <1>5 DEF Wallets!TypeEdit, Wallets!Locally
  <2>2. PICK mid : mid = [ui EXCEPT !.edit.name = name] /\ ui' = [mid EXCEPT !.edit.active = active]
    BY <2>1
  <2>3. mid = [ui EXCEPT !.edit = mid.edit]
    BY <1>1, <2>2
  <2>4. IsWalletUi(mid) /\ mid.draft = ui.draft /\ mid.expanded = ui.expanded
    BY <1>1, <2>3 DEF IsWalletUi
  <2>5. mid = [creating |-> mid.creating, form |-> mid.form, edit |-> mid.edit, target |-> mid.target,
               expanded |-> mid.expanded, panel |-> mid.panel, drawer |-> mid.drawer, draft |-> mid.draft,
               opens |-> mid.opens]
    BY <2>4 DEF IsWalletUi
  <2>6. IsWalletUi(ui') /\ ui'.draft = mid.draft /\ ui'.expanded = mid.expanded
    BY <2>2, <2>5 DEF IsWalletUi
  <2> QED  BY <1>2, <2>4, <2>6, WalletsQuiet
<1>6. ASSUME NEW v
      PROVE  /\ [ui EXCEPT !.panel.adding = v] = [ui EXCEPT !.panel = [ui.panel EXCEPT !.adding = v]]
             /\ [ui EXCEPT !.panel.name = v] = [ui EXCEPT !.panel = [ui.panel EXCEPT !.name = v]]
             /\ [ui EXCEPT !.panel.target = v] = [ui EXCEPT !.panel = [ui.panel EXCEPT !.target = v]]
  BY <1>1
<1>7. CASE \/ \E v : Wallets!Locally([ui EXCEPT !.panel.adding = v]) \/ Wallets!Opened([ui EXCEPT !.panel.adding = v])
           \/ \E v : Wallets!Locally([ui EXCEPT !.panel.name = v])
           \/ \E v : Wallets!Locally([ui EXCEPT !.panel.target = v]) \/ Wallets!Opened([ui EXCEPT !.panel.target = v])
  <2>1. \E p : Wallets!Locally([ui EXCEPT !.panel = p]) \/ Wallets!Opened([ui EXCEPT !.panel = p])
    BY <1>6, <1>7, Zenon
  <2> QED  BY <1>4, <2>1
<1>8. Wallets!OpenAddMethod \/ Wallets!CloseAddMethod =>
         \E v : Wallets!Locally([ui EXCEPT !.panel.adding = v]) \/ Wallets!Opened([ui EXCEPT !.panel.adding = v])
  BY Zenon DEF Wallets!OpenAddMethod, Wallets!CloseAddMethod, Wallets!Opening
<1>9. (\E m : Wallets!AskDeleteMethod(m)) \/ Wallets!CancelDeleteMethod =>
         \E v : Wallets!Locally([ui EXCEPT !.panel.target = v]) \/ Wallets!Opened([ui EXCEPT !.panel.target = v])
  BY Zenon DEF Wallets!AskDeleteMethod, Wallets!CancelDeleteMethod, Wallets!Opening
<1>10. (\E name : Wallets!TypeMethod(name)) => \E v : Wallets!Locally([ui EXCEPT !.panel.name = v])
  BY Zenon DEF Wallets!TypeMethod
<1>11. Wallets!OpenCreate \/ Wallets!CloseCreate =>
         \E v : Wallets!Locally([ui EXCEPT !.creating = v]) \/ Wallets!Opened([ui EXCEPT !.creating = v])
  BY Zenon DEF Wallets!OpenCreate, Wallets!CloseCreate, Wallets!Opening
<1>12. (\E form : Wallets!TypeAccount(form)) => \E v : Wallets!Locally([ui EXCEPT !.form = v])
  BY Zenon DEF Wallets!TypeAccount
<1>13. Wallets!CloseEdit \/ (\E a : Wallets!OpenEdit(a)) =>
         \E v : Wallets!Locally([ui EXCEPT !.edit = v]) \/ Wallets!Opened([ui EXCEPT !.edit = v])
  BY Zenon DEF Wallets!CloseEdit, Wallets!OpenEdit, Wallets!Opening
<1>14. Wallets!CancelDelete \/ (\E a : Wallets!AskDelete(a)) =>
         \E v : Wallets!Locally([ui EXCEPT !.target = v]) \/ Wallets!Opened([ui EXCEPT !.target = v])
  BY Zenon DEF Wallets!CancelDelete, Wallets!AskDelete, Wallets!Opening
<1>15. Wallets!CloseDrawer \/ (\E a : Wallets!OpenDrawer(a)) =>
         \E v : Wallets!Locally([ui EXCEPT !.drawer = v]) \/ Wallets!Opened([ui EXCEPT !.drawer = v])
  BY Zenon DEF Wallets!CloseDrawer, Wallets!OpenDrawer
<1>16. CASE \E v : \/ Wallets!Locally([ui EXCEPT !.creating = v]) \/ Wallets!Opened([ui EXCEPT !.creating = v])
                   \/ Wallets!Locally([ui EXCEPT !.form = v])
                   \/ Wallets!Locally([ui EXCEPT !.edit = v]) \/ Wallets!Opened([ui EXCEPT !.edit = v])
                   \/ Wallets!Locally([ui EXCEPT !.target = v]) \/ Wallets!Opened([ui EXCEPT !.target = v])
                   \/ Wallets!Locally([ui EXCEPT !.drawer = v]) \/ Wallets!Opened([ui EXCEPT !.drawer = v])
  BY <1>4, <1>16
<1> QED
  BY <1>5, <1>7, <1>8, <1>9, <1>10, <1>11, <1>12, <1>13, <1>14, <1>15, <1>16

\* and what is sent from them.
LEMMA WalletsSubmits ==
    ASSUME NoCalls, WalletsInv,
           \/ Wallets!HandleCreate \/ Wallets!HandleEdit \/ Wallets!ConfirmDelete \/ Wallets!ToggleActive
           \/ Wallets!HandleAddMethod \/ Wallets!ConfirmDeleteMethod
    PROVE  WalletsInv'
<1>1. CASE \E h \in {"edit", "toggle", "delete", "deleteMethod"} : \E b : Wallets!Sends(h, b)
  <2>1. PICK h, b : h \in {"edit", "toggle", "delete", "deleteMethod"} /\ Wallets!Sends(h, b)
    BY <1>1
  <2> QED  BY <2>1, WalletsSends DEF WalletHooks
<1>2. Wallets!HandleEdit \/ Wallets!ConfirmDelete \/ Wallets!ToggleActive \/ Wallets!ConfirmDeleteMethod =>
         \E h \in {"edit", "toggle", "delete", "deleteMethod"} : \E b : Wallets!Sends(h, b)
  BY DEF Wallets!HandleEdit, Wallets!ConfirmDelete, Wallets!ToggleActive, Wallets!ConfirmDeleteMethod
<1>3. CASE Wallets!HandleCreate
  <2> DEFINE b == [name |-> ui.form.name, type |-> ui.form.type, draft |-> ui.draft]
  <2>1. Wallets!Sends("create", b) /\ b.draft = ui.draft /\ ~Wallets!Pending("create") /\ "create" \in WalletHooks
    BY <1>3 DEF Wallets!HandleCreate, WalletHooks
  <2> HIDE DEF b
  <2> QED  BY <2>1, WalletsSends
<1>4. CASE Wallets!HandleAddMethod
  <2> DEFINE b == [account |-> ui.expanded, here |-> TRUE, draft |-> ui.draft]
  <2>1. Wallets!Sends("addMethod", b) /\ ~Wallets!Pending("addMethod") /\ "addMethod" \in WalletHooks
    BY <1>4 DEF Wallets!HandleAddMethod, WalletHooks
  <2>2. ui.expanded # None
    BY <1>4 DEF Wallets!HandleAddMethod, Wallets!InPanel, Wallets!Shown, WalletsInv, WalletShapes
  <2> QED  BY <2>1, <2>2, WalletsSends
<1> QED  BY <1>1, <1>2, <1>3, <1>4

\* A call goes on,
LEMMA WalletsGoOn ==
    ASSUME NoCalls, WalletsInv, NEW k \in 1..AccountsCase.calls, Going(call[k]), NEW s, s # "sent",
           Restated(call, call', k, s), UNCHANGED <<seen, ui, lost>>, WalletRows(db'),
           Made(AccountsCase.newIds, db.account, db'.account, call[k], "create"),
           Made(AccountsCase.newIds, db.method, db'.method, call[k], "addMethod")
    PROVE  WalletsInv'
<1> DEFINE n == AccountsCase.calls
           ids == AccountsCase.newIds
<1>1. n \in Nat /\ k \in 1..n /\ Calling(n, call) /\ Hooks(n, call, WalletHooks)
  BY ClientAssumption DEF WalletsInv, WalletCalls, Hooks
<1>2. ~lost => /\ Drafts(n, call, "create", ids, db.account, ui.draft, TRUE)
               /\ Drafts(n, call, "addMethod", ids, db.method, ui.draft, ui.expanded # None)
  BY DEF WalletsInv, WalletDrafts
<1>3. \A j \in 1..n : Mine(call[j], "addMethod") => OfPanel(call[j])
  BY DEF WalletsInv, WalletCalls
<1>4. WalletShapes'
  BY DEF WalletsInv, WalletShapes, WalletRows
<1> SUFFICES /\ Hooks(n, call', WalletHooks)
             /\ \A j \in 1..n : Mine(call'[j], "addMethod") => OfPanel(call'[j])
             /\ ~lost => /\ Drafts(n, call', "create", ids, db'.account, ui.draft, TRUE)
                         /\ Drafts(n, call', "addMethod", ids, db'.method, ui.draft, ui.expanded # None)
  BY <1>4 DEF WalletsInv, WalletCalls, WalletDrafts
<1>5. Made(ids, db.account, db'.account, call[k], "create") /\ Made(ids, db.method, db'.method, call[k], "addMethod")
  OBVIOUS
<1> HIDE DEF n, ids
<1>6. Hooks(n, call', WalletHooks)
  BY <1>1, HooksStay
<1>7. \A j \in 1..n : Mine(call'[j], "addMethod") => OfPanel(call'[j])
  <2>1. /\ \A j \in 1..n : j # k => call'[j] = call[j]
        /\ call'[k].heard = call[k].heard /\ Carries(call[k], call'[k])
    BY <1>1, RestatedRows
  <2> QED  BY <1>1, <1>3, <2>1 DEF Mine, Carries, OfPanel
<1>8. ~lost => Drafts(n, call', "create", ids, db'.account, ui.draft, TRUE)
  BY <1>1, <1>2, <1>5, DraftsServed
<1>9. ~lost => Drafts(n, call', "addMethod", ids, db'.method, ui.draft, ui.expanded # None)
  BY <1>1, <1>2, <1>5, DraftsServed
<1> QED  BY <1>6, <1>7, <1>8, <1>9

\* when the server has done it, and while the lists are fetched again,
LEMMA WalletsServed ==
    ASSUME NoCalls, WalletsInv, NEW k \in 1..AccountsCase.calls,
           Wallets!ServeAccount(k) \/ Wallets!SettleAccount(k)
    PROVE  WalletsInv'
<1>1. Going(call[k])
  BY DEF Wallets!ServeAccount, Wallets!SettleAccount, Wallets!Running, Going
<1>2. WalletRows(db) /\ call[k].hook \in WalletHooks
  BY <1>1 DEF WalletsInv, WalletShapes, WalletCalls, Hooks
<1>3. CASE Wallets!ServeAccount(k)
  <2>1. /\ call[k].state = "sent" /\ Restated(call, call', k, "done") /\ UNCHANGED <<seen, ui, lost>>
        /\ db' = Wallets!AccountResult(k)
    BY <1>3 DEF Wallets!ServeAccount, Wallets!Serve, Restated
  <2>2. None \notin AccountsCase.newIds
    BY StartAssumption
  <2>3. Wallets!AccountAccepted(k) /\ (call[k].hook \in {"create", "addMethod"} => Wallets!Unused # {})
    BY <1>3 DEF Wallets!ServeAccount
  <2>4. /\ WalletRows(db')
        /\ Made(AccountsCase.newIds, db.account, db'.account, call[k], "create")
        /\ Made(AccountsCase.newIds, db.method, db'.method, call[k], "addMethod")
    BY <1>1, <1>2, <2>1, <2>2, <2>3, WalletsWritten
  <2> QED  BY <1>1, <2>1, <2>4, WalletsGoOn
<1>4. CASE Wallets!SettleAccount(k)
  <2>1. Restated(call, call', k, "settling") /\ UNCHANGED <<db, seen, ui, lost>>
    BY <1>4 DEF Wallets!SettleAccount, Wallets!Settles, Restated
  <2>2. WalletRows(db') /\ \A rows, g : Made(AccountsCase.newIds, rows, rows, call[k], g)
    BY <1>2, <2>1 DEF Made
  <2> QED  BY <1>1, <2>1, <2>2, WalletsGoOn
<1> QED  BY <1>3, <1>4

\* The code after a call closes its dialog, and begins another draft where there was a form.
LEMMA WalletsHeard ==
    ASSUME NEW k, IsWalletUi(ui), call[k].hook \in WalletHooks
    PROVE  LET u == Wallets!HeardAccount(k)
               form == call[k].hook = "create" \/ (call[k].hook = "addMethod" /\ call[k].body.here)
           IN  /\ IsWalletUi(u) /\ u.expanded = ui.expanded
               /\ (form => u.draft = ui.draft + 1) /\ (~form => u.draft = ui.draft)
<1> DEFINE u == Wallets!HeardAccount(k)
           form == call[k].hook = "create" \/ (call[k].hook = "addMethod" /\ call[k].body.here)
           Good(v) == /\ IsWalletUi(v) /\ v.expanded = ui.expanded
                      /\ (form => v.draft = ui.draft + 1) /\ (~form => v.draft = ui.draft)
<1> SUFFICES Good(u)
  OBVIOUS
<1>1. ui = [creating |-> ui.creating, form |-> ui.form, edit |-> ui.edit, target |-> ui.target,
            expanded |-> ui.expanded, panel |-> ui.panel, drawer |-> ui.drawer, draft |-> ui.draft,
            opens |-> ui.opens]
  BY DEF IsWalletUi
<1>2. \/ ~form /\ u = ui
      \/ ~form /\ u = [ui EXCEPT !.edit = None]
      \/ ~form /\ u = [ui EXCEPT !.target = None]
      \/ ~form /\ u = [ui EXCEPT !.panel.target = None]
      \/ form /\ u = [ui EXCEPT !.form = Wallets!BlankForm, !.creating = FALSE, !.draft = @ + 1]
      \/ form /\ u = [ui EXCEPT !.panel.name = None, !.panel.adding = FALSE, !.draft = @ + 1]
  BY DEF Wallets!HeardAccount, WalletHooks, Wallets!PanelHooks
<1> HIDE DEF u, form
<1>3. CASE ~form /\ u = ui
  BY <1>3
<1>4. CASE ~form /\ u = [ui EXCEPT !.edit = None]
  BY <1>1, <1>4 DEF IsWalletUi
<1>5. CASE ~form /\ u = [ui EXCEPT !.target = None]
  BY <1>1, <1>5 DEF IsWalletUi
<1>6. CASE ~form /\ u = [ui EXCEPT !.panel.target = None]
  <2>1. PICK panel : u = [ui EXCEPT !.panel = panel]
    BY <1>1, <1>6
  <2> QED  BY <1>1, <1>6, <2>1 DEF IsWalletUi
<1>7. CASE form /\ u = [ui EXCEPT !.form = Wallets!BlankForm, !.creating = FALSE, !.draft = @ + 1]
  <2>1. u = [creating |-> FALSE, form |-> Wallets!BlankForm, edit |-> ui.edit, target |-> ui.target,
             expanded |-> ui.expanded, panel |-> ui.panel, drawer |-> ui.drawer, draft |-> ui.draft + 1,
             opens |-> ui.opens]
    BY <1>1, <1>7
  <2> QED  BY <1>7, <2>1 DEF IsWalletUi
<1>8. CASE form /\ u = [ui EXCEPT !.panel.name = None, !.panel.adding = FALSE, !.draft = @ + 1]
  <2>1. PICK one : one = [ui EXCEPT !.panel.name = None] /\ u = [one EXCEPT !.panel.adding = FALSE, !.draft = one.draft + 1]
    <3>1. [ui EXCEPT !.panel.name = None, !.panel.adding = FALSE].draft = ui.draft
      BY <1>1
    <3>2. [ui EXCEPT !.panel.name = None].draft = ui.draft
      BY <1>1
    <3> QED  BY <1>8, <3>1, <3>2
  <2>2. one = [ui EXCEPT !.panel = one.panel]
    BY <1>1, <2>1
  <2>3. PICK p : one = [creating |-> ui.creating, form |-> ui.form, edit |-> ui.edit, target |-> ui.target,
             expanded |-> ui.expanded, panel |-> p, drawer |-> ui.drawer, draft |-> ui.draft,
             opens |-> ui.opens]
    BY <1>1, <2>2
  <2>4. PICK d : d = one.draft + 1
    OBVIOUS
  <2>5. PICK two : two = [one EXCEPT !.panel.adding = FALSE] /\ u = [two EXCEPT !.draft = d]
    BY <2>1, <2>4
  <2>6. PICK q : two = [creating |-> ui.creating, form |-> ui.form, edit |-> ui.edit, target |-> ui.target,
             expanded |-> ui.expanded, panel |-> q, drawer |-> ui.drawer, draft |-> ui.draft,
             opens |-> ui.opens]
    BY <2>3, <2>5
  <2>7. u = [creating |-> ui.creating, form |-> ui.form, edit |-> ui.edit, target |-> ui.target,
             expanded |-> ui.expanded, panel |-> q, drawer |-> ui.drawer, draft |-> d,
             opens |-> ui.opens]
    <3>1. u = [two EXCEPT !.draft = d]
      BY <2>5
    <3>2. PICK e, f, g, t, x, r, o :
            two = [creating |-> e, form |-> f, edit |-> g, target |-> t, expanded |-> x, panel |-> q,
                   drawer |-> r, draft |-> ui.draft, opens |-> o]
      BY <2>6
    <3>3. u = [creating |-> e, form |-> f, edit |-> g, target |-> t, expanded |-> x, panel |-> q,
               drawer |-> r, draft |-> d, opens |-> o]
      BY <3>1, <3>2
    <3> QED  BY <2>6, <3>2, <3>3
  <2>8. d = ui.draft + 1
    BY <2>3, <2>4
  <2> QED  BY <1>8, <2>7, <2>8 DEF IsWalletUi
<1> QED  BY <1>2, <1>3, <1>4, <1>5, <1>6, <1>7, <1>8

\* A call is over,
LEMMA WalletsEnded ==
    ASSUME NoCalls, WalletsInv, NEW k \in 1..AccountsCase.calls,
           Wallets!AnswerAccount(k) \/ (Wallets!Running(k) /\ Wallets!Fails(k, Wallets!FailedAccount(k)))
    PROVE  WalletsInv'
<1> DEFINE n == AccountsCase.calls
           ids == AccountsCase.newIds
           form == call[k].hook = "create" \/ (call[k].hook = "addMethod" /\ call[k].body.here)
<1>1. n \in Nat /\ k \in 1..n /\ Calling(n, call) /\ Hooks(n, call, WalletHooks)
  BY ClientAssumption DEF WalletsInv, WalletCalls, Hooks
<1>2. Going(call[k]) /\ Dropped(n, call, call', k) /\ UNCHANGED <<db, seen>>
  BY DEF Wallets!AnswerAccount, Wallets!Over, Wallets!Fails, Wallets!Running, Going, Wallets!Without,
      Wallets!Slots, Dropped
<1>3. IsWalletUi(ui) /\ call[k].hook \in WalletHooks
  BY <1>1, <1>2 DEF WalletsInv, WalletShapes, Hooks
<1>4. \A j \in 1..n : Mine(call[j], "addMethod") => OfPanel(call[j])
  BY DEF WalletsInv, WalletCalls
<1>5. ~lost => /\ Drafts(n, call, "create", ids, db.account, ui.draft, TRUE)
               /\ Drafts(n, call, "addMethod", ids, db.method, ui.draft, ui.expanded # None)
  BY DEF WalletsInv, WalletDrafts
<1>6. \/ lost' = lost /\ ui' = Wallets!HeardAccount(k)
      \/ /\ lost' = (lost \/ call[k].state = "done") /\ call[k].state \in {"sent", "done"}
         /\ ui' = Wallets!FailedAccount(k)
  BY DEF Wallets!AnswerAccount, Wallets!Over, Wallets!Fails
<1>7. Wallets!FailedAccount(k) = ui \/ (Wallets!FailedAccount(k) = Wallets!HeardAccount(k) /\ ~form)
  BY DEF Wallets!FailedAccount
<1>8. /\ IsWalletUi(ui') /\ ui'.expanded = ui.expanded
      /\ \/ ui'.draft = ui.draft + 1
         \/ /\ ui'.draft = ui.draft
            /\ \/ ~form
               \/ (lost' = (lost \/ call[k].state = "done")) /\ call[k].state \in {"sent", "done"}
  <2> DEFINE u == Wallets!HeardAccount(k)
  <2>1. /\ IsWalletUi(u) /\ u.expanded = ui.expanded
        /\ (form => u.draft = ui.draft + 1) /\ (~form => u.draft = ui.draft)
    BY <1>3, WalletsHeard
  <2>2. ui' = u \/ (ui' = ui /\ lost' = (lost \/ call[k].state = "done") /\ call[k].state \in {"sent", "done"})
    BY <1>6, <1>7, Zenon
  <2> HIDE DEF u, form
  <2>3. CASE ui' = u
    <3>1. IsWalletUi(ui') /\ ui'.expanded = ui.expanded
      BY <2>1, <2>3
    <3>2. CASE form
      BY <2>1, <2>3, <3>1, <3>2
    <3>3. CASE ~form
      <4>1. ui'.draft = ui.draft
        BY <2>1, <2>3, <3>3
      <4> QED  BY <3>1, <3>3, <4>1, Zenon
    <3> QED  BY <3>2, <3>3
  <2>4. CASE ui' = ui /\ lost' = (lost \/ call[k].state = "done") /\ call[k].state \in {"sent", "done"}
    BY <1>3, <2>4
  <2> QED  BY <2>2, <2>3, <2>4
<1>9. WalletShapes'
  BY <1>2, <1>8 DEF WalletsInv, WalletShapes, WalletRows
<1>10. /\ ~lost' => ~lost
       /\ ((lost' = (lost \/ call[k].state = "done")) /\ call[k].state \in {"sent", "done"} /\ ~lost')
            => call[k].state = "sent"
  <2>1. lost' = (lost \/ call[k].state = "done") /\ ~lost' => ~lost /\ call[k].state # "done"
    BY Zenon
  <2> QED  BY <1>6, <2>1
<1>11. ~form /\ Mine(call[k], "create") => FALSE
  BY DEF Mine
<1>12. ~form /\ Mine(call[k], "addMethod") => ~call[k].heard
  BY <1>1, <1>4 DEF Mine, OfPanel
<1> SUFFICES /\ Hooks(n, call', WalletHooks)
             /\ \A j \in 1..n : Mine(call'[j], "addMethod") => OfPanel(call'[j])
             /\ ~lost' => /\ Drafts(n, call', "create", ids, db.account, ui'.draft, TRUE)
                          /\ Drafts(n, call', "addMethod", ids, db.method, ui'.draft, ui.expanded # None)
  BY <1>2, <1>8, <1>9 DEF WalletsInv, WalletCalls, WalletDrafts
<1> HIDE DEF n, ids, form
<1>13. Hooks(n, call', WalletHooks)
  BY <1>1, <1>2, HooksStay
<1>14. \A j \in 1..n : Mine(call'[j], "addMethod") => OfPanel(call'[j])
  <2>1. \A j \in 1..n : Going(call'[j]) => Before(k, j) \in 1..n /\ call'[j] = call[Before(k, j)]
    BY <1>1, <1>2, DroppedRows
  <2> QED  BY <1>4, <2>1 DEF Mine
<1>15. CASE ui'.draft = ui.draft + 1
  <2>1. ~lost' => /\ Drafts(n, call', "create", ids, db.account, ui.draft, FALSE)
                  /\ Drafts(n, call', "addMethod", ids, db.method, ui.draft, FALSE)
    BY <1>1, <1>2, <1>5, <1>10, DraftsGone
  <2> QED  BY <1>13, <1>14, <1>15, <2>1, DraftsNext
<1>16. CASE ui'.draft = ui.draft /\ (~form \/ (lost' = (lost \/ call[k].state = "done") /\ call[k].state \in {"sent", "done"}))
  <2>1. ~lost' => /\ ~lost
                  /\ Mine(call[k], "create") => call[k].state = "sent"
                  /\ Mine(call[k], "addMethod") => call[k].state = "sent" \/ ~call[k].heard
    BY <1>10, <1>11, <1>12, <1>16
  <2>2. ~lost' => Drafts(n, call', "create", ids, db.account, ui.draft, TRUE)
    BY <1>1, <1>2, <1>5, <2>1, DraftsGone
  <2>3. ~lost' => Drafts(n, call', "addMethod", ids, db.method, ui.draft, ui.expanded # None)
    BY <1>1, <1>2, <1>5, <2>1, DraftsGone
  <2> QED  BY <1>13, <1>14, <1>16, <2>2, <2>3
<1> QED  BY <1>8, <1>15, <1>16

\* and what is due is fetched.
LEMMA WalletsFetched ==
    ASSUME NoCalls, WalletsInv, Wallets!FetchList \/ \E a : Wallets!FetchMethods(a)
    PROVE  WalletsInv'
<1> DEFINE n == AccountsCase.calls
           ids == AccountsCase.newIds
<1>1. /\ UNCHANGED <<db, lost>>
      /\ seen = [list |-> seen.list, methods |-> seen.methods]
      /\ ui = [creating |-> ui.creating, form |-> ui.form, edit |-> ui.edit, target |-> ui.target,
               expanded |-> ui.expanded, panel |-> ui.panel, drawer |-> ui.drawer, draft |-> ui.draft,
               opens |-> ui.opens]
  BY DEF Wallets!FetchList, Wallets!FetchMethods, WalletsInv, WalletShapes, IsWalletUi
<1>2. CASE \E a : Wallets!FetchMethods(a)
  <2>1. /\ UNCHANGED <<ui, call>>
        /\ seen' = [list |-> seen.list, methods |-> seen'.methods]
    BY <1>1, <1>2 DEF Wallets!FetchMethods
  <2>2. WalletShapes'
    BY <1>1, <2>1 DEF WalletsInv, WalletShapes, WalletRows
  <2> QED  BY <1>1, <2>1, <2>2 DEF WalletsInv, WalletCalls, WalletDrafts
<1>3. CASE Wallets!FetchList
  <2>1. /\ seen' = [list |-> db.account, methods |-> seen.methods]
        /\ \/ ui' = [ui EXCEPT !.expanded = None, !.panel = Wallets!NewPanel] /\ call' = Wallets!Unmounted
           \/ ui' = ui /\ call' = call
    BY <1>1, <1>3 DEF Wallets!FetchList
  <2>2. None \notin DOMAIN db.account
    BY DEF WalletsInv, WalletShapes, WalletRows
  <2>3. CASE ui' = ui /\ call' = call
    <3>1. WalletShapes'
      BY <1>1, <2>1, <2>2, <2>3 DEF WalletsInv, WalletShapes, WalletRows
    <3> QED  BY <1>1, <2>3, <3>1 DEF WalletsInv, WalletCalls, WalletDrafts
  <2>4. CASE ui' = [ui EXCEPT !.expanded = None, !.panel = Wallets!NewPanel] /\ call' = Wallets!Unmounted
    <3>1. ui' = [creating |-> ui.creating, form |-> ui.form, edit |-> ui.edit, target |-> ui.target,
               expanded |-> None, panel |-> Wallets!NewPanel, drawer |-> ui.drawer, draft |-> ui.draft,
               opens |-> ui.opens]
      BY <1>1, <2>4
    <3>2. IsWalletUi(ui') /\ ui'.draft = ui.draft /\ ui'.expanded = None
      BY <3>1 DEF IsWalletUi
    <3>3. WalletShapes'
      BY <1>1, <2>1, <2>2, <3>2 DEF WalletsInv, WalletShapes, WalletRows
    <3>4. /\ WalletCalls'
          /\ \A j \in 1..n, h \in {"create", "addMethod"} : Mine(call'[j], h) =>
                 /\ Mine(call[j], h) /\ call'[j].state = call[j].state
                 /\ call'[j].body.draft = call[j].body.draft
          /\ \A j \in 1..n : Mine(call[j], "create") => call'[j] = call[j]
      BY <2>4, PanelGone DEF WalletsInv
    <3>5. ~lost => /\ Drafts(n, call, "create", ids, db.account, ui.draft, TRUE)
                   /\ Drafts(n, call, "addMethod", ids, db.method, ui.draft, ui.expanded # None)
      BY DEF WalletsInv, WalletDrafts
    <3> SUFFICES ~lost => /\ Drafts(n, call', "create", ids, db.account, ui.draft, TRUE)
                          /\ Drafts(n, call', "addMethod", ids, db.method, ui.draft, FALSE)
      BY <1>1, <3>2, <3>3, <3>4 DEF WalletsInv, WalletDrafts
    <3> HIDE DEF n, ids
    <3>6. ~lost => Drafts(n, call', "create", ids, db.account, ui.draft, TRUE)
      BY <3>4, <3>5, DraftsUnheard
    <3>7. ~lost => Drafts(n, call', "addMethod", ids, db.method, ui.draft, FALSE)
      BY <3>4, <3>5, DraftsUnheard
    <3> QED  BY <3>6, <3>7
  <2> QED  BY <2>1, <2>3, <2>4
<1> QED  BY <1>2, <1>3

\* The invariant holds when the page is opened,
LEMMA WalletsInit == ASSUME Wallets!AccountInit PROVE WalletsInv
<1> DEFINE accounts == AccountsCase.startAccounts
           methods == AccountsCase.startMethods
           ids == AccountsCase.newIds
           n == AccountsCase.calls
<1>1. /\ db = [account |-> accounts, method |-> methods, gone |-> {}]
      /\ seen = [list |-> NoData, methods |-> [a \in Wallets!AccountIds |-> NoData]]
      /\ ui = [creating |-> FALSE, form |-> Wallets!BlankForm, edit |-> None, target |-> None,
               expanded |-> None, panel |-> Wallets!NewPanel, drawer |-> None, draft |-> 0, opens |-> 0]
      /\ call = [k \in 1..n |-> Idle]
  BY DEF Wallets!AccountInit, Wallets!Slots
<1>2. /\ accounts = [a \in DOMAIN accounts \ ids |->
                      [name |-> accounts[a].name, type |-> accounts[a].type,
                       active |-> accounts[a].active, draft |-> accounts[a].draft]]
      /\ methods = [m \in DOMAIN methods \ ids |->
                      [account |-> methods[m].account, draft |-> methods[m].draft]]
      /\ None \notin DOMAIN accounts \cup ids
  BY StartAssumption
<1>3. /\ accounts = [a \in DOMAIN accounts |-> accounts[a]] /\ methods = [m \in DOMAIN methods |-> methods[m]]
      /\ \A a \in DOMAIN accounts : accounts[a] = [name |-> accounts[a].name, type |-> accounts[a].type,
                       active |-> accounts[a].active, draft |-> accounts[a].draft]
      /\ DOMAIN accounts \cap ids = {} /\ DOMAIN methods \cap ids = {}
  <2>1. DOMAIN accounts = DOMAIN accounts \ ids /\ DOMAIN methods = DOMAIN methods \ ids
    BY <1>2
  <2> QED  BY <1>2, <2>1
<1>4. db.account = accounts /\ db.method = methods /\ ui.draft = 0 /\ seen.list = NoData /\ IsWalletUi(ui)
      /\ seen = [list |-> seen.list, methods |-> seen.methods]
  BY <1>1 DEF IsWalletUi
<1>5. Hooks(n, call, WalletHooks) /\ \A k \in 1..n : ~Going(call[k])
  BY <1>1 DEF Hooks, Calling, Going
<1>6. WalletCalls
  BY <1>5 DEF WalletCalls, Mine
<1>7. WalletDrafts
  <2>1. \A k \in 1..n : \A h : ~Mine(call[k], h)
    BY <1>5 DEF Mine
  <2> SUFFICES ~lost => /\ Drafts(n, call, "create", ids, accounts, 0, TRUE)
                        /\ Drafts(n, call, "addMethod", ids, methods, 0, ui.expanded # None)
    BY <1>4 DEF WalletDrafts
  <2> HIDE DEF n, ids, accounts, methods
  <2> QED  BY <1>3, <2>1 DEF Drafts
<1>8. WalletShapes
  <2> HIDE DEF n, ids, accounts, methods
  <2> QED  BY <1>1, <1>2, <1>3, <1>4 DEF WalletShapes, WalletRows, IsAccount
<1> QED  BY <1>6, <1>7, <1>8 DEF WalletsInv

\* and each step keeps it.
LEMMA WalletsStep == ASSUME NoCalls, WalletsInv, Wallets!AccountNext PROVE WalletsInv'
<1>1. CASE Wallets!DialogUser
  BY <1>1, WalletsDialogs, WalletsSubmits, WalletsExpanded DEF Wallets!DialogUser
<1>2. CASE Wallets!PanelUser
  BY <1>2, WalletsDialogs, WalletsSubmits DEF Wallets!PanelUser
<1>3. CASE \E k \in Wallets!Slots :
              \/ Wallets!ServeAccount(k) \/ Wallets!SettleAccount(k) \/ Wallets!AnswerAccount(k)
              \/ Wallets!Running(k) /\ Wallets!Fails(k, Wallets!FailedAccount(k))
  BY <1>3, WalletsServed, WalletsEnded DEF Wallets!Slots
<1>4. CASE Wallets!FetchList \/ \E a \in Wallets!AccountIds : Wallets!FetchMethods(a)
  BY <1>4, WalletsFetched
<1> QED  BY <1>1, <1>2, <1>3, <1>4 DEF Wallets!AccountNext

-----------------------------------------------------------------------------
(***************************************************************************)
(* The walk through the list of transactions: whatever is not shown yet    *)
(* comes after the cursor of the next page.  Rows are in a strict order,   *)
(* so each has its place among those that match, and what an answer leaves *)
(* out comes after the last row it holds.  The cursors the page remembers  *)
(* go on from what was shown before their pages, so the walk may also turn *)
(* back; deleting rows leaves less to show.                                *)
(***************************************************************************)
\* The rows are in a strict order, whatever they are sorted by.
LEMMA RowsOrdered ==
    ASSUME NEW s \in ListCase.rows, NEW t \in ListCase.rows, NEW sort
    PROVE  /\ ~List!Before(s, s, sort)
           /\ s # t => List!Before(s, t, sort) \/ List!Before(t, s, sort)
           /\ \A r \in ListCase.rows :
                 List!Before(s, t, sort) /\ List!Before(t, r, sort) => List!Before(s, r, sort)
<1> DEFINE key(r) == IF sort[1] = "amount" THEN ListCase.amount[r] ELSE ListCase.day[r]
           Less(x, y) == key(x) < key(y) \/ (key(x) = key(y) /\ x < y)
<1>1. \A r \in ListCase.rows : r \in Int /\ key(r) \in Int
  BY ListAssumption
<1>2. \A x, y \in ListCase.rows : List!Before(x, y, sort) <=> x # y /\ (Less(x, y) <=> sort[2] = "asc")
  BY DEF List!Before
<1> HIDE DEF key
<1>3. \A x, y, r \in ListCase.rows : ~Less(x, x) /\ (x # y => (Less(x, y) <=> ~Less(y, x)))
                                 /\ (Less(x, y) /\ Less(y, r) => Less(x, r))
  BY <1>1
<1> HIDE DEF Less
<1> QED  BY <1>2, <1>3

\* A set of rows in order: each row is somewhere, and behind those it comes after.
LEMMA RowsInOrder ==
    ASSUME NEW S, S \subseteq ListCase.rows, NEW sort
    PROVE  LET f == List!InOrder(S, sort)
               n == Cardinality(S)
           IN  /\ n \in Nat /\ f \in [1..n -> S]
               /\ \A t \in S : \E i \in 1..n : f[i] = t
               /\ \A i, j \in 1..n : i < j => List!Before(f[i], f[j], sort)
<1> DEFINE n == Cardinality(S)
           ahead(t) == {s \in S : List!Before(s, t, sort)}
           rank == [t \in S |-> Cardinality(ahead(t)) + 1]
           f == [i \in 1..n |-> CHOOSE t \in S : Cardinality(ahead(t)) = i - 1]
<1>1. \A T : List!Cardinality(T) = Cardinality(T)
  BY DEF List!Cardinality, Cardinality
<1>2. List!InOrder(S, sort) = f
  <2>1. \A t : List!Cardinality(ahead(t)) = Cardinality(ahead(t))
    BY <1>1
  <2>2. List!Cardinality(S) = n
    BY <1>1
  <2>3. List!InOrder(S, sort) =
           [i \in 1..List!Cardinality(S) |-> CHOOSE t \in S : List!Cardinality(ahead(t)) = i - 1]
    BY DEF List!InOrder
  <2> HIDE DEF ahead, n
  <2> QED  BY <2>1, <2>2, <2>3
<1>3. IsFiniteSet(S) /\ n \in Nat
  <2>1. IsFiniteSet(ListCase.rows)
    BY ListAssumption DEF List!IsFiniteSet, IsFiniteSet
  <2> QED  BY <2>1, FS_Subset, FS_CardinalityType
<1>4. ASSUME NEW t \in S
      PROVE  IsFiniteSet(ahead(t)) /\ Cardinality(ahead(t)) \in 0..(n - 1)
  <2>1. ahead(t) \subseteq S \ {t}
    BY RowsOrdered
  <2>2. IsFiniteSet(S \ {t}) /\ Cardinality(S \ {t}) = n - 1
    BY <1>3, FS_RemoveElement
  <2>3. IsFiniteSet(ahead(t)) /\ Cardinality(ahead(t)) <= n - 1
    BY <2>1, <2>2, FS_Subset
  <2>4. Cardinality(ahead(t)) \in Nat
    BY <2>3, FS_CardinalityType
  <2> HIDE DEF ahead, n
  <2> QED  BY <1>3, <2>3, <2>4
<1>5. ASSUME NEW s \in S, NEW t \in S, List!Before(s, t, sort)
      PROVE  Cardinality(ahead(s)) < Cardinality(ahead(t))
  <2>1. ahead(s) \subseteq ahead(t) /\ s \in ahead(t) /\ s \notin ahead(s)
    BY <1>5, RowsOrdered
  <2>2. ahead(s) # ahead(t)
    BY Zenon, <2>1
  <2> HIDE DEF ahead, n
  <2>3. Cardinality(ahead(s)) <= Cardinality(ahead(t)) /\ Cardinality(ahead(s)) # Cardinality(ahead(t))
    BY <1>4, <2>1, <2>2, FS_Subset
  <2> QED  BY <1>3, <1>4, <2>3
<1>6. /\ rank \in [S -> 1..n]
      /\ \A s, t \in S : List!Before(s, t, sort) => rank[s] < rank[t]
      /\ \A t \in S : Cardinality(ahead(t)) = rank[t] - 1
  <2> HIDE DEF ahead, n
  <2> QED  BY <1>3, <1>4, <1>5
<1> HIDE DEF ahead, rank, n
<1>7. \A s, t \in S : s # t => rank[s] # rank[t] /\ (rank[s] < rank[t] => List!Before(s, t, sort))
  <2>1. \A s, t \in S : s # t => List!Before(s, t, sort) \/ List!Before(t, s, sort)
    BY RowsOrdered
  <2>2. \A t \in S : rank[t] \in Nat
    BY <1>3, <1>6
  <2> QED  BY <1>6, <2>1, <2>2
<1>8. ASSUME NEW i \in 1..n PROVE \E t \in S : rank[t] = i
  <2>1. rank \in Injection(S, 1..n)
    BY <1>6, <1>7 DEF Injection, IsInjective
  <2>2. IsFiniteSet(1..n) /\ Cardinality(1..n) = n
    BY <1>3, FS_Interval
  <2>3. Cardinality(S) = n
    BY DEF n
  <2>4. rank \in Surjection(S, 1..n)
    BY <2>1, <2>2, <2>3, FS_Injection
  <2> QED  BY <2>4 DEF Surjection
<1>9. ASSUME NEW i \in 1..n PROVE f[i] \in S /\ rank[f[i]] = i
  <2>1. PICK t \in S : rank[t] = i
    BY <1>8
  <2>2. Cardinality(ahead(t)) = i - 1
    BY <1>6, <2>1
  <2>3. f[i] \in S /\ Cardinality(ahead(f[i])) = i - 1
    BY <2>2
  <2>4. rank[f[i]] \in 1..n /\ rank[f[i]] - 1 = i - 1
    BY <1>6, <2>3
  <2> QED  BY <1>3, <2>3, <2>4
<1>10. f \in [1..n -> S]
  BY <1>9
<1> HIDE DEF f
<1>11. ASSUME NEW t \in S PROVE rank[t] \in 1..n /\ f[rank[t]] = t
  BY <1>6, <1>7, <1>9
<1>12. ASSUME NEW i \in 1..n, NEW j \in 1..n, i < j PROVE List!Before(f[i], f[j], sort)
  BY <1>3, <1>7, <1>9, <1>12
<1> QED  BY <1>2, <1>3, <1>10, <1>11, <1>12 DEF n

\* A cursor is a row behind which the list goes on, and not null.
NoCursor == \A by, row : [by |-> by, row |-> row] # None

\* The rows an answer leaves out come after the cursor it gives for the next page.
LEMMA AnswerGoesOn ==
    ASSUME NoCursor, NEW u, u.size \in Nat \ {0}, NEW period, NEW cursor, db.live \subseteq ListCase.rows,
           List!Decodes(cursor, u.sort),
           NEW t \in List!After(List!Matching(u.type, period), cursor, u.sort)
    PROVE  LET answer == List!ListAnswer(u, period, cursor)
           IN  \/ t \in List!ToSet(answer.items)
               \/ answer.next # None /\ List!Before(answer.next.row, t, u.sort)
<1> DEFINE matching == List!Matching(u.type, period)
           S == List!After(matching, cursor, u.sort)
           rest == List!InOrder(S, u.sort)
           n == Cardinality(S)
           m == List!Min({u.size, Len(rest)})
           items == SubSeq(rest, 1, m)
           answer == List!ListAnswer(u, period, cursor)
<1>1. S \subseteq ListCase.rows /\ t \in S
  BY DEF List!After, List!Matching
<1> HIDE DEF S
<1>2. /\ n \in Nat /\ rest \in [1..n -> S]
      /\ \A s \in S : \E i \in 1..n : rest[i] = s
      /\ \A i, j \in 1..n : i < j => List!Before(rest[i], rest[j], u.sort)
  BY <1>1, RowsInOrder
<1> HIDE DEF n, rest
<1>3. rest \in Seq(S) /\ Len(rest) = n
  BY <1>2
<1>4. m = IF u.size <= n THEN u.size ELSE n
  <2>1. {u.size, n} \subseteq Nat /\ {u.size, n} # {}
    BY <1>2
  <2>2. m \in {u.size, n} /\ \A k \in {u.size, n} : m <= k
    BY <1>3, <2>1, LeastIsIn DEF List!Min
  <2> QED  BY <1>2, <2>1, <2>2
<1> HIDE DEF m
<1>5. m \in 0..n /\ Len(items) = m /\ \A i \in 1..m : items[i] = rest[i]
  BY <1>2, <1>3, <1>4
<1>6. List!ToSet(items) = {items[i] : i \in 1..m}
  BY <1>5 DEF List!ToSet
<1>7. /\ answer.items = items
      /\ answer.next = IF Len(rest) > u.size THEN [by |-> u.sort[1], row |-> items[Len(items)]] ELSE None
  BY DEF List!ListAnswer, S, rest, m
<1> HIDE DEF items, answer
<1>8. PICK i \in 1..n : rest[i] = t
  BY <1>1, <1>2
<1>9. CASE i <= m
  BY <1>2, <1>5, <1>6, <1>7, <1>8, <1>9 DEF answer
<1>10. CASE ~(i <= m)
  <2>1. m = u.size /\ n > u.size /\ m \in 1..n /\ m < i
    BY <1>2, <1>4, <1>5, <1>10
  <2>2. answer.next = [by |-> u.sort[1], row |-> rest[m]]
    BY <1>3, <1>5, <1>7, <2>1
  <2>3. answer.next # None /\ answer.next.row = rest[m]
    BY <2>2 DEF NoCursor
  <2>4. List!Before(rest[m], rest[i], u.sort)
    BY <1>2, <2>1
  <2> QED  BY <1>8, <2>3, <2>4 DEF answer
<1> QED  BY <1>9, <1>10

IsRowsUi(u) ==
    u = [url |-> u.url, pending |-> u.pending, cursors |-> u.cursors, filters |-> u.filters,
         deleting |-> u.deleting, blocked |-> u.blocked, drawer |-> u.drawer, edit |-> u.edit,
         period |-> u.period, walk |-> u.walk, back |-> u.back, moves |-> u.moves]

\* Each row that matches was shown, or comes after the cursor.
ShownOrAfter(cursor) ==
    \A t \in List!Matching(ui.url.type, ui.period) :
        t \in ui.walk \/ (cursor # None /\ List!Before(cursor.row, t, ui.url.sort))

\* The parts of a URL; the first page has no cursor, wherever it is met.
IsShaped(u) == u = [type |-> u.type, sort |-> u.sort, size |-> u.size, page |-> u.page, cursor |-> u.cursor]

IsUrl(u) ==
    /\ IsShaped(u)
    /\ u.page \in Nat \ {0} /\ u.size \in Nat \ {0}
    /\ u.page = 1 => u.cursor = None

UrlsFit ==
    /\ IsRowsUi(ui) /\ db.live \subseteq ListCase.rows
    /\ IsUrl(ui.url) /\ \E S : ui.back \in Seq(S) /\ \A u \in S : IsUrl(u)
    /\ 1 \in DOMAIN ui.cursors /\ ui.cursors[1] = None

\* On a walk the cursors of the pages it came by go on from what was shown before them,
PagesGoOn == \A m \in 2..ui.url.page : m \in DOMAIN ui.cursors /\ ui.cursors[m] # None /\ ShownOrAfter(ui.cursors[m])

\* and so does the one for the next page.
WalkInv ==
    /\ UrlsFit
    /\ ui.walk # None => PagesGoOn /\ (seen.list # NoData => ShownOrAfter(List!NextCursor))

\* The same goes on as long as the list, the URL and the walk stay, and rows are only deleted.
LEMMA SameGoesOn ==
    ASSUME WalkInv, IsRowsUi(ui'), seen' = seen, db'.live \subseteq db.live, ui'.url = ui.url,
           ui'.period = ui.period, ui'.cursors = ui.cursors, ui'.walk = ui.walk, ui'.back = ui.back
    PROVE  WalkInv'
<1>1. List!Matching(ui.url.type, ui.period)' \subseteq List!Matching(ui.url.type, ui.period)
  BY DEF List!Matching
<1>2. \A c : ShownOrAfter(c) => ShownOrAfter(c)'
  BY <1>1 DEF ShownOrAfter
<1>3. List!NextCursor' = List!NextCursor
  BY DEF List!NextCursor
<1>4. UrlsFit'
  BY DEF WalkInv, UrlsFit
<1> QED  BY <1>2, <1>3, <1>4 DEF WalkInv, PagesGoOn

\* Going to another URL with the old one in the history.
LEMMA GotoFits ==
    ASSUME UrlsFit, NEW u, IsUrl(u), NEW c, 1 \in DOMAIN c, c[1] = None, db' = db, IsRowsUi(ui'),
           ui'.url = u, ui'.cursors = c, ui'.back = Append(ui.back, ui.url)
    PROVE  UrlsFit'
<1>1. PICK S : ui.back \in Seq(S) /\ \A v \in S : IsUrl(v)
  BY DEF UrlsFit
<1>2. ui'.back \in Seq(S \cup {ui.url}) /\ \A v \in S \cup {ui.url} : IsUrl(v)
  <2>1. ui.back \in Seq(S \cup {ui.url})
    BY <1>1
  <2>2. Append(ui.back, ui.url) \in Seq(S \cup {ui.url})
    BY <2>1
  <2> QED  BY <1>1, <2>2 DEF UrlsFit
<1> QED  BY <1>2 DEF UrlsFit

\* Another page of the same list goes on where those before it do.
LEMMA GotoGoesOn ==
    ASSUME WalkInv, NEW u, IsUrl(u), NEW c, 1 \in DOMAIN c, c[1] = None, List!Goto(u, c, ui.walk),
           u.type = ui.url.type, u.sort = ui.url.sort,
           ui.walk # None => \A m \in 2..u.page : m \in DOMAIN c /\ c[m] # None /\ ShownOrAfter(c[m])
    PROVE  WalkInv'
<1>1. /\ db' = db /\ seen' = [list |-> NoData]
      /\ ui' = [ui EXCEPT !.url = u, !.back = Append(@, ui.url), !.cursors = c, !.walk = ui.walk, !.moves = @ + 1]
  BY DEF List!Goto
<1>2. IsRowsUi(ui') /\ ui'.url = u /\ ui'.cursors = c /\ ui'.walk = ui.walk /\ ui'.period = ui.period
      /\ ui'.back = Append(ui.back, ui.url)
  BY <1>1 DEF WalkInv, UrlsFit, IsRowsUi
<1>3. UrlsFit'
  BY <1>1, <1>2, GotoFits DEF WalkInv
<1>4. seen'.list = NoData
  BY <1>1
<1>5. List!Matching(ui.url.type, ui.period)' = List!Matching(ui.url.type, ui.period)
  BY <1>1, <1>2 DEF List!Matching
<1>6. \A d : ShownOrAfter(d) => ShownOrAfter(d)'
  BY <1>2, <1>5 DEF ShownOrAfter
<1> QED  BY <1>2, <1>3, <1>4, <1>6 DEF WalkInv, PagesGoOn

\* A URL of the same list with another page is one.
LEMMA UrlTurned ==
    ASSUME NEW url, IsUrl(url), NEW u, IsShaped(u), u.page \in Nat \ {0}, u.page = 1 => u.cursor = None,
           u.type = url.type, u.sort = url.sort, u.size = url.size
    PROVE  IsUrl(u)
BY DEF IsUrl, IsShaped

\* Turning the page.
LEMMA PageTurned == ASSUME WalkInv, List!GoNext \/ List!GoPrev PROVE WalkInv'
<1>1. IsUrl(ui.url) /\ 1 \in DOMAIN ui.cursors /\ ui.cursors[1] = None
  BY DEF WalkInv, UrlsFit
<1>2. CASE List!GoNext
  <2> DEFINE n == ui.url.page + 1
             next == List!NextCursor
             u == [ui.url EXCEPT !.page = n, !.cursor = next]
             c == [m \in DOMAIN ui.cursors \cup {n} |-> IF m = n THEN next ELSE ui.cursors[m]]
  <2>1. List!Items # {} /\ next # None /\ List!Goto(u, c, ui.walk)
    BY <1>2 DEF List!GoNext
  <2>2. seen.list # NoData
    BY <2>1 DEF List!Items
  <2>3. n \in Nat /\ n > 1
    BY <1>1 DEF IsUrl
  <2>4. IsUrl(u) /\ u.page = n /\ u.type = ui.url.type /\ u.sort = ui.url.sort
    <3>1. n \in Nat \ {0} /\ n # 1
      BY <2>3
    <3> HIDE DEF n, next
    <3>2. u = [ui.url EXCEPT !.page = n, !.cursor = next]
      BY DEF u
    <3>3. IsShaped(ui.url)
      BY <1>1 DEF IsUrl
    <3> HIDE DEF u
    <3>4. IsShaped(u) /\ u.type = ui.url.type /\ u.sort = ui.url.sort /\ u.size = ui.url.size
          /\ u.page = n /\ u.cursor = next
      BY ONLY <3>2, <3>3 DEF IsShaped
    <3> QED  BY <1>1, <3>1, <3>4, UrlTurned
  <2> HIDE DEF next, u
  <2>5. 1 \in DOMAIN c /\ c[1] = None
    BY <1>1, <2>3
  <2>6. ASSUME ui.walk # None, NEW m \in 2..n PROVE m \in DOMAIN c /\ c[m] # None /\ ShownOrAfter(c[m])
    <3>1. CASE m = n
      BY <2>1, <2>2, <2>6, <3>1 DEF WalkInv, next
    <3>2. CASE m # n
      <4>1. m \in 2..ui.url.page
        BY <1>1, <3>2 DEF IsUrl
      <4>2. c[m] = ui.cursors[m] /\ m \in DOMAIN ui.cursors
        BY <2>6, <3>2, <4>1 DEF WalkInv, PagesGoOn
      <4> QED  BY <2>6, <4>1, <4>2 DEF WalkInv, PagesGoOn
    <3> QED  BY <3>1, <3>2
  <2> HIDE DEF c, n
  <2> QED  BY <2>1, <2>4, <2>5, <2>6, GotoGoesOn
<1>3. CASE List!GoPrev
  <2> DEFINE n == IF ui.url.page - 1 \in DOMAIN ui.cursors THEN ui.url.page - 1 ELSE 1
             cursor == ui.cursors[n]
             u == [ui.url EXCEPT !.page = n, !.cursor = cursor]
  <2>1. ui.url.page > 1 /\ List!Goto(u, ui.cursors, ui.walk)
    BY <1>3 DEF List!GoPrev
  <2>2. n \in Nat \ {0} /\ n <= ui.url.page /\ n \in DOMAIN ui.cursors
    BY <1>1, <2>1 DEF IsUrl
  <2>3. IsUrl(u) /\ u.page = n /\ u.type = ui.url.type /\ u.sort = ui.url.sort
    <3>1. IsUrl(ui.url) /\ n \in Nat \ {0} /\ (n = 1 => cursor = None)
      BY <1>1, <2>2
    <3> HIDE DEF n, cursor
    <3>2. u = [ui.url EXCEPT !.page = n, !.cursor = cursor]
      BY DEF u
    <3>3. IsShaped(ui.url)
      BY <1>1 DEF IsUrl
    <3> HIDE DEF u
    <3>4. IsShaped(u) /\ u.type = ui.url.type /\ u.sort = ui.url.sort /\ u.size = ui.url.size
          /\ u.page = n /\ u.cursor = cursor
      BY ONLY <3>2, <3>3 DEF IsShaped
    <3> QED  BY <3>1, <3>4, UrlTurned
  <2> HIDE DEF u, n
  <2>4. ASSUME ui.walk # None, NEW m \in 2..n
        PROVE  m \in DOMAIN ui.cursors /\ ui.cursors[m] # None /\ ShownOrAfter(ui.cursors[m])
    <3>1. m \in 2..ui.url.page
      BY <1>1, <2>2 DEF IsUrl
    <3> QED  BY <2>4, <3>1 DEF WalkInv, PagesGoOn
  <2> QED  BY <1>1, <2>1, <2>3, <2>4, GotoGoesOn
<1> QED  BY <1>2, <1>3

\* The first page of the list is one of its URLs,
LEMMA FirstPageIsUrl ==
    ASSUME NEW url, IsUrl(url)
    PROVE  LET u == List!FirstPage(url)
           IN  IsUrl(u) /\ u.page = 1
<1> DEFINE u == List!FirstPage(url)
<1>1. PICK p : p = 1
  OBVIOUS
<1>2. u = [url EXCEPT !.page = p, !.cursor = None] /\ IsShaped(url)
  BY Zenon, <1>1 DEF List!FirstPage, IsUrl
<1> HIDE DEF u
<1>3. IsShaped(u) /\ u.type = url.type /\ u.sort = url.sort /\ u.size = url.size /\ u.page = p /\ u.cursor = None
  BY ONLY <1>2 DEF IsShaped
<1> QED  BY <1>1, <1>3, UrlTurned DEF u

\* and what is asked for anew starts the walk again.
LEMMA StartsAgain ==
    ASSUME WalkInv, UrlsFit', ui'.url.page = 1 \/ ui'.walk = None, seen' = [list |-> NoData]
    PROVE  WalkInv'
<1>1. ui'.url.page = 1 => 2..ui'.url.page = {}
  OBVIOUS
<1>2. seen'.list = NoData
  OBVIOUS
<1> QED  BY <1>1, <1>2 DEF WalkInv, PagesGoOn

\* Filters, an order and a size of the page.
LEMMA ListRestarted ==
    ASSUME WalkInv,
           \/ List!ApplyFilters \/ List!ClearFilters
           \/ (\E n \in ListCase.sizes : List!ChangePageSize(n)) \/ (\E sort : List!ChangeSort(sort))
    PROVE  WalkInv'
<1> DEFINE first == List!FirstPage(ui.url)
           Restarts ==
             \E u : /\ \/ \E v : u = [first EXCEPT !.type = v]
                       \/ \E v : u = [first EXCEPT !.sort = v]
                       \/ \E v \in ListCase.sizes : u = [first EXCEPT !.size = v]
                    /\ \/ ui' = [ui EXCEPT !.url = u, !.back = Append(@, ui.url), !.cursors = List!FreshCursors,
                                          !.walk = ui.walk, !.moves = @ + 1]
                       \/ ui' = [ui EXCEPT !.url = u, !.filters = FALSE, !.back = Append(@, ui.url),
                                          !.cursors = List!FreshCursors, !.moves = @ + 1]
                       \/ ui' = [ui EXCEPT !.url = u, !.pending = None, !.back = Append(@, ui.url),
                                          !.cursors = List!FreshCursors, !.moves = @ + 1]
<1>1. Restarts /\ db' = db /\ seen' = [list |-> NoData]
  BY Zenon DEF List!ApplyFilters, List!ClearFilters, List!ChangePageSize, List!ChangeSort, List!Goto
<1>2. IsUrl(first) /\ first.page = 1
  BY FirstPageIsUrl DEF WalkInv, UrlsFit
<1> HIDE DEF first
<1>3. PICK u : /\ \/ \E v : u = [first EXCEPT !.type = v]
                  \/ \E v : u = [first EXCEPT !.sort = v]
                  \/ \E v \in ListCase.sizes : u = [first EXCEPT !.size = v]
               /\ \/ ui' = [ui EXCEPT !.url = u, !.back = Append(@, ui.url), !.cursors = List!FreshCursors,
                                     !.walk = ui.walk, !.moves = @ + 1]
                  \/ ui' = [ui EXCEPT !.url = u, !.filters = FALSE, !.back = Append(@, ui.url),
                                     !.cursors = List!FreshCursors, !.moves = @ + 1]
                  \/ ui' = [ui EXCEPT !.url = u, !.pending = None, !.back = Append(@, ui.url),
                                     !.cursors = List!FreshCursors, !.moves = @ + 1]
  BY <1>1
<1>4. IsUrl(u) /\ u.page = 1
  <2>1. IsShaped(first) /\ first.page = 1 /\ first.cursor = None /\ first.size \in Nat \ {0}
    BY <1>2 DEF IsUrl
  <2>2. IsShaped(u) /\ u.page = first.page /\ u.cursor = first.cursor
        /\ u.size \in {first.size} \cup ListCase.sizes
    BY <1>3, <2>1 DEF IsShaped
  <2> QED  BY <2>1, <2>2, ListAssumption DEF IsUrl
<1>5. IsRowsUi(ui') /\ ui'.url = u /\ ui'.cursors = List!FreshCursors /\ ui'.back = Append(ui.back, ui.url)
  BY <1>3 DEF WalkInv, UrlsFit, IsRowsUi
<1>6. 1 \in DOMAIN List!FreshCursors /\ List!FreshCursors[1] = None
  BY DEF List!FreshCursors
<1>7. UrlsFit'
  BY <1>1, <1>4, <1>5, <1>6, GotoFits DEF WalkInv
<1> QED  BY <1>1, <1>4, <1>5, <1>7, StartsAgain

\* The browser's history, its reload, and the period.
LEMMA WalkBroken ==
    ASSUME WalkInv, List!BrowserBack \/ List!Reload \/ \E period : List!ChangePeriod(period)
    PROVE  WalkInv'
<1>1. /\ IsRowsUi(ui) /\ db.live \subseteq ListCase.rows /\ IsUrl(ui.url)
      /\ 1 \in DOMAIN ui.cursors /\ ui.cursors[1] = None
  BY DEF WalkInv, UrlsFit
<1>2. PICK S : ui.back \in Seq(S) /\ \A u \in S : IsUrl(u)
  BY DEF WalkInv, UrlsFit
<1>3. db' = db /\ seen' = [list |-> NoData]
  BY DEF List!BrowserBack, List!Reload, List!ChangePeriod
<1>4. CASE List!BrowserBack
  <2> DEFINE u == List!Last(ui.back)
             rest == List!Front(ui.back)
  <2>1. /\ ui.back # <<>>
        /\ ui' = [ui EXCEPT !.url = u, !.back = rest, !.walk = List!BrokenWalk(u.page), !.moves = @ + 1]
    BY <1>4 DEF List!BrowserBack
  <2>2. u \in S /\ rest \in Seq(S)
    BY <1>2, <2>1 DEF List!Last, List!Front
  <2> HIDE DEF u, rest
  <2>3. /\ IsRowsUi(ui') /\ ui'.url = u /\ ui'.back = rest /\ ui'.cursors = ui.cursors
        /\ ui'.walk = List!BrokenWalk(u.page)
    BY <1>1, <2>1 DEF IsRowsUi
  <2>4. UrlsFit'
    BY <1>1, <1>2, <1>3, <2>2, <2>3 DEF UrlsFit
  <2> QED  BY <1>3, <2>3, <2>4, StartsAgain DEF List!BrokenWalk
<1>5. CASE List!Reload
  <2>1. /\ IsRowsUi(ui') /\ ui'.url = ui.url /\ ui'.back = ui.back /\ ui'.cursors = List!CursorsOf(ui.url)
        /\ ui'.walk = List!BrokenWalk(ui.url.page)
    BY <1>5 DEF List!Reload, List!Entered, IsRowsUi
  <2>2. 1 \in DOMAIN List!CursorsOf(ui.url) /\ List!CursorsOf(ui.url)[1] = None
    BY DEF List!CursorsOf, List!FreshCursors
  <2>3. UrlsFit'
    BY <1>1, <1>2, <1>3, <2>1, <2>2 DEF UrlsFit
  <2> QED  BY <1>3, <2>1, <2>3, StartsAgain DEF List!BrokenWalk
<1>6. CASE \E period : List!ChangePeriod(period)
  <2>1. \E period : ui' = [ui EXCEPT !.period = period, !.walk = List!BrokenWalk(ui.url.page), !.moves = @ + 1]
    BY <1>6 DEF List!ChangePeriod
  <2>2. /\ IsRowsUi(ui') /\ ui'.url = ui.url /\ ui'.back = ui.back /\ ui'.cursors = ui.cursors
        /\ ui'.walk = List!BrokenWalk(ui.url.page)
    BY <1>1, <2>1 DEF IsRowsUi
  <2>3. UrlsFit'
    BY <1>1, <1>2, <1>3, <2>2 DEF UrlsFit
  <2> QED  BY <1>3, <2>2, <2>3, StartsAgain DEF List!BrokenWalk
<1> QED  BY <1>4, <1>5, <1>6

\* What the user does in a row, and the calls, leave the walk alone.
LEMMA WalkLeftAlone ==
    ASSUME WalkInv,
           \/ List!ToggleFilters \/ List!TypeDesc \/ List!SaveEditDesc \/ List!CancelEditDesc
           \/ List!CloseDrawer \/ List!ConfirmDelete \/ List!CancelDelete \/ List!CloseBlocked
           \/ (\E type : List!ChooseType(type)) \/ (\E t : List!RowUser(t))
           \/ \E k : List!ServeRow(k) \/ List!AnswerRow(k) \/ List!RefuseRow(k) \/ List!FailRow(k)
    PROVE  WalkInv'
<1> DEFINE Elsewhere(new) ==
               \/ \E v : new = [ui EXCEPT !.filters = v]
               \/ \E v : new = [ui EXCEPT !.pending = v]
               \/ \E v : new = [ui EXCEPT !.edit = v]
               \/ \E v : new = [ui EXCEPT !.edit.text = v]
               \/ \E v : new = [ui EXCEPT !.drawer = v]
               \/ \E v : new = [ui EXCEPT !.deleting = v]
               \/ \E v : new = [ui EXCEPT !.blocked = v]
               \/ \E v, w : new = [[ui EXCEPT !.deleting = v] EXCEPT !.blocked = w]
               \/ \E v, w : new = [[ui EXCEPT !.edit = v] EXCEPT !.blocked = w]
<1>1. ui = [url |-> ui.url, pending |-> ui.pending, cursors |-> ui.cursors, filters |-> ui.filters,
            deleting |-> ui.deleting, blocked |-> ui.blocked, drawer |-> ui.drawer, edit |-> ui.edit,
            period |-> ui.period, walk |-> ui.walk, back |-> ui.back, moves |-> ui.moves]
  BY DEF WalkInv, UrlsFit, IsRowsUi
<1>2. CASE (ui' = ui \/ Elsewhere(ui')) /\ seen' = seen /\ db'.live \subseteq db.live
  <2>1. /\ IsRowsUi(ui') /\ ui'.url = ui.url /\ ui'.period = ui.period /\ ui'.cursors = ui.cursors
        /\ ui'.walk = ui.walk /\ ui'.back = ui.back
    BY <1>1, <1>2 DEF IsRowsUi
  <2> QED  BY <1>2, <2>1, SameGoesOn
<1>3. CASE \/ List!ToggleFilters \/ List!TypeDesc \/ List!CancelEditDesc
           \/ List!CloseDrawer \/ List!CancelDelete \/ List!CloseBlocked
           \/ (\E type : List!ChooseType(type)) \/ (\E t : List!RowUser(t))
  <2>1. \E new : Elsewhere(new) /\ List!Locally(new)
    <3>1. List!ToggleFilters \/ (\E type : List!ChooseType(type)) => \E new : Elsewhere(new) /\ List!Locally(new)
      BY Zenon DEF List!ToggleFilters, List!ChooseType
    <3>2. List!TypeDesc \/ List!CancelEditDesc \/ List!CloseDrawer => \E new : Elsewhere(new) /\ List!Locally(new)
      BY Zenon DEF List!TypeDesc, List!CancelEditDesc, List!CloseDrawer
    <3>3. List!CancelDelete \/ List!CloseBlocked => \E new : Elsewhere(new) /\ List!Locally(new)
      BY Zenon DEF List!CancelDelete, List!CloseBlocked
    <3>4. (\E t : List!RowUser(t)) => \E new : Elsewhere(new) /\ List!Locally(new)
      BY Zenon DEF List!RowUser, List!StartEditDesc, List!OpenDrawer, List!OpenDelete
    <3> QED  BY Zenon, <1>3, <3>1, <3>2, <3>3, <3>4
  <2>2. Elsewhere(ui') /\ seen' = seen /\ db' = db
    BY Zenon, <2>1 DEF List!Locally
  <2> HIDE DEF Elsewhere
  <2> QED  BY <1>2, <2>2
<1>4. CASE List!SaveEditDesc \/ List!ConfirmDelete
  <2>1. (ui' = ui \/ Elsewhere(ui')) /\ seen' = seen /\ db' = db
    BY Zenon, <1>4 DEF List!SaveEditDesc, List!ConfirmDelete, List!Sends, List!Locally
  <2> HIDE DEF Elsewhere
  <2> QED  BY <1>2, <2>1
<1>5. CASE \E k : List!ServeRow(k) \/ List!AnswerRow(k) \/ List!RefuseRow(k) \/ List!FailRow(k)
  <2>1. PICK k : List!ServeRow(k) \/ List!AnswerRow(k) \/ List!RefuseRow(k) \/ List!FailRow(k)
    BY <1>5
  <2>2. CASE List!ServeRow(k)
    <3>1. db' = List!RowResult(k) /\ seen' = seen /\ ui' = ui
      BY <2>2 DEF List!ServeRow, List!Serve
    <3>2. db'.live \subseteq db.live
      BY <3>1 DEF List!RowResult
    <3> HIDE DEF Elsewhere
    <3> QED  BY <1>2, <3>1, <3>2
  <2>3. CASE List!AnswerRow(k) \/ List!RefuseRow(k) \/ List!FailRow(k)
    <3>1. /\ ui' = List!HeardRow(k) \/ ui' = [List!HeardRow(k) EXCEPT !.blocked = TRUE]
          /\ seen' = seen /\ db' = db
      BY Zenon, <2>3 DEF List!AnswerRow, List!RefuseRow, List!FailRow, List!Returns, List!Fails
    <3>2. List!HeardRow(k) = [ui EXCEPT !.deleting = None] \/ List!HeardRow(k) = [ui EXCEPT !.edit = List!NoEdit]
      BY DEF List!HeardRow
    <3>3. Elsewhere(ui')
      BY Zenon, <3>1, <3>2
    <3> HIDE DEF Elsewhere
    <3> QED  BY <1>2, <3>1, <3>3
  <2> QED  BY <2>1, <2>2, <2>3
<1> QED  BY <1>3, <1>4, <1>5

\* The list fetched adds its rows to the walk.
LEMMA WalkFetches == ASSUME NoCursor, WalkInv, List!FetchList PROVE WalkInv'
<1> DEFINE cursor == List!CursorOf(ui.url)
           answer == List!ListAnswer(ui.url, ui.period, cursor)
           walk == IF answer = NoData THEN None ELSE List!WalkedTo(answer)
           Wanted == List!Matching(ui.url.type, ui.period)
<1>1. /\ IsRowsUi(ui) /\ db.live \subseteq ListCase.rows /\ IsUrl(ui.url)
      /\ 1 \in DOMAIN ui.cursors /\ ui.cursors[1] = None
  BY DEF WalkInv, UrlsFit
<1>2. seen' = [list |-> answer] /\ ui' = [ui EXCEPT !.walk = walk] /\ db' = db
  BY DEF List!FetchList
<1> HIDE DEF walk, answer
<1>3. /\ IsRowsUi(ui') /\ ui'.url = ui.url /\ ui'.period = ui.period /\ ui'.cursors = ui.cursors
      /\ ui'.back = ui.back /\ ui'.walk = walk /\ seen'.list = answer
  BY <1>1, <1>2 DEF IsRowsUi
<1>4. UrlsFit'
  BY <1>2, <1>3 DEF WalkInv, UrlsFit
<1>5. List!Matching(ui.url.type, ui.period)' = Wanted
  BY <1>2, <1>3 DEF List!Matching
<1>6. ASSUME walk # None
      PROVE  /\ answer # NoData /\ List!Decodes(cursor, ui.url.sort)
             /\ ui.url.page = 1 => cursor = None /\ walk = List!ToSet(answer.items)
             /\ ui.url.page # 1 => ui.walk # None /\ walk = ui.walk \cup List!ToSet(answer.items)
                                  /\ ui.cursors[ui.url.page] # None /\ ShownOrAfter(cursor)
  <2>1. answer # NoData /\ walk = List!WalkedTo(answer)
    BY <1>6 DEF walk
  <2>2. List!Decodes(cursor, ui.url.sort)
    BY <2>1 DEF answer, List!ListAnswer
  <2>3. ASSUME ui.url.page = 1 PROVE cursor = None /\ walk = List!ToSet(answer.items)
    BY <1>1, <2>1, <2>3 DEF List!CursorOf, List!WalkedTo, IsUrl
  <2>4. ASSUME ui.url.page # 1
        PROVE  ui.walk # None /\ walk = ui.walk \cup List!ToSet(answer.items)
               /\ ui.cursors[ui.url.page] # None /\ ShownOrAfter(cursor)
    <3>1. ui.walk # None /\ walk = ui.walk \cup List!ToSet(answer.items)
      BY <1>6, <2>1, <2>4 DEF List!WalkedTo
    <3>2. ui.url.page \in 2..ui.url.page
      BY <1>1, <2>4 DEF IsUrl
    <3>3. /\ ui.url.page \in DOMAIN ui.cursors /\ ui.cursors[ui.url.page] # None
          /\ ShownOrAfter(ui.cursors[ui.url.page])
      BY <3>1, <3>2 DEF WalkInv, PagesGoOn
    <3>4. cursor = ui.cursors[ui.url.page]
      BY <3>3 DEF List!CursorOf
    <3> QED  BY <3>1, <3>3, <3>4
  <2> QED  BY <2>1, <2>2, <2>3, <2>4
<1> HIDE DEF cursor
<1>7. ASSUME walk # None, NEW t \in Wanted
      PROVE  t \in walk \/ (answer.next # None /\ List!Before(answer.next.row, t, ui.url.sort))
  <2>1. t \in walk \/ t \in List!After(Wanted, cursor, ui.url.sort)
    BY <1>6, <1>7 DEF ShownOrAfter, List!After
  <2>2. List!ToSet(answer.items) \subseteq walk
    BY <1>6, <1>7
  <2>3. ASSUME t \in List!After(Wanted, cursor, ui.url.sort)
        PROVE  \/ t \in List!ToSet(answer.items)
               \/ answer.next # None /\ List!Before(answer.next.row, t, ui.url.sort)
    BY <1>1, <1>6, <1>7, <2>3, AnswerGoesOn DEF IsUrl, answer
  <2> QED  BY <2>1, <2>2, <2>3
<1>8. ASSUME walk # None PROVE ShownOrAfter(List!NextCursor)'
  <2>1. List!NextCursor' = answer.next
    BY <1>3, <1>6, <1>8 DEF List!NextCursor
  <2> HIDE DEF Wanted
  <2> QED  BY <1>3, <1>5, <1>7, <1>8, <2>1 DEF ShownOrAfter
<1>9. ASSUME walk # None PROVE PagesGoOn'
  <2>1. ASSUME NEW m \in 2..ui.url.page
        PROVE  m \in DOMAIN ui.cursors /\ ui.cursors[m] # None /\ ShownOrAfter(ui.cursors[m])'
    <3>1. ui.url.page # 1
      BY <1>1 DEF IsUrl
    <3>2. ui.walk # None /\ ui.walk \subseteq walk
      BY <1>6, <1>9, <3>1
    <3>3. m \in DOMAIN ui.cursors /\ ui.cursors[m] # None /\ ShownOrAfter(ui.cursors[m])
      BY <3>2 DEF WalkInv, PagesGoOn
    <3> QED  BY <1>3, <1>5, <3>2, <3>3 DEF ShownOrAfter
  <2> QED  BY <1>3, <2>1 DEF PagesGoOn
<1> QED  BY <1>3, <1>4, <1>8, <1>9 DEF WalkInv

\* The walk begins with the first page,
LEMMA WalkInit == ASSUME List!ListInit PROVE WalkInv
<1>1. /\ db.live = ListCase.rows /\ ui.url = List!NewUrl /\ ui.cursors = List!FreshCursors /\ ui.back = <<>>
      /\ ui.walk = None /\ IsRowsUi(ui)
  BY DEF List!ListInit, IsRowsUi
<1>2. IsUrl(List!NewUrl)
  BY DEF IsUrl, IsShaped, List!NewUrl, List!DefaultSize
<1>3. ui.back \in Seq({})
  BY <1>1
<1> QED  BY <1>1, <1>2, <1>3 DEF WalkInv, UrlsFit, List!FreshCursors

\* goes on at each step,
LEMMA WalkStep == ASSUME NoCursor, WalkInv, List!ListNext PROVE WalkInv'
<1>1. List!ListUser => WalkInv'
  BY PageTurned, ListRestarted, WalkBroken, WalkLeftAlone DEF List!ListUser
<1> QED  BY <1>1, WalkLeftAlone, WalkFetches DEF List!ListNext

\* when nothing happens,
LEMMA WalkStutter == ASSUME WalkInv, UNCHANGED <<page, db, seen, due, ui, call, lost>> PROVE WalkInv'
BY SameGoesOn DEF WalkInv, UrlsFit

\* and has shown every row when there is no next page.
LEMMA WalkShown == ASSUME WalkInv PROVE List!WalkShowsAll
BY DEF WalkInv, ShownOrAfter, List!WalkShowsAll
=============================================================================

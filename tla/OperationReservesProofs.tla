------------------------ MODULE OperationReservesProofs ------------------------
(***************************************************************************)
(* The reserves of an operation, for any entries, charges, nesting, bounds  *)
(* and number of threads.                                                  *)
(*                                                                         *)
(* Preparation: only the innermost call of a worker looks, waits or has    *)
(* ended; those below it build.  So a step changes who builds what at the  *)
(* top of one stack, under the lock that also keeps the events (FInv); and *)
(* nothing is cached while it is being built, so that what a build enters  *)
(* is new and its charge is added once (PInv).                             *)
(*                                                                         *)
(* Memo: the scope of a fresh verification is nobody else's (ScopesApart), *)
(* so that all it holds was found by that verification; its frames show    *)
(* how far it has come, and what they have passed over was good when it    *)
(* began (ChecksSound).                                                    *)
(***************************************************************************)
EXTENDS OperationReserves, SequenceTheorems, FiniteSetTheorems, WellFoundedInduction, TLAPS

Calls == [locator : Locators, step : CallSteps, inner : SUBSET Locators]

\* Call i of a stack is in charge of building l.
Builds(stack, i, l) ==
    i \in 1 .. Len(stack) /\ stack[i].locator = l /\ stack[i].step \in {"build", "built"}

Stacked ==
    /\ stacks \in [Workers -> Seq(Calls)]
    /\ \A w \in Workers : \A i \in 1 .. Len(stacks[w]) - 1 : stacks[w][i].step = "build"

Flights ==
    /\ inFlight \subseteq Locators
    /\ \A w \in Workers, i \in Nat, l \in Locators : Builds(stacks[w], i, l) => l \in inFlight
    /\ \A l \in inFlight : \E w \in Workers, i \in Nat : Builds(stacks[w], i, l)
    /\ \A v, w \in Workers, i, j \in Nat, l \in Locators :
           Builds(stacks[v], i, l) /\ Builds(stacks[w], j, l) => v = w /\ i = j

FInv == Stacked /\ Flights

\* A stack whose innermost call has returned.
LEMMA ReturnedStack ==
    ASSUME NEW s \in Seq(Calls), s # <<>>
    PROVE  /\ Returned(s) \in Seq(Calls)
           /\ Len(s) \in Nat \ {0}
           /\ Len(Returned(s)) = Len(s) - 1
           /\ \A i \in 1 .. Len(s) - 1 : Returned(s)[i] = s[i]
  <1> DEFINE n == Len(s) - 1
  <1>1. Len(s) \in Nat \ {0} /\ \A i \in 1 .. Len(s) : s[i] \in Calls
    BY EmptySeq, ElementOfSeq
  <1>2. n \in Int /\ \A i \in 1 .. n : s[i] \in Calls
    BY <1>1
  <1>3. n \in Nat
    BY <1>1
  <1> HIDE DEF n
  <1>4. n - 1 + 1 = n /\ (IF 1 <= n THEN n - 1 + 1 ELSE 0) = n
    BY <1>3
  <1>5. /\ SubSeq(s, 1, n) \in Seq(Calls)
        /\ Len(SubSeq(s, 1, n)) = IF 1 <= n THEN n - 1 + 1 ELSE 0
        /\ \A i \in 1 .. n - 1 + 1 : SubSeq(s, 1, n)[i] = s[1 + i - 1]
    BY <1>2, SubSeqProperties
  <1>6. \A i \in 1 .. n : SubSeq(s, 1, n)[i] = s[i]
    BY <1>3, <1>4, <1>5
  <1>7. Returned(s) = SubSeq(s, 1, n)
    BY DEF Returned, n
  <1> QED
    BY <1>1, <1>4, <1>5, <1>6, <1>7 DEF n

\* A stack whose innermost call has gone on.
LEMMA ChangedStack ==
    ASSUME NEW s \in Seq(Calls), s # <<>>, NEW call \in Calls
    PROVE  LET t == [s EXCEPT ![Len(s)] = call] IN
           /\ t \in Seq(Calls)
           /\ Len(s) \in Nat \ {0}
           /\ Len(t) = Len(s)
           /\ t[Len(s)] = call
           /\ \A i \in 1 .. Len(s) - 1 : t[i] = s[i]
  <1>1. Len(s) \in Nat \ {0}
    BY EmptySeq
  <1>2. Len(s) \in 1 .. Len(s)
    BY <1>1
  <1> QED
    BY <1>1, <1>2, ExceptSeq

\* Stacks that build what they built, with the events that there were.
LEMMA SameBuilds ==
    ASSUME Flights, inFlight' = inFlight,
           \A w \in Workers, i \in Nat, l \in Locators :
               Builds(stacks[w], i, l)' <=> Builds(stacks[w], i, l)
    PROVE  Flights'
  BY DEF Flights

\* One stack changes, and builds what it built.
LEMMA OwnStack ==
    ASSUME FInv, NEW w \in Workers, NEW t \in Seq(Calls),
           stacks' = [stacks EXCEPT ![w] = t], inFlight' = inFlight,
           \A i \in 1 .. Len(t) - 1 : t[i].step = "build",
           \A i \in Nat, l \in Locators : Builds(t, i, l) <=> Builds(stacks[w], i, l)
    PROVE  FInv'
  <1>1. \A v \in Workers : stacks'[v] = IF v = w THEN t ELSE stacks[v]
    BY DEF FInv, Stacked
  <1>2. Stacked'
    BY <1>1 DEF FInv, Stacked
  <1>3. \A v \in Workers, i \in Nat, l \in Locators :
            Builds(stacks[v], i, l)' <=> Builds(stacks[v], i, l)
    BY <1>1 DEF Builds
  <1> QED
    BY <1>2, <1>3, SameBuilds DEF FInv

\* The innermost call of an active worker.
LEMMA TopFacts ==
    ASSUME Stacked, NEW w \in Workers, Active(w)
    PROVE  /\ stacks[w] \in Seq(Calls)
           /\ stacks[w] # <<>>
           /\ Len(stacks[w]) \in Nat \ {0}
           /\ Top(w) = stacks[w][Len(stacks[w])]
           /\ Top(w) \in Calls
  <1>1. stacks[w] \in Seq(Calls) /\ stacks[w] # <<>>
    BY DEF Stacked, Active
  <1>2. Len(stacks[w]) \in Nat \ {0}
    BY <1>1, EmptySeq
  <1> QED
    BY <1>1, <1>2, ElementOfSeq DEF Top

\* A call that builds nothing returns.
LEMMA TopReturns ==
    ASSUME FInv, NEW w \in Workers, Active(w), Returns(w), inFlight' = inFlight,
           Top(w).step \notin {"build", "built"}
    PROVE  FInv'
  <1> DEFINE s == stacks[w]
             t == Returned(s)
  <1>1. s \in Seq(Calls) /\ s # <<>> /\ Top(w) = s[Len(s)]
    BY TopFacts DEF FInv
  <1>2. t \in Seq(Calls) /\ Len(s) \in Nat \ {0} /\ Len(t) = Len(s) - 1
            /\ \A i \in 1 .. Len(s) - 1 : t[i] = s[i]
    BY <1>1, ReturnedStack
  <1>3. stacks' = [stacks EXCEPT ![w] = t]
    BY DEF Returns
  <1>4. \A i \in 1 .. Len(t) - 1 : t[i].step = "build"
    BY <1>2 DEF FInv, Stacked
  <1>5. \A i \in Nat, l \in Locators : Builds(t, i, l) <=> Builds(s, i, l)
    BY <1>1, <1>2 DEF Builds
  <1> HIDE DEF t
  <1> QED
    BY <1>2, <1>3, <1>4, <1>5, OwnStack

\* A call goes on, and builds if it built.
LEMMA TopChanges ==
    ASSUME FInv, NEW w \in Workers, Active(w), NEW call \in Calls, Becomes(w, call),
           inFlight' = inFlight, call.locator = Top(w).locator,
           call.step \in {"build", "built"} <=> Top(w).step \in {"build", "built"}
    PROVE  FInv'
  <1> DEFINE s == stacks[w]
             t == [s EXCEPT ![Len(s)] = call]
  <1>1. s \in Seq(Calls) /\ s # <<>> /\ Top(w) = s[Len(s)]
    BY TopFacts DEF FInv
  <1>2. t \in Seq(Calls) /\ Len(s) \in Nat \ {0} /\ Len(t) = Len(s)
            /\ t[Len(s)] = call /\ \A i \in 1 .. Len(s) - 1 : t[i] = s[i]
    BY <1>1, ChangedStack
  <1>3. stacks' = [stacks EXCEPT ![w] = t]
    BY DEF Becomes
  <1>4. \A i \in 1 .. Len(t) - 1 : t[i].step = "build"
    BY <1>2 DEF FInv, Stacked
  <1>5. \A i \in Nat, l \in Locators : Builds(t, i, l) <=> Builds(s, i, l)
    BY <1>1, <1>2 DEF Builds
  <1> HIDE DEF t
  <1> QED
    BY <1>2, <1>3, <1>4, <1>5, OwnStack

-----------------------------------------------------------------------------
(* The steps of a worker. *)

\* The first to miss takes charge, while nobody else is.
LEMMA StartBuildFlies == ASSUME FInv, NEW w \in Workers, StartBuild(w) PROVE FInv'
  <1> DEFINE s == stacks[w]
             m == Top(w).locator
             call == [Top(w) EXCEPT !.step = "build"]
             t == [s EXCEPT ![Len(s)] = call]
  <1>1. s \in Seq(Calls) /\ s # <<>> /\ Top(w) = s[Len(s)] /\ Top(w) \in Calls
            /\ Top(w).step = "look"
    BY TopFacts DEF FInv, StartBuild, At
  <1>2. m \in Locators /\ m \notin inFlight /\ inFlight' = inFlight \cup {m}
    BY <1>1 DEF StartBuild, MustBuild, Calls
  <1>3. call \in Calls /\ call.locator = m /\ call.step = "build"
    BY <1>1 DEF Calls, CallSteps
  <1> HIDE DEF call
  <1>4. t \in Seq(Calls) /\ Len(s) \in Nat \ {0} /\ Len(t) = Len(s)
            /\ t[Len(s)] = call /\ \A i \in 1 .. Len(s) - 1 : t[i] = s[i]
    BY <1>1, <1>3, ChangedStack
  <1>5. stacks' = [stacks EXCEPT ![w] = t]
    BY DEF StartBuild, Becomes, call
  <1> HIDE DEF t
  <1>6. \A v \in Workers : stacks'[v] = IF v = w THEN t ELSE stacks[v]
    BY <1>5 DEF FInv, Stacked
  <1>7. Stacked'
    BY <1>4, <1>5, <1>6 DEF FInv, Stacked
  <1>8. \A v \in Workers, i \in Nat, l \in Locators :
            Builds(stacks[v], i, l)' <=>
                Builds(stacks[v], i, l) \/ (v = w /\ i = Len(s) /\ l = m)
    BY <1>1, <1>2, <1>3, <1>4, <1>6 DEF Builds
  <1>9. Flights'
    BY <1>2, <1>4, <1>8 DEF FInv, Flights
  <1> QED
    BY <1>7, <1>9 DEF FInv

\* A build that remembers something goes on underneath.
LEMMA NestFlies ==
    ASSUME FInv, NEW w \in Workers, NEW l \in Locators, Nest(w, l) PROVE FInv'
  <1> DEFINE s == stacks[w]
             call == [Top(w) EXCEPT !.inner = @ \ {l}]
             r == Returned(s)
             q == Append(r, call)
             t == q \o <<Call(l)>>
  <1>1. s \in Seq(Calls) /\ s # <<>> /\ Top(w) = s[Len(s)] /\ Top(w) \in Calls
            /\ Top(w).step = "build"
    BY TopFacts DEF FInv, Nest, At
  <1>2. call \in Calls /\ call.locator = Top(w).locator /\ call.step = "build"
    BY <1>1 DEF Calls
  <1>3. Call(l) \in Calls /\ Call(l).step = "look"
    BY NestingAssumption DEF Call, Calls, CallSteps
  <1> HIDE DEF call
  <1>4. r \in Seq(Calls) /\ Len(s) \in Nat \ {0} /\ Len(r) = Len(s) - 1
            /\ \A i \in 1 .. Len(s) - 1 : r[i] = s[i]
    BY <1>1, ReturnedStack
  <1> HIDE DEF r
  <1>5. q \in Seq(Calls) /\ Len(q) = Len(s) /\ q[Len(s)] = call
            /\ \A i \in 1 .. Len(s) - 1 : q[i] = s[i]
    BY <1>2, <1>4, AppendProperties
  <1> HIDE DEF q
  <1>6. t = Append(q, Call(l))
    BY <1>3, <1>5, AppendIsConcat
  <1>7. stacks' = [stacks EXCEPT ![w] = t] /\ inFlight' = inFlight
    BY DEF Nest, q, r, call
  <1> HIDE DEF t
  <1>8. t \in Seq(Calls) /\ Len(t) = Len(s) + 1 /\ t[Len(s) + 1] = Call(l)
            /\ \A i \in 1 .. Len(s) : t[i] = q[i]
    BY <1>3, <1>5, <1>6, AppendProperties
  <1>9. Len(s) \in 1 .. Len(s) /\ \A i \in 1 .. Len(s) - 1 : i \in 1 .. Len(s)
    BY <1>4
  <1>10. t[Len(s)] = call /\ \A i \in 1 .. Len(s) - 1 : t[i] = s[i]
    BY <1>5, <1>8, <1>9
  <1>11. \A i \in 1 .. Len(s) - 1 : s[i].step = "build"
    BY DEF FInv, Stacked
  <1>12. \A i \in 1 .. Len(t) - 1 : t[i].step = "build"
    BY <1>2, <1>4, <1>8, <1>10, <1>11
  <1>13. ASSUME NEW i \in Nat, NEW m \in Locators PROVE Builds(t, i, m) <=> Builds(s, i, m)
    <2>1. CASE i = Len(s) + 1
      BY <1>3, <1>4, <1>8, <2>1 DEF Builds
    <2>2. CASE i = Len(s)
      BY <1>1, <1>2, <1>4, <1>8, <1>10, <2>2 DEF Builds
    <2>3. CASE i \in 1 .. Len(s) - 1
      <3>1. t[i] = s[i] /\ i \in 1 .. Len(s) /\ i \in 1 .. Len(t)
        BY <1>4, <1>8, <1>10, <2>3
      <3> QED
        BY <3>1 DEF Builds
    <2>4. CASE i \notin 1 .. Len(s) + 1
      <3>1. i \notin 1 .. Len(s) /\ i \notin 1 .. Len(t)
        BY <1>4, <1>8, <2>4
      <3> QED
        BY <3>1 DEF Builds
    <2>5. i \in {Len(s), Len(s) + 1} \/ i \in 1 .. Len(s) - 1 \/ i \notin 1 .. Len(s) + 1
      BY <1>4
    <2> QED
      BY <2>1, <2>2, <2>3, <2>4, <2>5
  <1> QED
    BY <1>7, <1>8, <1>12, <1>13, OwnStack

\* A build ends, with an entry or without.
LEMMA EndFlies ==
    ASSUME FInv, NEW w \in Workers, Enter(w) \/ EndWithout(w) PROVE FInv'
  <1> DEFINE call == [Top(w) EXCEPT !.step = "built"]
  <1>1. Active(w) /\ Becomes(w, call) /\ inFlight' = inFlight /\ Top(w).step = "build"
    BY DEF Enter, EndWithout, At
  <1>2. Top(w) \in Calls
    BY <1>1, TopFacts DEF FInv
  <1>3. call \in Calls /\ call.locator = Top(w).locator /\ call.step = "built"
    BY <1>2 DEF Calls, CallSteps
  <1> HIDE DEF call
  <1> QED
    BY <1>1, <1>3, TopChanges

LEMMA WaitFlies == ASSUME FInv, NEW w \in Workers, Wait(w) PROVE FInv'
  <1> DEFINE call == [Top(w) EXCEPT !.step = "wait"]
  <1>1. Active(w) /\ Becomes(w, call) /\ inFlight' = inFlight /\ Top(w).step = "look"
    BY DEF Wait, At
  <1>2. Top(w) \in Calls
    BY <1>1, TopFacts DEF FInv
  <1>3. call \in Calls /\ call.locator = Top(w).locator /\ call.step = "wait"
    BY <1>2 DEF Calls, CallSteps
  <1> HIDE DEF call
  <1> QED
    BY <1>1, <1>3, TopChanges

\* A hit and a cancelled wait return.
LEMMA ReturnFlies ==
    ASSUME FInv, NEW w \in Workers, Hit(w) \/ Cancel(w) PROVE FInv'
  <1>1. Active(w) /\ Returns(w) /\ inFlight' = inFlight /\ Top(w).step \in {"look", "wait"}
    BY DEF Hit, Cancel, At
  <1> QED
    BY <1>1, TopReturns

LEMMA RememberFlies ==
    ASSUME FInv, NEW w \in Workers, NEW l \in Locators, Remember(w, l) PROVE FInv'
  <1> DEFINE t == <<Call(l)>>
  <1>1. Call(l) \in Calls /\ Call(l).step = "look"
    BY NestingAssumption DEF Call, Calls, CallSteps
  <1>2. t \in Seq(Calls) /\ Len(t) = 1 /\ t[1] = Call(l)
    BY <1>1
  <1>3. stacks' = [stacks EXCEPT ![w] = t] /\ inFlight' = inFlight /\ stacks[w] = <<>>
    BY DEF Remember, Active
  <1>4. Len(stacks[w]) = 0
    BY <1>3, EmptySeq
  <1> HIDE DEF t
  <1>5. \A i \in 1 .. Len(t) - 1 : t[i].step = "build"
    BY <1>2
  <1>6. \A i \in Nat, m \in Locators : Builds(t, i, m) <=> Builds(stacks[w], i, m)
    BY <1>1, <1>2, <1>4 DEF Builds
  <1> QED
    BY <1>2, <1>3, <1>5, <1>6, OwnStack

\* The build in charge settles: its event goes with it, and whoever waits looks again.
LEMMA SettleFlies == ASSUME FInv, NEW w \in Workers, Settle(w) PROVE FInv'
  <1> DEFINE s == stacks[w]
             m == Top(w).locator
             t == Returned(s)
  <1>1. s \in Seq(Calls) /\ s # <<>> /\ Top(w) = s[Len(s)] /\ Top(w) \in Calls
            /\ Top(w).step = "built" /\ m \in Locators
    BY TopFacts DEF FInv, Settle, At, Calls
  <1>2. t \in Seq(Calls) /\ Len(s) \in Nat \ {0} /\ Len(t) = Len(s) - 1
            /\ \A i \in 1 .. Len(s) - 1 : t[i] = s[i]
    BY <1>1, ReturnedStack
  <1>3. inFlight' = inFlight \ {m}
            /\ stacks' = [v \in Workers |-> IF v = w THEN t ELSE Woken(stacks[v], m)]
    BY DEF Settle
  <1> HIDE DEF t
  <1>4. ASSUME NEW v \in Workers
        PROVE  LET u == Woken(stacks[v], m) IN
               /\ u \in Seq(Calls)
               /\ Len(u) = Len(stacks[v])
               /\ \A i \in 1 .. Len(stacks[v]) - 1 : u[i].step = "build"
               /\ \A i \in Nat, l \in Locators : Builds(u, i, l) <=> Builds(stacks[v], i, l)
    <2> DEFINE z == stacks[v]
               Waking(c) == IF c.locator = m /\ c.step = "wait" THEN [c EXCEPT !.step = "look"] ELSE c
               u == Woken(z, m)
    <2>1. z \in Seq(Calls) /\ Len(z) \in Nat /\ DOMAIN z = 1 .. Len(z)
              /\ \A i \in 1 .. Len(z) : z[i] \in Calls
      BY LenProperties, ElementOfSeq DEF FInv, Stacked
    <2>2. \A c \in Calls :
              /\ Waking(c) \in Calls
              /\ Waking(c).locator = c.locator
              /\ c.step = "build" => Waking(c).step = "build"
              /\ Waking(c).step \in {"build", "built"} <=> c.step \in {"build", "built"}
      BY DEF Calls, CallSteps
    <2>3. u = [i \in 1 .. Len(z) |-> Waking(z[i])]
      BY <2>1 DEF Woken
    <2> HIDE DEF z, u, Waking
    <2>4. u \in Seq(Calls) /\ Len(u) = Len(z) /\ \A i \in 1 .. Len(z) : u[i] = Waking(z[i])
      BY <2>1, <2>2, <2>3
    <2>5. \A i \in 1 .. Len(z) - 1 : u[i].step = "build"
      <3>1. \A i \in 1 .. Len(z) - 1 : z[i].step = "build"
        BY DEF FInv, Stacked, z
      <3> QED
        BY <2>1, <2>2, <2>4, <3>1
    <2>6. \A i \in Nat, l \in Locators : Builds(u, i, l) <=> Builds(z, i, l)
      BY <2>1, <2>2, <2>4 DEF Builds
    <2> QED
      BY <2>4, <2>5, <2>6 DEF z, u
  <1>5. Stacked'
    BY <1>2, <1>3, <1>4 DEF FInv, Stacked
  <1>6. \A i \in Nat, l \in Locators :
            Builds(t, i, l) <=> Builds(s, i, l) /\ i # Len(s)
    BY <1>1, <1>2 DEF Builds
  <1>7. \A v \in Workers, i \in Nat, l \in Locators :
            Builds(stacks[v], i, l)' <=> Builds(stacks[v], i, l) /\ ~ (v = w /\ i = Len(s))
    <2>1. \A v \in Workers : stacks'[v] = IF v = w THEN t ELSE Woken(stacks[v], m)
      BY <1>3
    <2>2. ASSUME NEW v \in Workers, NEW i \in Nat, NEW l \in Locators
          PROVE  Builds(stacks'[v], i, l) <=> Builds(stacks[v], i, l) /\ ~ (v = w /\ i = Len(s))
      <3>1. CASE v = w
        BY <1>6, <2>1, <3>1
      <3>2. CASE v # w
        BY <1>4, <2>1, <3>2
      <3> QED
        BY <3>1, <3>2
    <2> QED
      BY <2>2 DEF Builds
  <1>8. Builds(s, Len(s), m) /\ Len(s) \in Nat /\ \A l \in Locators : Builds(s, Len(s), l) => l = m
    BY <1>1, <1>2 DEF Builds
  <1>9. Flights'
    <2>1. \A v \in Workers, i \in Nat : Builds(stacks[v], i, m) => v = w /\ i = Len(s)
      BY <1>1, <1>8 DEF FInv, Flights
    <2>2. \A l \in inFlight' : l \in inFlight /\ l # m /\ l \in Locators
      BY <1>3 DEF FInv, Flights
    <2>3. \A l \in inFlight' : \E v \in Workers, i \in Nat : Builds(stacks[v], i, l)'
      BY <1>7, <1>8, <2>2 DEF FInv, Flights
    <2>4. \A v \in Workers, i \in Nat, l \in Locators : Builds(stacks[v], i, l)' => l \in inFlight'
      BY <1>3, <1>7, <2>1 DEF FInv, Flights
    <2>5. \A v, u \in Workers, i, j \in Nat, l \in Locators :
              Builds(stacks[v], i, l)' /\ Builds(stacks[u], j, l)' => v = u /\ i = j
      BY <1>7 DEF FInv, Flights
    <2> QED
      BY <2>2, <2>3, <2>4, <2>5 DEF Flights
  <1> QED
    BY <1>5, <1>9 DEF FInv

-----------------------------------------------------------------------------
LEMMA FlightsInit == Init => FInv
  <1> SUFFICES ASSUME Init PROVE FInv
    OBVIOUS
  <1>1. \A w \in Workers : stacks[w] = <<>> /\ Len(stacks[w]) = 0
    BY EmptySeq DEF Init
  <1>2. <<>> \in Seq(Calls)
    BY EmptySeq
  <1>3. Stacked
    BY <1>1, <1>2 DEF Init, Stacked
  <1>4. Flights
    BY <1>1 DEF Init, Flights, Builds
  <1> QED
    BY <1>3, <1>4 DEF FInv

LEMMA FlightsStep == FInv /\ [Next]_vars => FInv'
  <1> SUFFICES ASSUME FInv, [Next]_vars PROVE FInv'
    OBVIOUS
  <1>1. ASSUME UNCHANGED <<stacks, inFlight>> PROVE FInv'
    BY <1>1 DEF FInv, Stacked, Flights, Builds
  <1>2. CASE \E w \in Workers, l \in Locators : Remember(w, l)
    BY <1>2, RememberFlies
  <1>3. CASE \E w \in Workers : Progress(w)
    BY <1>3, ReturnFlies, StartBuildFlies, WaitFlies, NestFlies, EndFlies, SettleFlies DEF Progress
  <1>4. CASE \E w \in Workers : Cancel(w)
    BY <1>4, ReturnFlies
  <1>5. CASE (\E limit \in 0 .. Budget : RestrictTo(limit)) \/ DiscardScope \/ Clear
    BY <1>1, <1>5 DEF RestrictTo, DiscardScope, Clear
  <1>6. CASE UNCHANGED vars
    BY <1>1, <1>6 DEF vars
  <1> QED
    BY <1>2, <1>3, <1>4, <1>5, <1>6 DEF Next

\* An event stands for exactly one build, and only an event does.
LEMMA FlightsAreSingle == FInv => SingleFlight
  <1> SUFFICES ASSUME FInv, NEW l \in Locators
               PROVE  Cardinality(Builders(l)) = IF l \in inFlight THEN 1 ELSE 0
    BY DEF SingleFlight
  <1>1. \A w \in Workers : DOMAIN stacks[w] = 1 .. Len(stacks[w]) /\ 1 .. Len(stacks[w]) \subseteq Nat
    BY LenProperties DEF FInv, Stacked
  <1>2. \A at \in Builders(l) :
            \E w \in Workers, i \in Nat : at = <<w, i>> /\ Builds(stacks[w], i, l)
    BY <1>1 DEF Builders, Builds
  <1>3. \A w \in Workers, i \in Nat : Builds(stacks[w], i, l) => <<w, i>> \in Builders(l)
    BY <1>1 DEF Builders, Builds
  <1>4. CASE l \notin inFlight
    <2>1. Builders(l) = {}
      BY <1>2, <1>4 DEF FInv, Flights
    <2> QED
      BY <1>4, <2>1, FS_EmptySet
  <1>5. CASE l \in inFlight
    <2>1. PICK w \in Workers, i \in Nat : Builds(stacks[w], i, l)
      BY <1>5 DEF FInv, Flights
    <2>2. Builders(l) = {<<w, i>>}
      BY <1>2, <1>3, <2>1 DEF FInv, Flights
    <2> QED
      BY <1>5, <2>2, FS_Singleton
  <1> QED
    BY <1>4, <1>5

\* One build at a time per entry, and no event without it, for every number of workers.
THEOREM ReservesBuildOnce == ReserveSpec => []BuildsAreSingle
  <1> DEFINE RInv == reserve = "preparation" => FInv
  <1>1. ReserveInit => RInv
    BY FlightsInit DEF ReserveInit
  <1>2. RInv /\ [ReserveNext]_allVars => RInv'
    <2> SUFFICES ASSUME RInv, [ReserveNext]_allVars, (reserve = "preparation")' PROVE FInv'
      OBVIOUS
    <2>1. reserve = "preparation" /\ FInv
      BY DEF ReserveNext, allVars
    <2>2. [Next]_vars
      BY <2>1 DEF ReserveNext, allVars, preparationOnly, vars
    <2> QED
      BY <2>1, <2>2, FlightsStep
  <1>3. RInv => BuildsAreSingle
    BY FlightsAreSingle DEF BuildsAreSingle
  <1> HIDE DEF RInv
  <1> QED
    BY <1>1, <1>2, <1>3, PTL DEF ReserveSpec

-----------------------------------------------------------------------------
(* What the operators of PriorityLRU return. *)

\* The places of a finite set of positions run from 1 to their number.
Place(kept, i) == Cardinality({j \in kept : j <= i})

LEMMA Places ==
    ASSUME NEW n \in Nat, NEW kept \in SUBSET (1 .. n)
    PROVE  /\ IsFiniteSet(kept) /\ Cardinality(kept) \in Nat
           /\ \A i \in kept : Place(kept, i) \in 1 .. Cardinality(kept)
           /\ \A i, j \in kept : i < j => Place(kept, i) < Place(kept, j)
           /\ \A k \in 1 .. Cardinality(kept) : \E i \in kept : Place(kept, i) = k
  <1> DEFINE upTo(i) == {j \in kept : j <= i}
             c == Cardinality(kept)
             place == [i \in kept |-> Place(kept, i)]
  <1>1. IsFiniteSet(kept) /\ c \in Nat
    <2>1. IsFiniteSet(1 .. n)
      BY FS_Interval
    <2> QED
      BY <2>1, FS_Subset, FS_CardinalityType
  <1>2. ASSUME NEW i \in kept
        PROVE  IsFiniteSet(upTo(i)) /\ Place(kept, i) \in 1 .. c
    <2>1. upTo(i) \in SUBSET kept /\ i \in upTo(i)
      OBVIOUS
    <2>2. IsFiniteSet(upTo(i)) /\ Cardinality(upTo(i)) <= c /\ Cardinality(upTo(i)) \in Nat
      BY <1>1, <2>1, FS_Subset, FS_CardinalityType
    <2>3. Cardinality(upTo(i)) # 0
      BY <2>1, <2>2, FS_EmptySet
    <2> QED
      BY <1>1, <2>2, <2>3 DEF Place
  <1>3. ASSUME NEW i \in kept, NEW j \in kept, i < j
        PROVE  Place(kept, i) < Place(kept, j)
    <2>0. i \in Int /\ j \in Int
      OBVIOUS
    <2>a. ASSUME NEW k \in upTo(i) PROVE k \in upTo(j)
      <3>1. k \in Int /\ k <= i /\ k \in kept
        OBVIOUS
      <3> QED
        BY <1>3, <2>0, <3>1
    <2>b. j \in upTo(j)
      BY <2>0
    <2>c. j \notin upTo(i)
      BY <1>3, <2>0
    <2>1. upTo(i) \in SUBSET upTo(j) /\ j \in upTo(j) /\ j \notin upTo(i)
      BY <2>a, <2>b, <2>c
    <2>2. IsFiniteSet(upTo(j)) /\ Cardinality(upTo(j)) \in Nat /\ Cardinality(upTo(i)) \in Nat
      BY <1>2, FS_CardinalityType
    <2>3. Cardinality(upTo(i)) <= Cardinality(upTo(j)) /\ Cardinality(upTo(i)) # Cardinality(upTo(j))
      BY <2>1, <2>2, FS_Subset
    <2> QED
      BY <2>2, <2>3 DEF Place
  <1>4. place \in Injection(kept, 1 .. c)
    <2>1. place \in [kept -> 1 .. c]
      BY <1>2
    <2>2. ASSUME NEW i \in kept, NEW j \in kept, i # j PROVE place[i] # place[j]
      <3>1. i < j \/ j < i
        BY <2>2
      <3>2. place[i] < place[j] \/ place[j] < place[i]
        BY <1>3, <3>1
      <3>3. Place(kept, i) \in 1 .. c /\ Place(kept, j) \in 1 .. c /\ c \in Nat
        BY <1>1, <1>2
      <3>4. place[i] = Place(kept, i) /\ place[j] = Place(kept, j)
        OBVIOUS
      <3> HIDE DEF place, c
      <3> QED
        BY <3>2, <3>3, <3>4
    <2> QED
      BY <2>1, <2>2 DEF Injection, IsInjective
  <1>5. IsFiniteSet(1 .. c) /\ Cardinality(1 .. c) = c
    BY <1>1, FS_Interval
  <1>6. place \in Surjection(kept, 1 .. c)
    BY <1>4, <1>5, FS_Injection
  <1>7. \A k \in 1 .. c : \E i \in kept : place[i] = k
    BY <1>6 DEF Surjection
  <1> QED
    BY <1>1, <1>2, <1>3, <1>7

\* What is left of a reserve keeps its order: nothing is lost, and nothing comes twice.
LEMMA WithoutFacts ==
    ASSUME NEW X, NEW s \in Seq(X), NEW S
    PROVE  /\ Without(s, S) \in Seq(X)
           /\ Cached(Without(s, S)) = Cached(s) \ S
           /\ Distinct(s) => Distinct(Without(s, S))
  <1> DEFINE kept == {i \in DOMAIN s : s[i] \notin S}
             c == Cardinality(kept)
             at(k) == CHOOSE i \in kept : Place(kept, i) = k
             W == [k \in 1 .. c |-> s[at(k)]]
  <1>1. DOMAIN s = 1 .. Len(s) /\ Len(s) \in Nat /\ \A i \in DOMAIN s : s[i] \in X
    BY ElementOfSeq
  <1>2. kept \in SUBSET (1 .. Len(s)) /\ \A i \in kept : i \in DOMAIN s /\ s[i] \notin S
    BY <1>1
  <1>3. Without(s, S) = W
    BY DEF Without, Place
  <1>4. \A i \in DOMAIN s : s[i] \notin S => i \in kept
    OBVIOUS
  <1> HIDE DEF kept
  <1>5. /\ c \in Nat
        /\ \A i \in kept : Place(kept, i) \in 1 .. c
        /\ \A i, j \in kept : i < j => Place(kept, i) < Place(kept, j)
        /\ \A k \in 1 .. c : \E i \in kept : Place(kept, i) = k
    BY <1>1, <1>2, Places
  <1>6. ASSUME NEW k \in 1 .. c PROVE at(k) \in kept /\ Place(kept, at(k)) = k
    BY <1>5
  <1>7. DOMAIN W = 1 .. c /\ \A k \in 1 .. c : W[k] = s[at(k)]
    OBVIOUS
  <1>8. W \in Seq(X)
    <2>1. \A k \in 1 .. c : s[at(k)] \in X
      BY <1>1, <1>2, <1>6
    <2>2. W \in [1 .. c -> X]
      BY <2>1
    <2> HIDE DEF W, c
    <2> QED
      BY <1>5, <2>2, SeqDef
  <1> HIDE DEF W, at, c
  <1>9. ASSUME NEW i \in kept, NEW j \in kept, Place(kept, i) = Place(kept, j)
        PROVE  i = j
    <2>1. i \in Int /\ j \in Int
      BY <1>2
    <2>2. Place(kept, i) \in Int /\ Place(kept, j) \in Int
      BY <1>5
    <2>3. ~(i < j) /\ ~(j < i)
      BY <1>5, <1>9, <2>2
    <2> QED
      BY <2>1, <2>3
  <1>10. Cached(W) = Cached(s) \ S
    <2>1. ASSUME NEW e \in Cached(W) PROVE e \in Cached(s) \ S
      <3>1. PICK k \in 1 .. c : e = W[k]
        BY <1>7 DEF Cached
      <3> QED
        BY <1>2, <1>6, <1>7, <3>1 DEF Cached
    <2>2. ASSUME NEW e \in Cached(s) \ S PROVE e \in Cached(W)
      <3>1. PICK i \in DOMAIN s : e = s[i]
        BY DEF Cached
      <3>2. i \in kept
        BY <1>4, <3>1
      <3>3. Place(kept, i) \in 1 .. c
        BY <1>5, <3>2
      <3>4. at(Place(kept, i)) = i
        BY <1>6, <1>9, <3>2, <3>3
      <3>5. W[Place(kept, i)] = e
        BY <1>7, <3>1, <3>3, <3>4
      <3> QED
        BY <1>7, <3>3, <3>5 DEF Cached
    <2> QED
      BY <2>1, <2>2
  <1>11. ASSUME Distinct(s), NEW k \in DOMAIN W, NEW l \in DOMAIN W, W[k] = W[l]
         PROVE  k = l
    <2>1. k \in 1 .. c /\ l \in 1 .. c /\ s[at(k)] = s[at(l)]
      BY <1>7, <1>11
    <2>2. at(k) \in DOMAIN s /\ at(l) \in DOMAIN s
      BY <1>2, <1>6, <2>1
    <2>3. at(k) = at(l)
      BY <1>11, <2>1, <2>2 DEF Distinct
    <2> QED
      BY <1>6, <2>1, <2>3
  <1>12. Distinct(s) => Distinct(W)
    BY <1>11 DEF Distinct
  <1> QED
    BY <1>3, <1>8, <1>10, <1>12

\* A reserve with one more entry, the most recent.
LEMMA AppendFacts ==
    ASSUME NEW X, NEW s \in Seq(X), NEW e \in X
    PROVE  /\ Append(s, e) \in Seq(X)
           /\ Cached(Append(s, e)) = Cached(s) \cup {e}
           /\ Distinct(s) /\ e \notin Cached(s) => Distinct(Append(s, e))
  <1> DEFINE t == Append(s, e)
             n == Len(s)
  <1>1. n \in Nat /\ DOMAIN s = 1 .. n
    BY ElementOfSeq
  <1>2. t \in Seq(X) /\ Len(t) = n + 1 /\ (\A i \in 1 .. n : t[i] = s[i]) /\ t[n + 1] = e
    BY AppendProperties
  <1>3. DOMAIN t = 1 .. n + 1
    BY <1>2, ElementOfSeq
  <1> HIDE DEF t, n
  <1>4. \A i \in 1 .. n + 1 : i \in 1 .. n \/ i = n + 1
    BY <1>1
  <1>5. \A i \in 1 .. n : i \in 1 .. n + 1
    BY <1>1
  <1>6. n + 1 \in 1 .. n + 1
    BY <1>1
  <1>7. Cached(t) = Cached(s) \cup {e}
    <2>1. ASSUME NEW d \in Cached(t) PROVE d \in Cached(s) \cup {e}
      BY <1>1, <1>2, <1>3, <1>4 DEF Cached
    <2>2. ASSUME NEW d \in Cached(s) PROVE d \in Cached(t)
      BY <1>1, <1>2, <1>3, <1>5 DEF Cached
    <2>3. e \in Cached(t)
      BY <1>2, <1>3, <1>6 DEF Cached
    <2> QED
      BY <2>1, <2>2, <2>3
  <1>8. Distinct(s) /\ e \notin Cached(s) => Distinct(t)
    BY <1>1, <1>2, <1>3, <1>4 DEF Cached, Distinct
  <1> QED
    BY <1>2, <1>7, <1>8 DEF t

LEMMA CachedFinite ==
    ASSUME NEW X, NEW s \in Seq(X)
    PROVE  IsFiniteSet(Cached(s)) /\ Cached(s) \subseteq X
  <1>1. Len(s) \in Nat /\ DOMAIN s = 1 .. Len(s) /\ \A i \in DOMAIN s : s[i] \in X
    BY ElementOfSeq
  <1>2. Cached(s) \subseteq X
    BY <1>1 DEF Cached
  <1>3. \A i \in 1 .. Len(s) : s[i] \in Cached(s)
    BY <1>1 DEF Cached
  <1>4. s \in [1 .. Len(s) -> Cached(s)]
    <2>1. s = [i \in 1 .. Len(s) |-> s[i]]
      BY <1>1
    <2> QED
      BY <1>3, <2>1
  <1>5. \A e \in Cached(s) : \E i \in 1 .. Len(s) : s[i] = e
    BY <1>1 DEF Cached
  <1>6. s \in Surjection(1 .. Len(s), Cached(s))
    BY <1>4, <1>5 DEF Surjection
  <1>7. IsFiniteSet(1 .. Len(s))
    BY <1>1, FS_Interval
  <1> QED
    BY <1>2, <1>6, <1>7, FS_Surjection

\* The bytes that entries are charged, of an account c.
Charges(c, S) == UNION {{e} \X (1 .. c[e]) : e \in S}
Weight(c, S) == Cardinality(Charges(c, S))

LEMMA ChargesFinite ==
    ASSUME NEW X, NEW c \in [X -> Nat], NEW S \in SUBSET X, IsFiniteSet(S)
    PROVE  IsFiniteSet(Charges(c, S)) /\ Weight(c, S) \in Nat
  <1> DEFINE own == [e \in S |-> {e} \X (1 .. c[e])]
             all == {{e} \X (1 .. c[e]) : e \in S}
  <1>1. own \in Surjection(S, all)
    BY DEF Surjection
  <1>2. IsFiniteSet(all)
    BY <1>1, FS_Surjection
  <1>3. ASSUME NEW e \in S PROVE IsFiniteSet({e} \X (1 .. c[e]))
    <2>0. e \in X
      OBVIOUS
    <2>1. c[e] \in Int
      BY <2>0
    <2>a. IsFiniteSet({e})
      BY FS_Singleton
    <2>2. IsFiniteSet(1 .. c[e])
      BY <2>1, FS_Interval
    <2> QED
      BY <2>a, <2>2, FS_Product
  <1>4. \A T \in all : IsFiniteSet(T)
    BY <1>3
  <1>5. IsFiniteSet(UNION all)
    BY <1>2, <1>4, FS_UNION
  <1> QED
    BY <1>5, FS_CardinalityType DEF Charges, Weight

\* What is charged for entries that are not the same adds up.
LEMMA WeightAdds ==
    ASSUME NEW X, NEW c \in [X -> Nat], NEW S \in SUBSET X, NEW T \in SUBSET X,
           IsFiniteSet(S), IsFiniteSet(T), S \cap T = {}
    PROVE  Weight(c, S \cup T) = Weight(c, S) + Weight(c, T)
  <1>1. IsFiniteSet(Charges(c, S)) /\ IsFiniteSet(Charges(c, T))
            /\ Weight(c, S) \in Nat /\ Weight(c, T) \in Nat
    BY ChargesFinite
  <1>2. Charges(c, S \cup T) = Charges(c, S) \cup Charges(c, T)
    BY DEF Charges
  <1>3. Charges(c, S) \cap Charges(c, T) = {}
    <2> SUFFICES ASSUME NEW p \in Charges(c, S), p \in Charges(c, T) PROVE FALSE
      OBVIOUS
    <2>1. PICK d \in S : p \in {d} \X (1 .. c[d])
      BY DEF Charges
    <2>2. PICK e \in T : p \in {e} \X (1 .. c[e])
      BY DEF Charges
    <2>3. p[1] = d /\ p[1] = e
      BY <2>1, <2>2
    <2> QED
      BY <2>3
  <1>4. Cardinality({}) = 0
    BY FS_EmptySet
  <1>5. Cardinality(Charges(c, S) \cup Charges(c, T))
            = Cardinality(Charges(c, S)) + Cardinality(Charges(c, T))
                - Cardinality(Charges(c, S) \cap Charges(c, T))
    BY <1>1, FS_Union
  <1>6. Cardinality(Charges(c, S) \cap Charges(c, T)) = 0
    BY <1>3, <1>4
  <1>7. Weight(c, S \cup T) = Cardinality(Charges(c, S) \cup Charges(c, T))
    BY <1>2 DEF Weight
  <1>8. Cardinality(Charges(c, S)) = Weight(c, S) /\ Cardinality(Charges(c, T)) = Weight(c, T)
    BY DEF Weight
  <1> QED
    BY <1>1, <1>5, <1>6, <1>7, <1>8

LEMMA WeightOfOne ==
    ASSUME NEW X, NEW c \in [X -> Nat], NEW e \in X
    PROVE  Weight(c, {e}) = c[e] /\ Weight(c, {}) = 0
  <1>1. Charges(c, {e}) = {e} \X (1 .. c[e]) /\ Charges(c, {}) = {}
    BY DEF Charges
  <1>2. IsFiniteSet({e}) /\ Cardinality({e}) = 1
    BY FS_Singleton
  <1>3. c[e] \in Nat
    OBVIOUS
  <1>4. IsFiniteSet(1 .. c[e]) /\ Cardinality(1 .. c[e]) = c[e]
    BY <1>3, FS_Interval
  <1>5. Cardinality({e} \X (1 .. c[e])) = c[e]
    <2>1. Cardinality({e} \X (1 .. c[e])) = Cardinality({e}) * Cardinality(1 .. c[e])
      BY <1>2, <1>4, FS_Product
    <2> QED
      BY <1>2, <1>3, <1>4, <2>1
  <1> QED
    BY <1>1, <1>5, FS_EmptySet DEF Weight

\* What is left when entries go.
LEMMA WeightLeft ==
    ASSUME NEW X, NEW c \in [X -> Nat], NEW S \in SUBSET X, IsFiniteSet(S), NEW T \in SUBSET S
    PROVE  /\ Weight(c, S \ T) = Weight(c, S) - Weight(c, T)
           /\ Weight(c, S) \in Nat /\ Weight(c, T) \in Nat /\ Weight(c, S \ T) \in Nat
           /\ Weight(c, T) <= Weight(c, S)
  <1>1. IsFiniteSet(T) /\ IsFiniteSet(S \ T)
    BY FS_Subset
  <1>2. (S \ T) \cup T = S /\ (S \ T) \cap T = {} /\ S \ T \in SUBSET X /\ T \in SUBSET X
    OBVIOUS
  <1>3. Weight(c, S) = Weight(c, S \ T) + Weight(c, T)
    BY <1>1, <1>2, WeightAdds
  <1>4. Weight(c, S) \in Nat /\ Weight(c, T) \in Nat /\ Weight(c, S \ T) \in Nat
    BY <1>1, <1>2, ChargesFinite
  <1> QED
    BY <1>3, <1>4

\* A set of numbers has a least one.
LEMMA LeastNat ==
    ASSUME NEW T \in SUBSET Nat, T # {}
    PROVE  \E m \in T : \A k \in T : m <= k
  <1> DEFINE R == {ss \in Nat \X Nat : ss[1] < ss[2]}
  <1>1. IsWellFoundedOn(R, Nat)
    BY NatLessThanWellFounded DEF OpToRel
  <1>2. \A x \in Nat, y \in Nat : <<y, x>> \in R <=> y < x
    OBVIOUS
  <1> HIDE DEF R
  <1>3. \E x \in T : \A y \in T : <<y, x>> \notin R
    BY <1>1, WFMin
  <1>4. PICK m \in T : \A y \in T : <<y, m>> \notin R
    BY <1>3
  <1>5. ASSUME NEW k \in T PROVE m <= k
    <2>1. m \in Nat /\ k \in Nat /\ <<k, m>> \notin R
      BY <1>4
    <2>2. ~(k < m)
      BY <1>2, <2>1
    <2> QED
      BY <2>1, <2>2
  <1> QED
    BY <1>5

LEMMA TotalOfLocators ==
    ASSUME NEW S \in SUBSET Locators
    PROVE  TotalCharge(S) = Weight(Charge, S)
  BY DEF TotalCharge, ChargeOf, Weight, Charges

\* A reserve that may give anything up gives up as much as it must, or everything: the
\* first entry that stays had enough before it.
LEMMA EvictedFrees ==
    ASSUME NEW s \in Seq(Locators), Distinct(s), NEW over \in Int,
           Evicted(s, 2, over) # Cached(s)
    PROVE  TotalCharge(Evicted(s, 2, over)) >= over
  <1> DEFINE gone == Evicted(s, 2, over)
             stay == {i \in DOMAIN s : s[i] \notin gone}
             levels == {Priority[s[i]] : i \in stay}
  <1>1. DOMAIN s = 1 .. Len(s) /\ Len(s) \in Nat /\ \A i \in DOMAIN s : s[i] \in Locators
    BY ElementOfSeq
  <1>2. \A i \in DOMAIN s : Priority[s[i]] \in 0 .. 2
    BY <1>1, EntriesAssumption DEF Levels
  <1>3. Victims(s, 2) = Cached(s)
    <2>1. \A e \in Cached(s) : Priority[e] \in 0 .. 2
      BY <1>2 DEF Cached
    <2> QED
      BY <2>1 DEF Victims, PriorityOf
  <1>4. \A e \in Cached(s) : e \in gone <=> TotalCharge({d \in Cached(s) : GoesBefore(s, d, e)}) < over
    BY <1>3 DEF Evicted
  <1>5. gone \subseteq Cached(s)
    BY <1>3 DEF Evicted
  <1>6. stay \in SUBSET DOMAIN s /\ \A i \in DOMAIN s : i \in stay <=> s[i] \notin gone
    OBVIOUS
  <1>7. stay # {}
    <2>1. PICK e \in Cached(s) : e \notin gone
      BY <1>5
    <2> QED
      BY <1>6, <2>1 DEF Cached
  <1> HIDE DEF gone, stay
  <1>8. PICK p \in levels : \A q \in levels : p <= q
    <2>1. levels \in SUBSET Nat /\ levels # {}
      BY <1>2, <1>6, <1>7
    <2> HIDE DEF levels
    <2> QED
      BY <2>1, LeastNat
  <1> DEFINE lowest == {i \in stay : Priority[s[i]] = p}
  <1>9. PICK m \in lowest : \A i \in lowest : m <= i
    <2>1. lowest \in SUBSET Nat /\ lowest # {}
      BY <1>1, <1>6, <1>8
    <2> HIDE DEF lowest
    <2> QED
      BY <2>1, LeastNat
  <1> DEFINE before == {d \in Cached(s) : GoesBefore(s, d, s[m])}
  <1>10. m \in DOMAIN s /\ s[m] \in Cached(s) /\ s[m] \notin gone /\ Priority[s[m]] = p
    BY <1>6 DEF Cached
  <1>11. ASSUME NEW d \in before PROVE d \in gone
    <2> SUFFICES ASSUME d \notin gone PROVE FALSE
      OBVIOUS
    <2>1. PICK k \in DOMAIN s : d = s[k]
      BY DEF Cached
    <2>2. k \in stay
      BY <1>6, <2>1
    <2>3. p <= Priority[d] /\ Priority[d] \in Nat /\ p \in Nat
      BY <1>2, <1>8, <1>10, <2>1, <2>2
    <2>4. Priority[d] = p /\ \E i, j \in DOMAIN s : i < j /\ s[i] = d /\ s[j] = s[m]
      BY <1>10, <2>3 DEF GoesBefore, PriorityOf
    <2>5. k < m
      BY <1>10, <2>1, <2>4 DEF Distinct
    <2>6. m <= k
      BY <1>9, <2>1, <2>2, <2>4
    <2> QED
      BY <1>1, <1>10, <2>5, <2>6
  <1>12. ~(TotalCharge(before) < over)
    BY <1>4, <1>10
  <1>13. before \in SUBSET gone
    BY <1>11
  <1>14. gone \in SUBSET Locators /\ IsFiniteSet(gone)
    BY <1>5, CachedFinite, FS_Subset
  <1>15. Charge \in [Locators -> Nat]
    BY EntriesAssumption
  <1> HIDE DEF before
  <1>16. Weight(Charge, before) <= Weight(Charge, gone) /\ Weight(Charge, before) \in Nat
             /\ Weight(Charge, gone) \in Nat
    BY <1>13, <1>14, <1>15, WeightLeft
  <1>17. TotalCharge(before) = Weight(Charge, before) /\ TotalCharge(gone) = Weight(Charge, gone)
    BY <1>13, <1>14, TotalOfLocators
  <1> QED
    BY <1>12, <1>16, <1>17 DEF gone

-----------------------------------------------------------------------------
(* The account of a plan's preparation. *)

Accounted ==
    /\ values \in Seq(Locators) /\ Distinct(values)
    /\ maximum \in 0 .. Budget
    /\ bytes = TotalCharge(Cached(values)) /\ bytes <= maximum

\* What a call may still remember on its way is of its build, and what is being
\* built is not in the reserve.
Fit(c, cached) ==
    /\ c.inner \subseteq Inner[c.locator]
    /\ c.step = "build" => c.locator \notin cached

Pending ==
    \A w \in Workers : \A i \in 1 .. Len(stacks[w]) : Fit(stacks[w][i], Cached(values))

PInv == FInv /\ Accounted /\ Pending /\ calls \in [Workers -> 0 .. MaxCalls]

\* An account that is exact is a number, and stays exact when entries go.
LEMMA AccountLeft ==
    ASSUME NEW s \in Seq(Locators), Distinct(s), NEW S \in SUBSET Cached(s)
    PROVE  /\ Without(s, S) \in Seq(Locators) /\ Distinct(Without(s, S))
           /\ Cached(Without(s, S)) = Cached(s) \ S
           /\ TotalCharge(Cached(Without(s, S))) = TotalCharge(Cached(s)) - TotalCharge(S)
           /\ TotalCharge(Cached(s)) \in Nat /\ TotalCharge(S) \in Nat
           /\ TotalCharge(Cached(Without(s, S))) \in Nat
  <1>1. Without(s, S) \in Seq(Locators) /\ Distinct(Without(s, S))
            /\ Cached(Without(s, S)) = Cached(s) \ S
    BY WithoutFacts
  <1>2. IsFiniteSet(Cached(s)) /\ Cached(s) \in SUBSET Locators /\ Charge \in [Locators -> Nat]
    BY CachedFinite, EntriesAssumption
  <1>3. /\ Weight(Charge, Cached(s) \ S) = Weight(Charge, Cached(s)) - Weight(Charge, S)
        /\ Weight(Charge, Cached(s)) \in Nat /\ Weight(Charge, S) \in Nat
        /\ Weight(Charge, Cached(s) \ S) \in Nat
    BY <1>2, WeightLeft
  <1>4. /\ TotalCharge(Cached(s) \ S) = Weight(Charge, Cached(s) \ S)
        /\ TotalCharge(Cached(s)) = Weight(Charge, Cached(s))
        /\ TotalCharge(S) = Weight(Charge, S)
    BY <1>2, TotalOfLocators
  <1> QED
    BY <1>1, <1>3, <1>4

\* What comes in is charged.
LEMMA AccountMore ==
    ASSUME NEW s \in Seq(Locators), Distinct(s), NEW l \in Locators, l \notin Cached(s)
    PROVE  /\ Append(s, l) \in Seq(Locators) /\ Distinct(Append(s, l))
           /\ Cached(Append(s, l)) = Cached(s) \cup {l}
           /\ TotalCharge(Cached(Append(s, l))) = TotalCharge(Cached(s)) + Charge[l]
  <1>1. Append(s, l) \in Seq(Locators) /\ Distinct(Append(s, l))
            /\ Cached(Append(s, l)) = Cached(s) \cup {l}
    BY AppendFacts
  <1>2. IsFiniteSet(Cached(s)) /\ Cached(s) \in SUBSET Locators /\ Charge \in [Locators -> Nat]
    BY CachedFinite, EntriesAssumption
  <1>3. IsFiniteSet({l}) /\ {l} \in SUBSET Locators /\ Cached(s) \cap {l} = {}
    BY FS_Singleton
  <1>4. Weight(Charge, Cached(s) \cup {l}) = Weight(Charge, Cached(s)) + Weight(Charge, {l})
    BY <1>2, <1>3, WeightAdds
  <1>5. Weight(Charge, {l}) = Charge[l]
    BY <1>2, WeightOfOne
  <1>6. /\ TotalCharge(Cached(s) \cup {l}) = Weight(Charge, Cached(s) \cup {l})
        /\ TotalCharge(Cached(s)) = Weight(Charge, Cached(s))
    BY <1>2, <1>3, TotalOfLocators
  <1> QED
    BY <1>1, <1>4, <1>5, <1>6

\* Entries go, and the account with them.
LEMMA AccountGoes ==
    ASSUME Accounted, NEW S \in SUBSET Cached(values),
           values' = Without(values, S), bytes' = bytes - TotalCharge(S), maximum' = maximum
    PROVE  Accounted' /\ Cached(values') \subseteq Cached(values)
  <1>1. /\ Without(values, S) \in Seq(Locators) /\ Distinct(Without(values, S))
        /\ Cached(Without(values, S)) = Cached(values) \ S
        /\ TotalCharge(Cached(Without(values, S))) = TotalCharge(Cached(values)) - TotalCharge(S)
        /\ TotalCharge(Cached(values)) \in Nat /\ TotalCharge(S) \in Nat
    BY AccountLeft DEF Accounted
  <1>2. bytes' = TotalCharge(Cached(values'))
    BY <1>1 DEF Accounted
  <1>3. bytes' <= maximum'
    BY <1>1, BoundsAssumption DEF Accounted
  <1>4. values' \in Seq(Locators) /\ Distinct(values') /\ Cached(values') \subseteq Cached(values)
    BY <1>1
  <1> QED
    BY <1>2, <1>3, <1>4 DEF Accounted, Distinct, Cached, TotalCharge

\* A hit is in the reserve as before, only more recent.
LEMMA UsedFacts ==
    ASSUME NEW X, NEW s \in Seq(X), Distinct(s), NEW e \in Cached(s)
    PROVE  Used(s, e) \in Seq(X) /\ Distinct(Used(s, e)) /\ Cached(Used(s, e)) = Cached(s)
  <1> DEFINE r == Without(s, {e})
  <1>1. r \in Seq(X) /\ Distinct(r) /\ Cached(r) = Cached(s) \ {e}
    BY WithoutFacts
  <1>2. e \in X
    BY CachedFinite
  <1> HIDE DEF r
  <1>3. Append(r, e) \in Seq(X) /\ Distinct(Append(r, e)) /\ Cached(Append(r, e)) = Cached(r) \cup {e}
    BY <1>1, <1>2, AppendFacts
  <1> QED
    BY <1>1, <1>3 DEF Used, r

\* The steps that change one stack, with what is cached before or less.
LEMMA OwnPending ==
    ASSUME Stacked, Pending, NEW w \in Workers, NEW t,
           stacks' = [stacks EXCEPT ![w] = t], Cached(values') \subseteq Cached(values),
           \A i \in 1 .. Len(t) : Fit(t[i], Cached(values))
    PROVE  Pending'
  <1>1. \A v \in Workers : stacks'[v] = IF v = w THEN t ELSE stacks[v]
    BY DEF Stacked
  <1>2. ASSUME NEW v \in Workers, NEW i \in 1 .. Len(stacks'[v])
        PROVE  Fit(stacks'[v][i], Cached(values'))
    <2>1. Fit(stacks'[v][i], Cached(values))
      BY <1>1 DEF Pending
    <2> QED
      BY <2>1 DEF Fit
  <1> QED
    BY <1>2 DEF Pending, Fit, Cached

LEMMA ReturnPending ==
    ASSUME FInv, Pending, NEW w \in Workers, Active(w), Returns(w),
           Cached(values') \subseteq Cached(values)
    PROVE  Pending'
  <1> DEFINE s == stacks[w]
             t == Returned(s)
  <1>1. s \in Seq(Calls) /\ s # <<>>
    BY TopFacts DEF FInv
  <1>2. Len(s) \in Nat \ {0} /\ Len(t) = Len(s) - 1 /\ \A i \in 1 .. Len(s) - 1 : t[i] = s[i]
    BY <1>1, ReturnedStack
  <1>3. stacks' = [stacks EXCEPT ![w] = t]
    BY DEF Returns
  <1> HIDE DEF t
  <1>4. \A i \in 1 .. Len(t) : Fit(t[i], Cached(values))
    BY <1>2 DEF Pending
  <1> QED
    BY <1>3, <1>4, OwnPending DEF FInv

LEMMA TopPending ==
    ASSUME FInv, Pending, NEW w \in Workers, Active(w), NEW call \in Calls, Becomes(w, call),
           Cached(values') \subseteq Cached(values), Fit(call, Cached(values))
    PROVE  Pending'
  <1> DEFINE s == stacks[w]
             t == [s EXCEPT ![Len(s)] = call]
  <1>1. s \in Seq(Calls) /\ s # <<>>
    BY TopFacts DEF FInv
  <1>2. Len(s) \in Nat \ {0} /\ Len(t) = Len(s) /\ t[Len(s)] = call
            /\ \A i \in 1 .. Len(s) - 1 : t[i] = s[i]
    BY <1>1, ChangedStack
  <1>3. stacks' = [stacks EXCEPT ![w] = t]
    BY DEF Becomes
  <1> HIDE DEF t
  <1>4. \A i \in 1 .. Len(t) : Fit(t[i], Cached(values))
    <2>1. \A i \in 1 .. Len(t) : i \in 1 .. Len(s) /\ (i \in 1 .. Len(s) - 1 \/ i = Len(s))
      BY <1>2
    <2> QED
      BY <1>2, <2>1 DEF Pending
  <1> QED
    BY <1>3, <1>4, OwnPending DEF FInv

\* The innermost call is as fit as the rest.
LEMMA TopFit ==
    ASSUME Stacked, Pending, NEW w \in Workers, Active(w)
    PROVE  Top(w) \in Calls /\ Top(w).locator \in Locators /\ Fit(Top(w), Cached(values))
  <1>1. Len(stacks[w]) \in Nat \ {0} /\ Top(w) = stacks[w][Len(stacks[w])] /\ Top(w) \in Calls
    BY TopFacts
  <1>2. Len(stacks[w]) \in 1 .. Len(stacks[w])
    BY <1>1
  <1> QED
    BY <1>1, <1>2 DEF Pending, Calls

-----------------------------------------------------------------------------
\* The look-up: a hit, a build that starts, a wait.
LEMMA LooksPending ==
    ASSUME PInv, NEW w \in Workers, Hit(w) \/ StartBuild(w) \/ Wait(w) \/ Cancel(w)
    PROVE  Accounted' /\ Pending'
  <1>1. CASE Hit(w)
    <2>1. Used(values, Top(w).locator) \in Seq(Locators) /\ Distinct(Used(values, Top(w).locator))
              /\ Cached(Used(values, Top(w).locator)) = Cached(values)
      BY <1>1, UsedFacts DEF PInv, Accounted, Hit
    <2>2. Cached(values') = Cached(values)
      BY <1>1, <2>1 DEF Hit
    <2>3. Accounted'
      BY <1>1, <2>1 DEF PInv, Accounted, Hit, Cached, Distinct, TotalCharge
    <2>4. Pending'
      BY <1>1, <2>2, ReturnPending DEF PInv, Hit, At
    <2> QED
      BY <2>3, <2>4
  <1>2. CASE StartBuild(w)
    <2> DEFINE call == [Top(w) EXCEPT !.step = "build"]
    <2>1. Active(w) /\ Becomes(w, call) /\ values' = values /\ UNCHANGED <<bytes, maximum>>
              /\ Top(w).locator \notin Cached(values)
      BY <1>2 DEF StartBuild, At, MustBuild
    <2>2. Top(w) \in Calls /\ Fit(Top(w), Cached(values))
      BY <2>1, TopFit DEF PInv, FInv
    <2>3. call \in Calls /\ call.locator = Top(w).locator /\ call.inner = Top(w).inner
      BY <2>2 DEF Calls, CallSteps
    <2> HIDE DEF call
    <2>4. Fit(call, Cached(values))
      BY <2>1, <2>2, <2>3 DEF Fit
    <2>5. Pending'
      BY <2>1, <2>3, <2>4, TopPending DEF PInv
    <2> QED
      BY <2>1, <2>5 DEF PInv, Accounted
  <1>3. CASE Wait(w)
    <2> DEFINE call == [Top(w) EXCEPT !.step = "wait"]
    <2>1. Active(w) /\ Becomes(w, call) /\ values' = values /\ UNCHANGED <<bytes, maximum>>
      BY <1>3 DEF Wait, At
    <2>2. Top(w) \in Calls /\ Fit(Top(w), Cached(values))
      BY <2>1, TopFit DEF PInv, FInv
    <2>3. call \in Calls /\ call.locator = Top(w).locator /\ call.inner = Top(w).inner
              /\ call.step = "wait"
      BY <2>2 DEF Calls, CallSteps
    <2> HIDE DEF call
    <2>4. Fit(call, Cached(values))
      BY <2>2, <2>3 DEF Fit
    <2>5. Pending'
      BY <2>1, <2>3, <2>4, TopPending DEF PInv
    <2> QED
      BY <2>1, <2>5 DEF PInv, Accounted
  <1>4. CASE Cancel(w)
    <2>1. values' = values /\ UNCHANGED <<bytes, maximum>>
      BY <1>4 DEF Cancel
    <2>2. Pending'
      BY <1>4, <2>1, ReturnPending DEF PInv, Cancel, At
    <2> QED
      BY <2>1, <2>2 DEF PInv, Accounted
  <1> QED
    BY <1>1, <1>2, <1>3, <1>4

\* A call begins, of a worker or of a build.
LEMMA CallsPending ==
    ASSUME PInv, NEW w \in Workers, NEW l \in Locators, Remember(w, l) \/ Nest(w, l)
    PROVE  Accounted' /\ Pending'
  <1>1. values' = values /\ UNCHANGED <<bytes, maximum>>
    BY DEF Remember, Nest
  <1>2. Fit(Call(l), Cached(values))
    BY NestingAssumption DEF Fit, Call
  <1>3. CASE Remember(w, l)
    <2>1. stacks' = [stacks EXCEPT ![w] = <<Call(l)>>]
      BY <1>3 DEF Remember
    <2>2. Len(<<Call(l)>>) = 1 /\ <<Call(l)>>[1] = Call(l)
      OBVIOUS
    <2>3. \A i \in 1 .. Len(<<Call(l)>>) : Fit(<<Call(l)>>[i], Cached(values))
      BY <1>2, <2>2
    <2>4. Pending'
      BY <1>1, <2>1, <2>3, OwnPending DEF PInv, FInv
    <2> QED
      BY <1>1, <2>4 DEF PInv, Accounted
  <1>4. CASE Nest(w, l)
    <2> DEFINE s == stacks[w]
               call == [Top(w) EXCEPT !.inner = @ \ {l}]
               r == Returned(s)
               q == Append(r, call)
               t == q \o <<Call(l)>>
    <2>1. s \in Seq(Calls) /\ s # <<>> /\ Top(w) \in Calls /\ Fit(Top(w), Cached(values))
      BY <1>4, TopFacts, TopFit DEF PInv, FInv, Nest, At
    <2>2. call \in Calls /\ call.locator = Top(w).locator /\ call.step = Top(w).step
              /\ call.inner \subseteq Top(w).inner
      BY <2>1 DEF Calls
    <2>3. Call(l) \in Calls
      BY NestingAssumption DEF Call, Calls, CallSteps
    <2>4. stacks' = [stacks EXCEPT ![w] = t]
      BY <1>4 DEF Nest
    <2> HIDE DEF call
    <2>5. Fit(call, Cached(values))
      BY <2>1, <2>2 DEF Fit
    <2>6. r \in Seq(Calls) /\ Len(s) \in Nat \ {0} /\ Len(r) = Len(s) - 1
              /\ \A i \in 1 .. Len(s) - 1 : r[i] = s[i]
      BY <2>1, ReturnedStack
    <2> HIDE DEF r
    <2>7. q \in Seq(Calls) /\ Len(q) = Len(s) /\ q[Len(s)] = call
              /\ \A i \in 1 .. Len(s) - 1 : q[i] = s[i]
      BY <2>2, <2>6, AppendProperties
    <2> HIDE DEF q
    <2>8. t = Append(q, Call(l))
      BY <2>3, <2>7, AppendIsConcat
    <2> HIDE DEF t
    <2>9. Len(t) = Len(s) + 1 /\ t[Len(s) + 1] = Call(l) /\ \A i \in 1 .. Len(s) : t[i] = q[i]
      BY <2>3, <2>7, <2>8, AppendProperties
    <2>10. ASSUME NEW i \in 1 .. Len(t) PROVE Fit(t[i], Cached(values))
      <3>1. i = Len(s) + 1 \/ i = Len(s) \/ i \in 1 .. Len(s) - 1
        BY <2>6, <2>9
      <3>2. CASE i = Len(s) + 1
        BY <1>2, <2>9, <3>2
      <3>3. CASE i = Len(s)
        <4>1. i \in 1 .. Len(s)
          BY <2>6, <3>3
        <4> QED
          BY <2>5, <2>7, <2>9, <3>3, <4>1
      <3>4. CASE i \in 1 .. Len(s) - 1
        <4>1. i \in 1 .. Len(s)
          BY <2>6, <3>4
        <4> QED
          BY <2>7, <2>9, <3>4, <4>1 DEF PInv, Pending
      <3> QED
        BY <3>1, <3>2, <3>3, <3>4
    <2>11. Pending'
      BY <1>1, <2>4, <2>10, OwnPending DEF PInv, FInv
    <2> QED
      BY <1>1, <2>11 DEF PInv, Accounted
  <1> QED
    BY <1>3, <1>4

\* A build in charge ends: nobody else builds its entry, so that what it enters is nobody's.
LEMMA EndPending ==
    ASSUME PInv, NEW w \in Workers, At(w, "build"),
           Becomes(w, [Top(w) EXCEPT !.step = "built"]),
           Cached(values') \subseteq Cached(values) \cup {Top(w).locator}
    PROVE  Pending'
  <1> DEFINE s == stacks[w]
             n == Len(s)
             call == [Top(w) EXCEPT !.step = "built"]
             t == [s EXCEPT ![n] = call]
             l == Top(w).locator
  <1>1. s \in Seq(Calls) /\ s # <<>> /\ Top(w) = s[n] /\ Top(w) \in Calls /\ l \in Locators
            /\ Top(w).step = "build" /\ Fit(Top(w), Cached(values))
    BY TopFacts, TopFit DEF PInv, FInv, At
  <1>2. call \in Calls /\ call.locator = l /\ call.step = "built" /\ call.inner = Top(w).inner
    BY <1>1 DEF Calls, CallSteps
  <1>3. Fit(call, Cached(values'))
    BY <1>1, <1>2 DEF Fit
  <1>4. stacks' = [stacks EXCEPT ![w] = t]
    BY DEF Becomes
  <1> HIDE DEF call
  <1>5. n \in Nat \ {0} /\ Len(t) = n /\ t[n] = call /\ \A i \in 1 .. n - 1 : t[i] = s[i]
    BY <1>1, <1>2, ChangedStack
  <1>6. Builds(s, n, l)
    BY <1>1, <1>5 DEF Builds
  <1>7. \A v \in Workers : stacks'[v] = IF v = w THEN t ELSE stacks[v]
    BY <1>4 DEF PInv, FInv, Stacked
  <1> HIDE DEF t
  <1>8. ASSUME NEW v \in Workers, NEW i \in 1 .. Len(stacks[v]), ~(v = w /\ i = n)
        PROVE  Fit(stacks[v][i], Cached(values'))
    <2> DEFINE c == stacks[v][i]
    <2>1. Fit(c, Cached(values)) /\ c \in Calls /\ i \in Nat
      <3>1. stacks[v] \in Seq(Calls) /\ i \in Nat
        BY DEF PInv, FInv, Stacked
      <3> QED
        BY <3>1, ElementOfSeq DEF PInv, Pending
    <2>2. ASSUME c.step = "build" PROVE c.locator # l
      <3>1. Builds(stacks[v], i, c.locator)
        BY <2>2 DEF Builds
      <3>2. n \in Nat /\ i \in Nat
        BY <1>5, <2>1
      <3> QED
        BY <1>1, <1>6, <1>8, <3>1, <3>2 DEF PInv, FInv, Flights
    <2> HIDE DEF c
    <2>3. Fit(c, Cached(values'))
      BY <2>1, <2>2 DEF Fit
    <2> QED
      BY <2>3 DEF c
  <1>9. ASSUME NEW v \in Workers, NEW i \in 1 .. Len(stacks'[v])
        PROVE  Fit(stacks'[v][i], Cached(values'))
    <2>1. CASE v = w /\ i = n
      BY <1>3, <1>5, <1>7, <2>1
    <2>2. CASE v = w /\ i # n
      <3>1. i \in 1 .. n - 1 /\ i \in 1 .. Len(stacks[v])
        BY <1>5, <1>7, <2>2
      <3> QED
        BY <1>5, <1>7, <1>8, <2>2, <3>1
    <2>3. CASE v # w
      BY <1>7, <1>8, <2>3
    <2> QED
      BY <2>1, <2>2, <2>3
  <1> QED
    BY <1>9 DEF Pending, Fit, Cached

LEMMA EnterAccounted ==
    ASSUME PInv, NEW w \in Workers, Enter(w)
    PROVE  Accounted' /\ Pending'
  <1> DEFINE l == Top(w).locator
             gone == Evicted(values, Priority[l], bytes + Charge[l] - maximum)
             left == Without(values, gone)
             debited == bytes - TotalCharge(gone)
  <1>1. Active(w) /\ Becomes(w, [Top(w) EXCEPT !.step = "built"]) /\ maximum' = maximum
            /\ At(w, "build")
    BY DEF Enter, At
  <1>2. l \in Locators /\ l \notin Cached(values)
    BY <1>1, TopFit DEF PInv, FInv, At, Fit
  <1>3. gone \in SUBSET Cached(values)
    BY DEF Evicted, Victims
  <1>4. \/ UNCHANGED <<values, bytes>>
        \/ debited + Charge[l] <= maximum /\ values' = Append(left, l) /\ bytes' = debited + Charge[l]
        \/ values' = left /\ bytes' = debited
    BY DEF Enter
  <1> HIDE DEF gone
  <1>5. CASE UNCHANGED <<values, bytes>>
    <2>1. Accounted'
      BY <1>1, <1>5 DEF PInv, Accounted
    <2>2. Pending'
      BY <1>1, <1>5, EndPending DEF Cached
    <2> QED
      BY <2>1, <2>2
  <1>6. CASE values' = left /\ bytes' = debited
    <2>1. Accounted' /\ Cached(values') \subseteq Cached(values)
      BY <1>1, <1>3, <1>6, AccountGoes DEF PInv
    <2>2. Pending'
      BY <1>1, <2>1, EndPending
    <2> QED
      BY <2>1, <2>2
  <1>7. CASE debited + Charge[l] <= maximum /\ values' = Append(left, l)
             /\ bytes' = debited + Charge[l]
    <2>1. /\ left \in Seq(Locators) /\ Distinct(left)
          /\ Cached(left) = Cached(values) \ gone
          /\ TotalCharge(Cached(left)) = TotalCharge(Cached(values)) - TotalCharge(gone)
      BY <1>3, AccountLeft DEF PInv, Accounted
    <2>2. TotalCharge(Cached(left)) = debited
      BY <2>1 DEF PInv, Accounted
    <2> HIDE DEF left, debited
    <2>3. /\ Append(left, l) \in Seq(Locators) /\ Distinct(Append(left, l))
          /\ Cached(Append(left, l)) = Cached(left) \cup {l}
          /\ TotalCharge(Cached(Append(left, l))) = TotalCharge(Cached(left)) + Charge[l]
      BY <1>2, <2>1, AccountMore
    <2>4. values' \in Seq(Locators) /\ Distinct(values') /\ bytes' = TotalCharge(Cached(values'))
      BY <1>7, <2>2, <2>3
    <2>5. bytes' <= maximum' /\ maximum' \in 0 .. Budget
      BY <1>1, <1>7 DEF PInv, Accounted
    <2>6. Accounted'
      BY <2>4, <2>5 DEF Accounted, Distinct, Cached, TotalCharge
    <2>7. Cached(values') \subseteq Cached(values) \cup {l}
      BY <1>7, <2>1, <2>3
    <2>8. Pending'
      BY <1>1, <2>7, EndPending
    <2> QED
      BY <2>6, <2>8
  <1> QED
    BY <1>4, <1>5, <1>6, <1>7

LEMMA EndsAccounted ==
    ASSUME PInv, NEW w \in Workers, EndWithout(w) \/ Settle(w)
    PROVE  Accounted' /\ Pending'
  <1>1. values' = values /\ UNCHANGED <<bytes, maximum>>
    BY DEF EndWithout, Settle
  <1>2. Accounted'
    BY <1>1 DEF PInv, Accounted
  <1>3. CASE EndWithout(w)
    <2>1. At(w, "build") /\ Becomes(w, [Top(w) EXCEPT !.step = "built"])
      BY <1>3 DEF EndWithout
    <2>2. Pending'
      BY <1>1, <2>1, EndPending DEF Cached
    <2> QED
      BY <1>2, <2>2
  <1>4. CASE Settle(w)
    <2> DEFINE s == stacks[w]
               m == Top(w).locator
               t == Returned(s)
    <2>1. s \in Seq(Calls) /\ s # <<>>
      BY <1>4, TopFacts DEF PInv, FInv, Settle, At
    <2>2. t \in Seq(Calls) /\ Len(s) \in Nat \ {0} /\ Len(t) = Len(s) - 1
              /\ \A i \in 1 .. Len(s) - 1 : t[i] = s[i]
      BY <2>1, ReturnedStack
    <2>3. stacks' = [v \in Workers |-> IF v = w THEN t ELSE Woken(stacks[v], m)]
      BY <1>4 DEF Settle
    <2> HIDE DEF t
    <2>4. ASSUME NEW v \in Workers, NEW i \in 1 .. Len(stacks'[v])
          PROVE  Fit(stacks'[v][i], Cached(values))
      <3>1. CASE v = w
        <4>1. i \in 1 .. Len(s) /\ stacks'[v][i] = s[i]
          BY <2>2, <2>3, <3>1
        <4> QED
          BY <4>1 DEF PInv, Pending
      <3>2. CASE v # w
        <4> DEFINE z == stacks[v]
                   Waking(c) == IF c.locator = m /\ c.step = "wait" THEN [c EXCEPT !.step = "look"] ELSE c
        <4>1. z \in Seq(Calls) /\ Len(z) \in Nat /\ DOMAIN z = 1 .. Len(z)
                  /\ \A k \in 1 .. Len(z) : z[k] \in Calls
          BY LenProperties, ElementOfSeq DEF PInv, FInv, Stacked
        <4>2. \A c \in Calls :
                  /\ Waking(c) \in Calls
                  /\ Waking(c).locator = c.locator
                  /\ Waking(c).step = "build" => c.step = "build"
                  /\ Waking(c).inner = c.inner
          BY DEF Calls, CallSteps
        <4>3. stacks'[v] = [k \in 1 .. Len(z) |-> Waking(z[k])]
          BY <2>3, <3>2, <4>1 DEF Woken
        <4> HIDE DEF Waking
        <4>4. Len(stacks'[v]) = Len(z)
          BY <4>1, <4>2, <4>3
        <4>5. i \in 1 .. Len(z) /\ stacks'[v][i] = Waking(z[i])
          BY <4>3, <4>4
        <4>6. Fit(z[i], Cached(values))
          BY <4>5 DEF PInv, Pending
        <4> QED
          BY <4>1, <4>2, <4>5, <4>6 DEF Fit
      <3> QED
        BY <3>1, <3>2
    <2>5. Pending'
      BY <1>1, <2>4 DEF Pending, Fit, Cached
    <2> QED
      BY <1>2, <2>5
  <1> QED
    BY <1>3, <1>4

-----------------------------------------------------------------------------
\* A smaller reserve gives up what it must.
LEMMA RestrictAccounted ==
    ASSUME PInv, NEW limit \in 0 .. Budget, RestrictTo(limit)
    PROVE  Accounted' /\ Cached(values') \subseteq Cached(values)
  <1> DEFINE gone == Evicted(values, 2, bytes - limit)
  <1>1. gone \in SUBSET Cached(values)
    BY DEF Evicted, Victims
  <1>2. values' = Without(values, gone) /\ bytes' = bytes - TotalCharge(gone) /\ maximum' = limit
            /\ limit \in Nat
    BY BoundsAssumption DEF RestrictTo, Excess
  <1>3. values \in Seq(Locators) /\ Distinct(values) /\ bytes = TotalCharge(Cached(values))
    BY DEF PInv, Accounted
  <1>4. /\ Without(values, gone) \in Seq(Locators) /\ Distinct(Without(values, gone))
        /\ Cached(Without(values, gone)) = Cached(values) \ gone
        /\ TotalCharge(Cached(Without(values, gone))) = TotalCharge(Cached(values)) - TotalCharge(gone)
        /\ TotalCharge(Cached(values)) \in Nat /\ TotalCharge(gone) \in Nat
        /\ TotalCharge(Cached(Without(values, gone))) \in Nat
    BY <1>1, <1>3, AccountLeft
  <1>5. bytes - limit \in Int
    BY <1>2, <1>3, <1>4
  <1>6. gone = Cached(values) \/ TotalCharge(gone) >= bytes - limit
    BY <1>3, <1>5, EvictedFrees
  <1> HIDE DEF gone
  <1>7. bytes' <= limit
    <2>1. CASE gone = Cached(values)
      BY <1>2, <1>3, <1>4, <2>1
    <2>2. CASE TotalCharge(gone) >= bytes - limit
      BY <1>2, <1>3, <1>4, <2>2
    <2> QED
      BY <1>6, <2>1, <2>2
  <1>8. values' \in Seq(Locators) /\ Distinct(values') /\ bytes' = TotalCharge(Cached(values'))
            /\ Cached(values') \subseteq Cached(values)
    BY <1>2, <1>3, <1>4
  <1> QED
    BY <1>2, <1>7, <1>8 DEF Accounted, Distinct, Cached, TotalCharge

LEMMA RestAccounted ==
    ASSUME PInv, DiscardScope \/ Clear
    PROVE  Accounted' /\ Cached(values') \subseteq Cached(values)
  <1>1. CASE DiscardScope
    <2> DEFINE S == Scoped \cap Cached(values)
    <2>1. values' = Without(values, Scoped) /\ bytes' = bytes - TotalCharge(S) /\ maximum' = maximum
      BY <1>1 DEF DiscardScope
    <2>2. Without(values, Scoped) \in Seq(Locators) /\ Distinct(Without(values, Scoped))
              /\ Cached(Without(values, Scoped)) = Cached(values) \ S
      BY WithoutFacts DEF PInv, Accounted
    <2>3. S \in SUBSET Cached(values)
      OBVIOUS
    <2> HIDE DEF S
    <2>4. /\ Cached(Without(values, S)) = Cached(values) \ S
          /\ TotalCharge(Cached(Without(values, S))) = TotalCharge(Cached(values)) - TotalCharge(S)
          /\ TotalCharge(Cached(values)) \in Nat /\ TotalCharge(S) \in Nat
      BY <2>3, AccountLeft DEF PInv, Accounted
    <2>5. values' \in Seq(Locators) /\ Distinct(values') /\ bytes' = TotalCharge(Cached(values'))
              /\ Cached(values') \subseteq Cached(values)
      BY <2>1, <2>2, <2>4 DEF PInv, Accounted
    <2>6. bytes' <= maximum' /\ maximum' \in 0 .. Budget
      BY <2>1, <2>4, BoundsAssumption DEF PInv, Accounted
    <2> QED
      BY <2>5, <2>6 DEF Accounted, Distinct, Cached, TotalCharge
  <1>2. CASE Clear
    <2>1. values' = <<>> /\ bytes' = 0 /\ maximum' = maximum
      BY <1>2 DEF Clear
    <2>2. Cached(values') = {} /\ Distinct(values') /\ values' \in Seq(Locators)
      BY <2>1, EmptySeq DEF Cached, Distinct
    <2>3. Weight(Charge, {}) = 0
      BY FS_EmptySet DEF Weight, Charges
    <2>4. TotalCharge(Cached(values')) = 0
      BY <2>2, <2>3, TotalOfLocators
    <2>5. 0 <= maximum'
      BY <2>1, BoundsAssumption DEF PInv, Accounted
    <2>6. Accounted'
      BY <2>1, <2>2, <2>4, <2>5 DEF PInv, Accounted, Distinct, Cached, TotalCharge
    <2> QED
      BY <2>2, <2>6
  <1> QED
    BY <1>1, <1>2

LEMMA AccountInit == Init => PInv
  <1> SUFFICES ASSUME Init PROVE PInv
    OBVIOUS
  <1>1. Cached(values) = {} /\ Distinct(values) /\ values \in Seq(Locators)
    BY EmptySeq DEF Init, Cached, Distinct
  <1>2. Weight(Charge, {}) = 0
    BY FS_EmptySet DEF Weight, Charges
  <1>3. TotalCharge({}) = 0
    BY <1>2, TotalOfLocators
  <1>4. Accounted
    <2>1. bytes = 0 /\ maximum = Budget /\ Budget \in Nat
      BY BoundsAssumption DEF Init
    <2>2. maximum \in 0 .. Budget /\ bytes <= maximum
      BY <2>1
    <2>3. bytes = TotalCharge(Cached(values))
      BY <1>1, <1>3, <2>1
    <2> QED
      BY <1>1, <2>2, <2>3 DEF Accounted
  <1>5. \A w \in Workers : stacks[w] = <<>> /\ Len(stacks[w]) = 0
    BY EmptySeq DEF Init
  <1>6. Pending
    BY <1>5 DEF Pending
  <1>7. calls \in [Workers -> 0 .. MaxCalls]
    BY BoundsAssumption DEF Init
  <1> QED
    BY <1>4, <1>6, <1>7, FlightsInit DEF PInv

LEMMA AccountStep == PInv /\ [Next]_vars => PInv'
  <1> SUFFICES ASSUME PInv, [Next]_vars PROVE PInv'
    OBVIOUS
  <1>1. FInv'
    BY FlightsStep DEF PInv
  <1>2. calls' \in [Workers -> 0 .. MaxCalls]
    <2>1. ASSUME NEW w \in Workers, NEW l \in Locators, Remember(w, l)
          PROVE  calls' \in [Workers -> 0 .. MaxCalls]
      <3>1. calls[w] \in 0 .. MaxCalls /\ calls[w] < MaxCalls /\ calls' = [calls EXCEPT ![w] = @ + 1]
        BY <2>1 DEF PInv, Remember
      <3>2. calls[w] + 1 \in 0 .. MaxCalls
        BY <3>1, BoundsAssumption
      <3> QED
        BY <3>1, <3>2 DEF PInv
    <2>2. CASE \E w \in Workers, l \in Locators : Remember(w, l)
      BY <2>1, <2>2
    <2>3. CASE UNCHANGED calls
      BY <2>3 DEF PInv
    <2> QED
      BY <2>2, <2>3 DEF Next, vars, Progress, Hit, StartBuild, Wait, Nest, Enter, EndWithout, Settle,
                        Cancel, RestrictTo, DiscardScope, Clear
  <1>3. Accounted' /\ Pending'
    <2>1. ASSUME UNCHANGED stacks, Cached(values') \subseteq Cached(values) PROVE Pending'
      <3>1. ASSUME NEW w \in Workers, NEW i \in 1 .. Len(stacks[w])
            PROVE  Fit(stacks[w][i], Cached(values'))
        BY <2>1 DEF PInv, Pending, Fit
      <3> QED
        BY <2>1, <3>1 DEF Pending, Fit, Cached
    <2>2. CASE \E w \in Workers, l \in Locators : Remember(w, l) \/ Nest(w, l)
      BY <2>2, CallsPending
    <2>3. CASE \E w \in Workers : Hit(w) \/ StartBuild(w) \/ Wait(w) \/ Cancel(w)
      BY <2>3, LooksPending
    <2>4. CASE \E w \in Workers : Enter(w)
      BY <2>4, EnterAccounted
    <2>5. CASE \E w \in Workers : EndWithout(w) \/ Settle(w)
      BY <2>5, EndsAccounted
    <2>6. CASE \E limit \in 0 .. Budget : RestrictTo(limit)
      BY <2>1, <2>6, RestrictAccounted DEF RestrictTo
    <2>7. CASE DiscardScope \/ Clear
      BY <2>1, <2>7, RestAccounted DEF DiscardScope, Clear
    <2>8. CASE UNCHANGED vars
      BY <2>1, <2>8 DEF vars, PInv, Accounted
    <2> QED
      BY <2>2, <2>3, <2>4, <2>5, <2>6, <2>7, <2>8 DEF Next, Progress
  <1> QED
    BY <1>1, <1>2, <1>3 DEF PInv

LEMMA AccountIsRight == PInv => TypeOK /\ ReserveIsExact
  <1> SUFFICES ASSUME PInv PROVE TypeOK /\ ReserveIsExact
    OBVIOUS
  <1>1. Cached(values) \subseteq Locators /\ IsFiniteSet(Cached(values))
    BY CachedFinite DEF PInv, Accounted
  <1>2. Weight(Charge, Cached(values)) \in Nat
    BY <1>1, ChargesFinite, EntriesAssumption
  <1>3. bytes \in Nat
    BY <1>1, <1>2, TotalOfLocators DEF PInv, Accounted
  <1>4. ASSUME NEW w \in Workers, NEW i \in DOMAIN stacks[w]
        PROVE  /\ stacks[w][i].locator \in Locators
               /\ stacks[w][i].step \in CallSteps
               /\ stacks[w][i].inner \subseteq Inner[stacks[w][i].locator]
    <2>1. stacks[w] \in Seq(Calls)
      BY DEF PInv, FInv, Stacked
    <2>2. i \in 1 .. Len(stacks[w]) /\ stacks[w][i] \in Calls
      BY <2>1, ElementOfSeq
    <2> QED
      BY <2>2 DEF PInv, Pending, Fit, Calls
  <1>5. TypeOK
    BY <1>1, <1>3, <1>4 DEF TypeOK, PInv, FInv, Flights, Accounted
  <1> QED
    BY <1>5 DEF PInv, Accounted, ReserveIsExact

\* Evidence stays: what comes in, and what goes for it.
LEMMA PreparationKeepsEvidence ==
    ASSUME PInv, [Next]_vars PROVE FlushesNoEvidence(values, values')
  <1>1. ASSUME Cached(values') \subseteq Cached(values) PROVE FlushesNoEvidence(values, values')
    BY <1>1 DEF FlushesNoEvidence
  <1>2. CASE \E w \in Workers : Hit(w)
    <2>1. PICK w \in Workers : Hit(w)
      BY <1>2
    <2>2. Cached(Used(values, Top(w).locator)) = Cached(values)
      BY <2>1, UsedFacts DEF PInv, Accounted, Hit
    <2> QED
      BY <1>1, <2>1, <2>2 DEF Hit
  <1>3. CASE \E w \in Workers : Enter(w)
    <2>1. PICK w \in Workers : Enter(w)
      BY <1>3
    <2> DEFINE l == Top(w).locator
               gone == Evicted(values, Priority[l], bytes + Charge[l] - maximum)
               left == Without(values, gone)
    <2>2. \/ UNCHANGED values
          \/ values' = Append(left, l)
          \/ values' = left
      BY <2>1 DEF Enter
    <2>3. l \in Locators
      BY <2>1, TopFit DEF PInv, FInv, Enter, At
    <2>4. \A d \in gone : Priority[d] <= Priority[l]
      BY DEF Evicted, Victims, PriorityOf
    <2> HIDE DEF gone
    <2>5. left \in Seq(Locators) /\ Cached(left) = Cached(values) \ gone
      BY WithoutFacts DEF PInv, Accounted
    <2> HIDE DEF left
    <2>6. Cached(Append(left, l)) = Cached(left) \cup {l}
      BY <2>3, <2>5, AppendFacts
    <2>7. CASE values' = Append(left, l)
      <3>1. \A new \in Cached(values') \ Cached(values) : new = l
        BY <2>5, <2>6, <2>7
      <3>2. \A old \in Cached(values) \ Cached(values') : old \in gone
        BY <2>5, <2>6, <2>7
      <3> QED
        BY <2>4, <3>1, <3>2 DEF FlushesNoEvidence, PriorityOf
    <2>8. CASE values' = left \/ UNCHANGED values
      BY <1>1, <2>5, <2>8
    <2> QED
      BY <2>2, <2>7, <2>8
  <1>4. CASE (\E limit \in 0 .. Budget : RestrictTo(limit)) \/ DiscardScope \/ Clear
    BY <1>1, <1>4, RestrictAccounted, RestAccounted
  <1>5. CASE UNCHANGED values
    BY <1>1, <1>5
  <1> QED
    BY <1>2, <1>3, <1>4, <1>5 DEF Next, vars, Progress, Remember, StartBuild, Wait, Nest, EndWithout,
                                  Settle, Cancel

-----------------------------------------------------------------------------
(* The memo of a session. *)

MemoEntries == [scope : Nat, kind : {"manifest", "bindings"}, result : Results]
MemoCharge == [e \in MemoEntries |-> IF e.kind = "manifest" THEN ManifestCharge ELSE BindingCharge]

MemoAccounted ==
    /\ values \in Seq(MemoEntries) /\ Distinct(values)
    /\ bytes = Weight(MemoCharge, Cached(values)) /\ bytes <= MaximumBytes

LEMMA MemoCardinality == ASSUME NEW S PROVE Memo!Cardinality(S) = Cardinality(S)
  BY DEF Memo!Cardinality, Cardinality

\* The memo orders its entries as the preparation does.
LEMMA MemoOperators ==
    ASSUME NEW s, NEW S
    PROVE  /\ Memo!Cached(s) = Cached(s)
           /\ Memo!Distinct(s) <=> Distinct(s)
           /\ Memo!Without(s, S) = Without(s, S)
  <1>1. Memo!Cached(s) = Cached(s)
    BY DEF Memo!Cached, Cached
  <1>2. Memo!Distinct(s) <=> Distinct(s)
    BY DEF Memo!Distinct, Distinct
  <1>3. Memo!Without(s, S) = Without(s, S)
    BY DEF Memo!Without, Without, Memo!Cardinality, Cardinality
  <1> QED
    BY <1>1, <1>2, <1>3

LEMMA MemoCharges ==
    /\ MemoCharge \in [MemoEntries -> Nat]
    /\ \A e \in MemoEntries : Memo!ChargeOf(e) = MemoCharge[e]
  BY ChargesAssumption DEF MemoCharge, MemoEntries, Memo!ChargeOf

LEMMA MemoTotal ==
    ASSUME NEW S \in SUBSET MemoEntries
    PROVE  Memo!TotalCharge(S) = Weight(MemoCharge, S)
  <1>1. \A e \in S : {e} \X (1 .. Memo!ChargeOf(e)) = {e} \X (1 .. MemoCharge[e])
    BY MemoCharges
  <1>2. UNION {{e} \X (1 .. Memo!ChargeOf(e)) : e \in S} = UNION {{e} \X (1 .. MemoCharge[e]) : e \in S}
    BY <1>1
  <1>3. Memo!TotalCharge(S) = Memo!Cardinality(UNION {{e} \X (1 .. Memo!ChargeOf(e)) : e \in S})
    BY DEF Memo!TotalCharge
  <1>4. Weight(MemoCharge, S) = Cardinality(UNION {{e} \X (1 .. MemoCharge[e]) : e \in S})
    BY DEF Weight, Charges
  <1> QED
    BY <1>2, <1>3, <1>4, MemoCardinality

\* Entries of the memo go, and the account with them.
LEMMA MemoGoes ==
    ASSUME NEW s \in Seq(MemoEntries), Distinct(s), NEW S
    PROVE  /\ Without(s, S) \in Seq(MemoEntries) /\ Distinct(Without(s, S))
           /\ Cached(Without(s, S)) = Cached(s) \ S
           /\ Weight(MemoCharge, Cached(s)) \in Nat
           /\ Weight(MemoCharge, Cached(s) \cap S) \in Nat
           /\ Weight(MemoCharge, Cached(Without(s, S)))
                = Weight(MemoCharge, Cached(s)) - Weight(MemoCharge, Cached(s) \cap S)
           /\ Weight(MemoCharge, Cached(Without(s, S))) \in Nat
  <1> DEFINE gone == Cached(s) \cap S
  <1>1. Without(s, S) \in Seq(MemoEntries) /\ Distinct(Without(s, S))
            /\ Cached(Without(s, S)) = Cached(s) \ S
    BY WithoutFacts
  <1>2. IsFiniteSet(Cached(s)) /\ Cached(s) \in SUBSET MemoEntries
    BY CachedFinite
  <1>3. Cached(s) \ S = Cached(s) \ gone
    OBVIOUS
  <1>6. gone \in SUBSET Cached(s)
    OBVIOUS
  <1>5. MemoCharge \in [MemoEntries -> Nat]
    BY MemoCharges
  <1> HIDE DEF gone
  <1>4. /\ Weight(MemoCharge, Cached(s) \ gone) = Weight(MemoCharge, Cached(s)) - Weight(MemoCharge, gone)
        /\ Weight(MemoCharge, Cached(s)) \in Nat /\ Weight(MemoCharge, gone) \in Nat
        /\ Weight(MemoCharge, Cached(s) \ gone) \in Nat
    BY <1>2, <1>5, <1>6, WeightLeft
  <1> QED
    BY <1>1, <1>3, <1>4 DEF gone

LEMMA MemoMore ==
    ASSUME NEW s \in Seq(MemoEntries), Distinct(s), NEW e \in MemoEntries, e \notin Cached(s)
    PROVE  /\ Append(s, e) \in Seq(MemoEntries) /\ Distinct(Append(s, e))
           /\ Cached(Append(s, e)) = Cached(s) \cup {e}
           /\ Weight(MemoCharge, Cached(Append(s, e))) = Weight(MemoCharge, Cached(s)) + MemoCharge[e]
  <1>1. Append(s, e) \in Seq(MemoEntries) /\ Distinct(Append(s, e))
            /\ Cached(Append(s, e)) = Cached(s) \cup {e}
    BY AppendFacts
  <1>2. IsFiniteSet(Cached(s)) /\ Cached(s) \in SUBSET MemoEntries
    BY CachedFinite
  <1>3. IsFiniteSet({e}) /\ {e} \in SUBSET MemoEntries /\ Cached(s) \cap {e} = {}
    BY FS_Singleton
  <1>4. Weight(MemoCharge, Cached(s) \cup {e}) = Weight(MemoCharge, Cached(s)) + Weight(MemoCharge, {e})
    BY <1>2, <1>3, MemoCharges, WeightAdds
  <1>5. Weight(MemoCharge, {e}) = MemoCharge[e]
    BY MemoCharges, WeightOfOne
  <1> QED
    BY <1>1, <1>4, <1>5

LEMMA MemoGet ==
    ASSUME MemoAccounted, NEW e, Memo!Has(e), Memo!Get(e)
    PROVE  MemoAccounted' /\ Cached(values') = Cached(values)
  <1>1. e \in Cached(values) /\ values' = Memo!Used(values, e) /\ bytes' = bytes
    BY MemoOperators DEF Memo!Has, Memo!Get
  <1>2. Memo!Used(values, e) = Used(values, e)
    BY MemoOperators DEF Memo!Used, Used
  <1>3. Used(values, e) \in Seq(MemoEntries) /\ Distinct(Used(values, e))
            /\ Cached(Used(values, e)) = Cached(values)
    BY <1>1, UsedFacts DEF MemoAccounted
  <1>4. values' \in Seq(MemoEntries) /\ Distinct(values') /\ Cached(values') = Cached(values)
    BY <1>1, <1>2, <1>3
  <1> QED
    BY <1>1, <1>4 DEF MemoAccounted, Distinct, Cached, Weight, Charges

\* What is put flushes nothing of a higher priority, and stays out if it must.
LEMMA MemoPut ==
    ASSUME MemoAccounted, NEW e \in MemoEntries, Memo!Put(e)
    PROVE  /\ MemoAccounted'
           /\ Cached(values') \subseteq Cached(values) \cup {e}
           /\ Memo!FlushesNoEvidence(values, values')
  <1> DEFINE charge == Memo!ChargeOf(e)
             others == Memo!Without(values, {e})
             before == bytes - (IF Memo!Has(e) THEN charge ELSE 0)
             gone == Memo!Evicted(others, Memo!PriorityOf(e), before + charge - MaximumBytes)
             left == Memo!Without(others, gone)
             debited == before - Memo!TotalCharge(gone)
  <1>1. charge = MemoCharge[e]
    BY MemoCharges
  <1>2. others = Without(values, {e})
    BY MemoOperators
  <1>3. left = Without(others, gone)
    BY MemoOperators
  <1>4. \/ UNCHANGED <<values, bytes>>
        \/ values' = left /\ bytes' = debited
        \/ /\ ~(charge > MaximumBytes) /\ ~(left # <<>> /\ debited + charge > MaximumBytes)
           /\ values' = Append(left, e) /\ bytes' = debited + charge
    BY DEF Memo!Put
  <1> HIDE DEF charge, others, left
  <1>5. charge \in Nat /\ MaximumBytes \in Nat
    BY <1>1, MemoCharges, ChargesAssumption
  <1>6. Cached(others) = Cached(values) \ {e} /\ others \in Seq(MemoEntries) /\ Distinct(others)
            /\ Weight(MemoCharge, Cached(others)) = before
            /\ before \in Nat /\ before <= MaximumBytes
    <2>1. /\ Cached(others) = Cached(values) \ {e} /\ others \in Seq(MemoEntries) /\ Distinct(others)
          /\ Weight(MemoCharge, Cached(values)) \in Nat
          /\ Weight(MemoCharge, Cached(others))
                = Weight(MemoCharge, Cached(values)) - Weight(MemoCharge, Cached(values) \cap {e})
          /\ Weight(MemoCharge, Cached(others)) \in Nat
      BY <1>2, MemoGoes DEF MemoAccounted
    <2>2. Weight(MemoCharge, {e}) = charge /\ Weight(MemoCharge, {}) = 0
      BY <1>1, MemoCharges, WeightOfOne
    <2>3. Memo!Has(e) <=> e \in Cached(values)
      BY MemoOperators DEF Memo!Has
    <2>4. CASE e \in Cached(values)
      <3>1. Cached(values) \cap {e} = {e}
        BY <2>4
      <3>2. Weight(MemoCharge, Cached(others)) = before
        BY <2>1, <2>2, <2>3, <2>4, <3>1 DEF MemoAccounted
      <3>3. before \in Nat
        BY <2>1, <3>2
      <3>4. before <= bytes /\ bytes <= MaximumBytes /\ bytes \in Nat
        BY <1>5, <2>1, <2>3, <2>4 DEF MemoAccounted
      <3>5. before <= MaximumBytes
        BY <1>5, <3>3, <3>4
      <3> QED
        BY <2>1, <3>2, <3>3, <3>5
    <2>5. CASE e \notin Cached(values)
      <3>1. Cached(values) \cap {e} = {}
        BY <2>5
      <3>2. Weight(MemoCharge, Cached(others)) = before
        BY <2>1, <2>2, <2>3, <2>5, <3>1 DEF MemoAccounted
      <3>3. before \in Nat
        BY <2>1, <3>2
      <3>4. before <= bytes /\ bytes <= MaximumBytes /\ bytes \in Nat
        BY <1>5, <2>1, <2>3, <2>5 DEF MemoAccounted
      <3>5. before <= MaximumBytes
        BY <1>5, <3>3, <3>4
      <3> QED
        BY <2>1, <3>2, <3>3, <3>5
    <2> QED
      BY <2>4, <2>5
  <1>7. gone \in SUBSET Cached(others) /\ \A d \in gone : Memo!PriorityOf(d) <= Memo!PriorityOf(e)
    <2>1. Memo!Cached(others) = Cached(others)
      BY MemoOperators
    <2> QED
      BY <2>1 DEF Memo!Evicted, Memo!Victims
  <1> HIDE DEF gone, before
  <1>8. /\ left \in Seq(MemoEntries) /\ Distinct(left) /\ Cached(left) = Cached(others) \ gone
        /\ Weight(MemoCharge, Cached(left)) = debited
        /\ debited \in Nat /\ debited <= MaximumBytes
    <2>1. /\ left \in Seq(MemoEntries) /\ Distinct(left) /\ Cached(left) = Cached(others) \ gone
          /\ Weight(MemoCharge, Cached(others) \cap gone) \in Nat
          /\ Weight(MemoCharge, Cached(left))
                = Weight(MemoCharge, Cached(others)) - Weight(MemoCharge, Cached(others) \cap gone)
          /\ Weight(MemoCharge, Cached(left)) \in Nat
      BY <1>3, <1>6, MemoGoes
    <2>2. Cached(others) \cap gone = gone
      BY <1>7
    <2>3. gone \in SUBSET MemoEntries
      BY <1>6, <1>7, CachedFinite
    <2>4. Memo!TotalCharge(gone) = Weight(MemoCharge, gone)
      BY <2>3, MemoTotal
    <2>5. Weight(MemoCharge, Cached(left)) = debited
      BY <1>6, <2>1, <2>2, <2>4
    <2>a. Weight(MemoCharge, gone) \in Nat
      BY <2>1, <2>2
    <2>6. before - Weight(MemoCharge, gone) <= MaximumBytes
      BY <1>5, <1>6, <2>a
    <2> QED
      BY <2>1, <2>4, <2>5, <2>6
  <1> HIDE DEF debited
  <1>9. e \notin Cached(left)
    BY <1>6, <1>8
  <1>10. /\ Append(left, e) \in Seq(MemoEntries) /\ Distinct(Append(left, e))
         /\ Cached(Append(left, e)) = Cached(left) \cup {e}
         /\ Weight(MemoCharge, Cached(Append(left, e))) = Weight(MemoCharge, Cached(left)) + charge
    BY <1>1, <1>8, <1>9, MemoMore
  <1>11. CASE UNCHANGED <<values, bytes>>
    <2>1. Cached(values') = Cached(values)
      BY <1>11
    <2> QED
      BY <1>11, <2>1, MemoOperators DEF MemoAccounted, Memo!FlushesNoEvidence
  <1>12. CASE values' = left /\ bytes' = debited
    <2>1. values' \in Seq(MemoEntries) /\ Distinct(values')
              /\ bytes' = Weight(MemoCharge, Cached(values')) /\ bytes' <= MaximumBytes
      BY <1>8, <1>12
    <2>2. MemoAccounted'
      BY <2>1 DEF MemoAccounted, Distinct, Cached, Weight, Charges
    <2>3. Cached(values') \subseteq Cached(values)
      BY <1>6, <1>8, <1>12
    <2> QED
      BY <2>2, <2>3, MemoOperators DEF Memo!FlushesNoEvidence
  <1>13. CASE /\ ~(charge > MaximumBytes) /\ ~(left # <<>> /\ debited + charge > MaximumBytes)
              /\ values' = Append(left, e) /\ bytes' = debited + charge
    <2>1. values' \in Seq(MemoEntries) /\ Distinct(values')
              /\ bytes' = Weight(MemoCharge, Cached(values'))
      BY <1>8, <1>10, <1>13
    <2>2. bytes' <= MaximumBytes
      <3>1. CASE left = <<>>
        <4>1. Cached(left) = {}
          BY <3>1 DEF Cached
        <4>2. debited = 0
          BY <1>8, <4>1, FS_EmptySet DEF Weight, Charges
        <4> QED
          BY <1>5, <1>13, <4>2
      <3>2. CASE left # <<>>
        BY <1>5, <1>8, <1>13, <3>2
      <3> QED
        BY <3>1, <3>2
    <2>3. MemoAccounted'
      BY <2>1, <2>2 DEF MemoAccounted, Distinct, Cached, Weight, Charges
    <2>4. Cached(values') = (Cached(values) \ ({e} \cup gone)) \cup {e}
      BY <1>6, <1>8, <1>10, <1>13
    <2>5. \A new \in Cached(values') \ Cached(values) : new = e
      BY <2>4
    <2>6. \A old \in Cached(values) \ Cached(values') : old \in gone
      BY <2>4
    <2>7. Memo!FlushesNoEvidence(values, values')
      BY <1>7, <2>5, <2>6, MemoOperators DEF Memo!FlushesNoEvidence
    <2> QED
      BY <2>3, <2>4, <2>7
  <1> QED
    BY <1>4, <1>11, <1>12, <1>13

-----------------------------------------------------------------------------
(* Verifications: what a fresh one has found good was good when it began.  *)

Frames == [result : Results, step : {"look", "sources"}, todo : SUBSET Results]
Verifications ==
    [kind : {"reading", "fresh", "closing"}, scope : Nat, result : Results,
     sees : SUBSET Results, frames : Seq(Frames)]

\* A source of a result is one of its ancestors, and so are that one's.
LEMMA AncestorsClosed ==
    ASSUME NEW r \in Results
    PROVE  /\ Memo!Ancestors(r) \subseteq Results
           /\ Sources[r] \subseteq Memo!Ancestors(r)
           /\ \A q \in Memo!Ancestors(r) : Sources[q] \subseteq Memo!Ancestors(r)
  <1>1. \A q \in Results : Sources[q] \subseteq Results
    BY SourcesAssumption
  <1>2. \A q \in Results :
            q \in Memo!Ancestors(r) <=>
                \A T \in SUBSET Results :
                    Sources[r] \subseteq T /\ (\A p \in T : Sources[p] \subseteq T) => q \in T
    BY DEF Memo!Ancestors
  <1>3. Memo!Ancestors(r) \subseteq Results
    BY DEF Memo!Ancestors
  <1>4. ASSUME NEW q \in Sources[r] PROVE q \in Memo!Ancestors(r)
    BY <1>1, <1>2
  <1>5. ASSUME NEW q \in Memo!Ancestors(r), NEW p \in Sources[q] PROVE p \in Memo!Ancestors(r)
    <2>1. q \in Results /\ p \in Results
      BY <1>1, <1>3
    <2>2. ASSUME NEW T \in SUBSET Results,
                 Sources[r] \subseteq T, \A x \in T : Sources[x] \subseteq T
          PROVE  p \in T
      <3>1. q \in T
        BY <1>2, <2>1, <2>2
      <3> QED
        BY <2>2, <3>1
    <2> QED
      BY <1>2, <2>1, <2>2
  <1> QED
    BY <1>3, <1>4, <1>5

\* A result whose sources are good, with all that they were made of, is made of what is good.
LEMMA AncestorsGood ==
    ASSUME NEW r \in Results, NEW S,
           \A s \in Sources[r] : s \in S /\ Memo!Ancestors(s) \subseteq S
    PROVE  Memo!Ancestors(r) \subseteq S
  <1> DEFINE T == {q \in Results :
                      \/ q \in Sources[r]
                      \/ \E s \in Sources[r] : q \in Memo!Ancestors(s)}
  <1>1. \A q \in Results : Sources[q] \subseteq Results
    BY SourcesAssumption
  <1>2. T \in SUBSET Results /\ \A q \in T : q \in S
    OBVIOUS
  <1>3. Sources[r] \subseteq T
    BY <1>1
  <1>4. ASSUME NEW q \in T, NEW p \in Sources[q] PROVE p \in T
    <2>1. q \in Results /\ p \in Results
      BY <1>1
    <2>2. CASE q \in Sources[r]
      <3>1. p \in Memo!Ancestors(q)
        BY <2>1, AncestorsClosed
      <3> QED
        BY <2>1, <2>2, <3>1
    <2>3. CASE \E s \in Sources[r] : q \in Memo!Ancestors(s)
      <3>1. PICK s \in Sources[r] : q \in Memo!Ancestors(s)
        BY <2>3
      <3>2. p \in Memo!Ancestors(s)
        BY <1>1, <3>1, AncestorsClosed
      <3> QED
        BY <2>1, <3>1, <3>2
    <2> QED
      BY <2>2, <2>3
  <1>5. \A q \in T : Sources[q] \subseteq T
    BY <1>4
  <1> HIDE DEF T
  <1>6. ASSUME NEW q \in Memo!Ancestors(r) PROVE q \in T
    BY <1>2, <1>3, <1>5 DEF Memo!Ancestors
  <1> QED
    BY <1>2, <1>6

\* Of a frame: what is no longer to do is good, and all it was made of, or is the next
\* frame's.
FrameGood(c, k) ==
    /\ k = 1 => c.frames[k].result = c.result
    /\ k # 1 => c.frames[k].result \in c.sees
    /\ \A s \in Sources[c.frames[k].result] \ c.frames[k].todo :
           /\ s \in c.sees
           /\ \/ Memo!Ancestors(s) \subseteq c.sees
              \/ k # Len(c.frames) /\ s = c.frames[k + 1].result

WalkGood(c) ==
    /\ \A k \in 1 .. Len(c.frames) : FrameGood(c, k)
    /\ c.frames = <<>> => Memo!Ancestors(c.result) \subseteq c.sees

\* What a scope holds for its verification.
EntryGood(c, e) ==
    IF e.kind = "manifest" THEN e.result \in c.sees
    ELSE /\ Memo!Ancestors(e.result) \subseteq c.sees
         /\ e.result \in c.sees \/ c.frames = <<>>

ScopeGood(c, cached) == \A e \in cached : e.scope = c.scope => EntryGood(c, e)

\* The frames above the last.
LEMMA AboveFrames ==
    ASSUME NEW f \in Seq(Frames), f # <<>>
    PROVE  LET above == SubSeq(f, 1, Len(f) - 1) IN
           /\ above \in Seq(Frames)
           /\ Len(f) \in Nat \ {0}
           /\ Len(above) = Len(f) - 1
           /\ \A i \in 1 .. Len(f) - 1 : above[i] = f[i]
           /\ f[Len(f)] \in Frames
  <1> DEFINE n == Len(f) - 1
  <1>1. Len(f) \in Nat \ {0} /\ \A i \in 1 .. Len(f) : f[i] \in Frames
    BY EmptySeq, ElementOfSeq
  <1>2. n \in Int /\ \A i \in 1 .. n : f[i] \in Frames
    BY <1>1
  <1>3. n \in Nat /\ Len(f) \in 1 .. Len(f)
    BY <1>1
  <1> HIDE DEF n
  <1>4. n - 1 + 1 = n /\ (IF 1 <= n THEN n - 1 + 1 ELSE 0) = n
    BY <1>3
  <1>5. /\ SubSeq(f, 1, n) \in Seq(Frames)
        /\ Len(SubSeq(f, 1, n)) = IF 1 <= n THEN n - 1 + 1 ELSE 0
        /\ \A i \in 1 .. n - 1 + 1 : SubSeq(f, 1, n)[i] = f[1 + i - 1]
    BY <1>2, SubSeqProperties
  <1>6. \A i \in 1 .. n : SubSeq(f, 1, n)[i] = f[i]
    BY <1>3, <1>4, <1>5
  <1> QED
    BY <1>1, <1>3, <1>4, <1>5, <1>6 DEF n

\* The last frame changes.
LEMMA LastFrame ==
    ASSUME NEW f \in Seq(Frames), f # <<>>, NEW top \in Frames
    PROVE  LET g == Append(SubSeq(f, 1, Len(f) - 1), top) IN
           /\ g \in Seq(Frames) /\ g # <<>>
           /\ Len(g) = Len(f) /\ g[Len(f)] = top
           /\ \A i \in 1 .. Len(f) - 1 : g[i] = f[i]
  <1> DEFINE above == SubSeq(f, 1, Len(f) - 1)
             g == Append(above, top)
  <1>1. above \in Seq(Frames) /\ Len(f) \in Nat \ {0} /\ Len(above) = Len(f) - 1
            /\ \A i \in 1 .. Len(f) - 1 : above[i] = f[i]
    BY AboveFrames
  <1> HIDE DEF above
  <1>2. g \in Seq(Frames) /\ Len(g) = Len(above) + 1 /\ g[Len(above) + 1] = top
            /\ \A i \in 1 .. Len(above) : g[i] = above[i]
    BY <1>1, AppendProperties
  <1>3. Len(g) = Len(f) /\ g[Len(f)] = top /\ \A i \in 1 .. Len(f) - 1 : g[i] = f[i]
    BY <1>1, <1>2
  <1>4. g # <<>>
    <2>1. Len(g) # 0
      BY <1>1, <1>3
    <2> QED
      BY <2>1, EmptySeq
  <1> QED
    BY <1>2, <1>3, <1>4 DEF above

\* A result is found good: its frame goes, and the one above may pass it over.
LEMMA PopGood ==
    ASSUME NEW c \in Verifications, c.frames # <<>>, WalkGood(c),
           Memo!Ancestors(c.frames[Len(c.frames)].result) \subseteq c.sees,
           NEW d \in Verifications, d.result = c.result, d.sees = c.sees,
           d.frames = SubSeq(c.frames, 1, Len(c.frames) - 1)
    PROVE  WalkGood(d)
  <1> DEFINE n == Len(c.frames)
  <1>1. n \in Nat \ {0} /\ Len(d.frames) = n - 1
            /\ \A i \in 1 .. n - 1 : d.frames[i] = c.frames[i]
    BY AboveFrames DEF Verifications
  <1>2. \A k \in 1 .. n : FrameGood(c, k)
    BY DEF WalkGood
  <1>3. Memo!Ancestors(c.frames[n].result) \subseteq c.sees
    OBVIOUS
  <1> HIDE DEF n
  <1>4. ASSUME NEW k \in 1 .. n - 1 PROVE FrameGood(d, k)
    <2>1. k \in 1 .. n /\ d.frames[k] = c.frames[k] /\ FrameGood(c, k)
      BY <1>1, <1>2
    <2>2. ASSUME NEW s \in Sources[c.frames[k].result] \ c.frames[k].todo
          PROVE  /\ s \in c.sees
                 /\ \/ Memo!Ancestors(s) \subseteq c.sees
                    \/ k # n - 1 /\ s = d.frames[k + 1].result
      <3>1. s \in c.sees /\ (Memo!Ancestors(s) \subseteq c.sees \/ s = c.frames[k + 1].result)
        BY <2>1 DEF FrameGood
      <3>2. CASE k = n - 1
        <4>1. k + 1 = n
          BY <1>1, <3>2
        <4> QED
          BY <1>3, <3>1, <4>1
      <3>3. CASE k # n - 1
        <4>1. k + 1 \in 1 .. n - 1
          BY <1>1, <3>3
        <4> QED
          BY <1>1, <3>1, <3>3, <4>1
      <3> QED
        BY <3>2, <3>3
    <2> QED
      BY <1>1, <2>1, <2>2 DEF FrameGood
  <1>5. ASSUME d.frames = <<>> PROVE Memo!Ancestors(d.result) \subseteq d.sees
    <2>1. Len(d.frames) = 0
      BY <1>5, EmptySeq
    <2>a. Len(d.frames) = n - 1 /\ n \in Nat
      BY <1>1
    <2>b. n - 1 = 0
      BY <2>1, <2>a, Zenon
    <2>2. n = 1
      BY <1>1, <2>b
    <2>3. c.frames[1].result = c.result
      BY <1>2, <2>2 DEF FrameGood
    <2> QED
      BY <1>3, <2>2, <2>3
  <1> QED
    BY <1>1, <1>4, <1>5 DEF WalkGood

\* The last frame goes on: it looked, or a source of it is good.
LEMMA GoesOnGood ==
    ASSUME NEW c \in Verifications, c.frames # <<>>, WalkGood(c),
           NEW d \in Verifications, d.result = c.result, d.sees = c.sees,
           NEW top \in Frames, top.result = c.frames[Len(c.frames)].result,
           d.frames = Append(SubSeq(c.frames, 1, Len(c.frames) - 1), top),
           \A s \in c.frames[Len(c.frames)].todo \ top.todo :
               s \in c.sees /\ Memo!Ancestors(s) \subseteq c.sees
    PROVE  WalkGood(d)
  <1> DEFINE n == Len(c.frames)
  <1>1. n \in Nat \ {0} /\ Len(d.frames) = n /\ d.frames[n] = top /\ d.frames # <<>>
            /\ \A i \in 1 .. n - 1 : d.frames[i] = c.frames[i]
    BY AboveFrames, LastFrame DEF Verifications
  <1>2. \A k \in 1 .. n : FrameGood(c, k)
    BY DEF WalkGood
  <1>3. /\ top.result = c.frames[n].result
        /\ \A s \in c.frames[n].todo \ top.todo : s \in c.sees /\ Memo!Ancestors(s) \subseteq c.sees
    OBVIOUS
  <1> HIDE DEF n
  <1>4. \A k \in 1 .. n : d.frames[k].result = c.frames[k].result
    BY <1>1, <1>3
  <1>5. ASSUME NEW k \in 1 .. n PROVE FrameGood(d, k)
    <2>1. FrameGood(c, k) /\ d.frames[k].result = c.frames[k].result
      BY <1>2, <1>4
    <2>2. ASSUME NEW s \in Sources[c.frames[k].result] \ d.frames[k].todo
          PROVE  /\ s \in c.sees
                 /\ \/ Memo!Ancestors(s) \subseteq c.sees
                    \/ k # n /\ s = d.frames[k + 1].result
      <3>1. CASE k = n
        <4>1. CASE s \in c.frames[n].todo
          BY <1>1, <1>3, <3>1, <4>1
        <4>2. CASE s \notin c.frames[n].todo
          <5>1. Memo!Ancestors(s) \subseteq c.sees /\ s \in c.sees
            BY <2>1, <3>1, <4>2 DEF FrameGood, n
          <5> QED
            BY <5>1
        <4> QED
          BY <4>1, <4>2
      <3>2. CASE k # n
        <4>1. k \in 1 .. n - 1 /\ k + 1 \in 1 .. n
          BY <1>1, <3>2
        <4>2. d.frames[k] = c.frames[k] /\ d.frames[k + 1].result = c.frames[k + 1].result
          BY <1>1, <1>4, <4>1
        <4>3. s \in c.sees /\ (Memo!Ancestors(s) \subseteq c.sees \/ s = c.frames[k + 1].result)
          BY <2>1, <4>2 DEF FrameGood
        <4> QED
          BY <3>2, <4>2, <4>3
      <3> QED
        BY <3>1, <3>2
    <2> QED
      BY <1>1, <2>1, <2>2 DEF FrameGood
  <1> QED
    BY <1>1, <1>5 DEF WalkGood

\* A source of the last frame gets a frame of its own.
LEMMA PushGood ==
    ASSUME NEW c \in Verifications, c.frames # <<>>, WalkGood(c),
           NEW d \in Verifications, d.result = c.result, d.sees = c.sees,
           NEW s \in c.sees, NEW top \in Frames, NEW next \in Frames,
           top.result = c.frames[Len(c.frames)].result,
           c.frames[Len(c.frames)].todo \ top.todo \subseteq {s},
           next.result = s, Sources[s] \subseteq next.todo,
           d.frames = Append(Append(SubSeq(c.frames, 1, Len(c.frames) - 1), top), next)
    PROVE  WalkGood(d)
  <1> DEFINE n == Len(c.frames)
             g == Append(SubSeq(c.frames, 1, Len(c.frames) - 1), top)
  <1>1. n \in Nat \ {0} /\ g \in Seq(Frames) /\ Len(g) = n /\ g[n] = top
            /\ \A i \in 1 .. n - 1 : g[i] = c.frames[i]
    BY AboveFrames, LastFrame DEF Verifications
  <1>2. \A k \in 1 .. n : FrameGood(c, k)
    BY DEF WalkGood
  <1>3. top.result = c.frames[n].result /\ c.frames[n].todo \ top.todo \subseteq {s}
    OBVIOUS
  <1>4. d.frames = Append(g, next)
    OBVIOUS
  <1> HIDE DEF n, g
  <1>5. Len(d.frames) = n + 1 /\ d.frames[n + 1] = next /\ \A i \in 1 .. n : d.frames[i] = g[i]
    BY <1>1, <1>4, AppendProperties
  <1>6. d.frames # <<>>
    <2>1. Len(d.frames) # 0
      BY <1>1, <1>5
    <2> QED
      BY <2>1, EmptySeq
  <1>7. \A k \in 1 .. n : d.frames[k].result = c.frames[k].result
    BY <1>1, <1>3, <1>5
  <1>8. ASSUME NEW k \in 1 .. n PROVE FrameGood(d, k)
    <2>1. FrameGood(c, k) /\ d.frames[k].result = c.frames[k].result
      BY <1>2, <1>7
    <2>a. n \in Nat
      BY <1>1
    <2>b. k # n + 1
      BY <2>a
    <2>2. ASSUME NEW q \in Sources[c.frames[k].result] \ d.frames[k].todo
          PROVE  /\ q \in c.sees
                 /\ Memo!Ancestors(q) \subseteq c.sees \/ q = d.frames[k + 1].result
      <3>1. CASE k = n
        <4>1. d.frames[k] = top /\ d.frames[k + 1].result = s
          BY <1>1, <1>5, <3>1
        <4>2. CASE q \in c.frames[n].todo
          BY <1>3, <4>1, <4>2
        <4>3. CASE q \notin c.frames[n].todo
          <5>1. Memo!Ancestors(q) \subseteq c.sees /\ q \in c.sees
            BY <2>1, <3>1, <4>3 DEF FrameGood, n
          <5> QED
            BY <5>1
        <4> QED
          BY <4>2, <4>3
      <3>2. CASE k # n
        <4>1. k \in 1 .. n - 1 /\ k + 1 \in 1 .. n
          BY <1>1, <3>2
        <4>2. d.frames[k] = c.frames[k] /\ d.frames[k + 1].result = c.frames[k + 1].result
          BY <1>1, <1>5, <1>7, <4>1
        <4>3. q \in c.sees /\ (Memo!Ancestors(q) \subseteq c.sees \/ q = c.frames[k + 1].result)
          BY <2>1, <4>2 DEF FrameGood
        <4> QED
          BY <4>2, <4>3
      <3> QED
        BY <3>1, <3>2
    <2> QED
      BY <1>5, <2>1, <2>2, <2>b DEF FrameGood
  <1>9. FrameGood(d, n + 1)
    <2>1. n + 1 # 1
      BY <1>1
    <2> QED
      BY <1>5, <2>1 DEF FrameGood
  <1>10. \A k \in 1 .. n + 1 : k \in 1 .. n \/ k = n + 1
    BY <1>1
  <1> QED
    BY <1>5, <1>6, <1>8, <1>9, <1>10 DEF WalkGood

\* What a scope holds stays good for a verification that goes on.
LEMMA ScopeKept ==
    ASSUME NEW c, NEW d, NEW cached, NEW less, ScopeGood(c, cached), less \subseteq cached,
           d.scope = c.scope, d.sees = c.sees, c.frames # <<>> \/ d.frames = <<>>
    PROVE  ScopeGood(d, less)
  BY DEF ScopeGood, EntryGood

-----------------------------------------------------------------------------
(* The invariant of a session. *)

MemoTyped ==
    /\ authority \in SUBSET Results
    /\ started \in Nat
    /\ checks \in [Threads -> Verifications \cup {None}]

Checking(t) == checks[t] # None
Afresh(t) == Checking(t) /\ checks[t].kind # "reading"

\* A fresh verification shares its scope with nobody, and the memo holds nothing of those to come.
ScopesApart ==
    /\ \A e \in Cached(values) : e.scope <= started
    /\ \A t \in Threads : Checking(t) =>
           /\ checks[t].scope <= started
           /\ IF Afresh(t) THEN checks[t].scope # 0 ELSE checks[t].scope = 0
    /\ \A t, u \in Threads :
           Afresh(t) /\ Checking(u) /\ t # u => checks[t].scope # checks[u].scope

\* What a fresh verification has done, and what its scope holds, is good.
CheckSound(c) ==
    /\ WalkGood(c)
    /\ ScopeGood(c, Cached(values))
    /\ c.kind = "closing" => c.sees = authority

ChecksSound == \A t \in Threads : Afresh(t) => CheckSound(checks[t])

MemoInv == MemoAccounted /\ MemoTyped /\ ScopesApart /\ ChecksSound

\* A verification goes on, and may leave something in its scope.
LEMMA OwnCheck ==
    ASSUME MemoInv, NEW t \in Threads, Checking(t), NEW d \in Verifications,
           checks' = [checks EXCEPT ![t] = d],
           d.kind = checks[t].kind, d.scope = checks[t].scope, d.sees = checks[t].sees,
           UNCHANGED <<authority, started>>, MemoAccounted',
           \A e \in Cached(values') \ Cached(values) : e.scope = d.scope,
           d.kind # "reading" => WalkGood(d) /\ ScopeGood(d, Cached(values'))
    PROVE  MemoInv'
  <1>1. \A u \in Threads : checks'[u] = IF u = t THEN d ELSE checks[u]
    BY DEF MemoInv, MemoTyped
  <1>2. MemoTyped'
    BY <1>1 DEF MemoInv, MemoTyped
  <1>3. checks[t] \in Verifications
    BY DEF MemoInv, MemoTyped, Checking
  <1>4. \A u \in Threads :
            /\ Checking(u)' => Checking(u)
            /\ Afresh(u)' => Afresh(u)
            /\ Afresh(u) /\ Checking(u)' => Afresh(u)'
            /\ checks'[u].scope = checks[u].scope /\ checks'[u].sees = checks[u].sees
            /\ checks'[u].kind = checks[u].kind
    BY <1>1 DEF Checking, Afresh
  <1>5. \A e \in Cached(values') : e.scope <= started'
    <2>1. ASSUME NEW e \in Cached(values') PROVE e.scope <= started'
      <3>1. CASE e \in Cached(values)
        BY <3>1 DEF MemoInv, ScopesApart
      <3>2. CASE e \notin Cached(values)
        BY <3>2 DEF MemoInv, ScopesApart
      <3> QED
        BY <3>1, <3>2
    <2> QED
      BY <2>1
  <1>6. ScopesApart'
    <2>1. \A u \in Threads : Checking(u)' =>
              /\ checks'[u].scope <= started'
              /\ IF Afresh(u)' THEN checks'[u].scope # 0 ELSE checks'[u].scope = 0
      BY <1>4 DEF MemoInv, ScopesApart
    <2>2. \A v, u \in Threads :
              Afresh(v)' /\ Checking(u)' /\ v # u => checks'[v].scope # checks'[u].scope
      BY <1>4 DEF MemoInv, ScopesApart
    <2> QED
      BY <1>5, <2>1, <2>2 DEF ScopesApart, Cached
  <1>7. ASSUME NEW u \in Threads, Afresh(u)'
        PROVE  /\ WalkGood(checks'[u])
               /\ ScopeGood(checks'[u], Cached(values'))
               /\ checks'[u].kind = "closing" => checks'[u].sees = authority'
    <2>1. Afresh(u) /\ CheckSound(checks[u])
      BY <1>4, <1>7 DEF MemoInv, ChecksSound
    <2>2. checks'[u].kind = "closing" => checks'[u].sees = authority'
      BY <1>4, <2>1 DEF CheckSound
    <2>3. CASE u = t
      <3>1. d.kind # "reading"
        BY <1>4, <2>1, <2>3 DEF Afresh
      <3> QED
        BY <1>1, <2>2, <2>3, <3>1
    <2>4. CASE u # t
      <3>1. checks'[u] = checks[u]
        BY <1>1, <2>4
      <3>2. checks[u].scope # d.scope
        BY <2>1, <2>4 DEF MemoInv, ScopesApart
      <3>3. ScopeGood(checks[u], Cached(values'))
        <4>1. ASSUME NEW e \in Cached(values'), e.scope = checks[u].scope
              PROVE  EntryGood(checks[u], e)
          <5>1. e \in Cached(values)
            BY <3>2, <4>1
          <5> QED
            BY <2>1, <4>1, <5>1 DEF CheckSound, ScopeGood
        <4> QED
          BY <4>1 DEF ScopeGood
      <3> QED
        BY <2>1, <2>2, <3>1, <3>3 DEF CheckSound
    <2> QED
      BY <2>3, <2>4
  <1>8. ChecksSound'
    BY <1>7 DEF ChecksSound, CheckSound, Cached, ScopeGood, EntryGood, WalkGood, FrameGood, Memo!Ancestors
  <1> QED
    BY <1>2, <1>6, <1>8 DEF MemoInv

\* The last frame of a verification.
LEMMA LastFacts ==
    ASSUME MemoTyped, NEW t \in Threads, Memo!Running(t)
    PROVE  /\ Checking(t) /\ checks[t] \in Verifications
           /\ checks[t].frames \in Seq(Frames) /\ checks[t].frames # <<>>
           /\ Len(checks[t].frames) \in Nat \ {0}
           /\ Memo!Top(t) = checks[t].frames[Len(checks[t].frames)]
           /\ Memo!Top(t) \in Frames /\ Memo!Top(t).result \in Results
           /\ Memo!Top(t).todo \in SUBSET Results
           /\ Memo!Above(t) = SubSeq(checks[t].frames, 1, Len(checks[t].frames) - 1)
           /\ Memo!Above(t) \in Seq(Frames)
  <1>1. Checking(t) /\ checks[t] \in Verifications /\ checks[t].frames # <<>>
    BY DEF MemoTyped, Memo!Running, Checking
  <1>2. checks[t].frames \in Seq(Frames)
    BY <1>1 DEF Verifications
  <1>3. Len(checks[t].frames) \in Nat \ {0}
            /\ checks[t].frames[Len(checks[t].frames)] \in Frames
            /\ SubSeq(checks[t].frames, 1, Len(checks[t].frames) - 1) \in Seq(Frames)
    BY <1>1, <1>2, AboveFrames
  <1> QED
    BY <1>1, <1>2, <1>3 DEF Memo!Top, Memo!Above, Frames

\* A verification with other frames.
LEMMA WithFrames ==
    ASSUME MemoTyped, NEW t \in Threads, Checking(t), NEW f \in Seq(Frames), Memo!Becomes(t, f)
    PROVE  LET d == [checks[t] EXCEPT !.frames = f] IN
           /\ d \in Verifications /\ d.frames = f
           /\ d.kind = checks[t].kind /\ d.scope = checks[t].scope
           /\ d.sees = checks[t].sees /\ d.result = checks[t].result
           /\ checks' = [checks EXCEPT ![t] = d]
  <1>1. checks[t] \in Verifications
    BY DEF MemoTyped, Checking
  <1> QED
    BY <1>1 DEF Memo!Becomes, Verifications

LEMMA KeyFacts ==
    ASSUME MemoTyped, NEW t \in Threads, Checking(t), NEW kind \in {"manifest", "bindings"},
           NEW r \in Results
    PROVE  LET key == Memo!Key(t, kind, r) IN
           /\ key \in MemoEntries
           /\ key.scope = checks[t].scope /\ key.kind = kind /\ key.result = r
  <1>1. checks[t] \in Verifications
    BY DEF MemoTyped, Checking
  <1>2. checks[t].scope \in Nat
    BY <1>1 DEF Verifications
  <1> QED
    BY <1>2 DEF Memo!Key, Memo!Entry, MemoEntries

-----------------------------------------------------------------------------
(* The steps of a verification. *)

\* What has been found good is not walked again.
LEMMA FoundSound == ASSUME MemoInv, NEW t \in Threads, Memo!Found(t) PROVE MemoInv'
  <1> DEFINE c == checks[t]
             top == Memo!Top(t)
             key == Memo!Key(t, "bindings", top.result)
             d == [c EXCEPT !.frames = Memo!Above(t)]
  <1>1. Memo!Running(t) /\ Memo!Has(key) /\ Memo!Get(key) /\ Memo!Becomes(t, Memo!Above(t))
            /\ UNCHANGED <<authority, started>>
    BY DEF Memo!Found, Memo!At
  <1>2. /\ Checking(t) /\ c \in Verifications /\ c.frames # <<>>
        /\ top = c.frames[Len(c.frames)] /\ top.result \in Results
        /\ Memo!Above(t) = SubSeq(c.frames, 1, Len(c.frames) - 1) /\ Memo!Above(t) \in Seq(Frames)
    BY <1>1, LastFacts DEF MemoInv
  <1>3. /\ d \in Verifications /\ d.frames = Memo!Above(t)
        /\ d.kind = c.kind /\ d.scope = c.scope /\ d.sees = c.sees /\ d.result = c.result
        /\ checks' = [checks EXCEPT ![t] = d]
    BY <1>1, <1>2, WithFrames DEF MemoInv
  <1>4. key \in MemoEntries /\ key.scope = c.scope /\ key.kind = "bindings" /\ key.result = top.result
    BY <1>2, KeyFacts DEF MemoInv
  <1>5. MemoAccounted' /\ Cached(values') = Cached(values) /\ key \in Cached(values)
    <2>1. MemoAccounted
      BY DEF MemoInv
    <2>2. MemoAccounted' /\ Cached(values') = Cached(values)
      BY <1>1, <2>1, MemoGet
    <2> QED
      BY <1>1, <2>2, MemoOperators DEF Memo!Has
  <1> HIDE DEF d, key
  <1>6. ASSUME c.kind # "reading" PROVE WalkGood(d) /\ ScopeGood(d, Cached(values'))
    <2>1. WalkGood(c) /\ ScopeGood(c, Cached(values))
      BY <1>2, <1>6 DEF MemoInv, ChecksSound, CheckSound, Afresh
    <2>2. Memo!Ancestors(top.result) \subseteq c.sees
      BY <1>4, <1>5, <2>1 DEF ScopeGood, EntryGood
    <2>3. WalkGood(d)
      BY <1>2, <1>3, <2>1, <2>2, PopGood
    <2>4. ScopeGood(d, Cached(values'))
      BY <1>2, <1>3, <1>5, <2>1, ScopeKept
    <2> QED
      BY <2>3, <2>4
  <1>7. d.kind # "reading" => WalkGood(d) /\ ScopeGood(d, Cached(values'))
    BY <1>3, <1>6
  <1>8. \A e \in Cached(values') \ Cached(values) : e.scope = d.scope
    BY <1>5
  <1> QED
    BY <1>1, <1>2, <1>3, <1>5, <1>7, <1>8, OwnCheck

LEMMA WalkSound == ASSUME MemoInv, NEW t \in Threads, Memo!Walk(t) PROVE MemoInv'
  <1> DEFINE c == checks[t]
             top == Memo!Top(t)
             next == [top EXCEPT !.step = "sources"]
             f == Append(Memo!Above(t), next)
             d == [c EXCEPT !.frames = f]
  <1>1. Memo!Running(t) /\ Memo!Becomes(t, f) /\ UNCHANGED <<values, bytes, authority, started>>
    BY DEF Memo!Walk, Memo!At
  <1>2. /\ Checking(t) /\ c \in Verifications /\ c.frames # <<>> /\ c.frames \in Seq(Frames)
        /\ top = c.frames[Len(c.frames)] /\ top \in Frames
        /\ Memo!Above(t) = SubSeq(c.frames, 1, Len(c.frames) - 1)
    BY <1>1, LastFacts DEF MemoInv
  <1>3. next \in Frames /\ next.result = top.result /\ next.todo = top.todo
    BY <1>2 DEF Frames
  <1> HIDE DEF next
  <1>4. f \in Seq(Frames) /\ f # <<>>
    BY <1>2, <1>3, LastFrame
  <1>5. f = Append(SubSeq(c.frames, 1, Len(c.frames) - 1), next)
    BY <1>2
  <1> HIDE DEF f
  <1>6. /\ d \in Verifications /\ d.frames = f
        /\ d.kind = c.kind /\ d.scope = c.scope /\ d.sees = c.sees /\ d.result = c.result
        /\ checks' = [checks EXCEPT ![t] = d]
    BY <1>1, <1>2, <1>4, WithFrames DEF MemoInv
  <1>7. MemoAccounted' /\ Cached(values') = Cached(values)
    BY <1>1 DEF MemoInv, MemoAccounted
  <1> HIDE DEF d
  <1>8. ASSUME c.kind # "reading" PROVE WalkGood(d) /\ ScopeGood(d, Cached(values'))
    <2>1. WalkGood(c) /\ ScopeGood(c, Cached(values))
      BY <1>2, <1>8 DEF MemoInv, ChecksSound, CheckSound, Afresh
    <2>2. WalkGood(d)
      BY <1>2, <1>3, <1>5, <1>6, <2>1, GoesOnGood
    <2>3. ScopeGood(d, Cached(values'))
      BY <1>2, <1>6, <1>7, <2>1, ScopeKept
    <2> QED
      BY <2>2, <2>3
  <1>9. d.kind # "reading" => WalkGood(d) /\ ScopeGood(d, Cached(values'))
    BY <1>6, <1>8
  <1>10. \A e \in Cached(values') \ Cached(values) : e.scope = d.scope
    BY <1>7
  <1> QED
    BY <1>1, <1>2, <1>6, <1>7, <1>9, <1>10, OwnCheck

\* A source whose own sources are known good is passed over.
LEMMA PassSound ==
    ASSUME MemoInv, NEW t \in Threads, NEW s \in Results, Memo!Running(t), s \in Memo!Top(t).todo,
           Memo!Has(Memo!Key(t, "bindings", s)), Memo!Get(Memo!Key(t, "bindings", s)),
           Memo!Becomes(t, Memo!Rest(t, s)), UNCHANGED <<authority, started>>
    PROVE  MemoInv'
  <1> DEFINE c == checks[t]
             top == Memo!Top(t)
             key == Memo!Key(t, "bindings", s)
             next == [top EXCEPT !.todo = @ \ {s}]
             f == Append(Memo!Above(t), next)
             d == [c EXCEPT !.frames = f]
  <1>1. Memo!Rest(t, s) = f
    BY DEF Memo!Rest
  <1>2. /\ Checking(t) /\ c \in Verifications /\ c.frames # <<>> /\ c.frames \in Seq(Frames)
        /\ top = c.frames[Len(c.frames)] /\ top \in Frames
        /\ Memo!Above(t) = SubSeq(c.frames, 1, Len(c.frames) - 1)
    BY LastFacts DEF MemoInv
  <1>3. next \in Frames /\ next.result = top.result /\ next.todo = top.todo \ {s}
    BY <1>2 DEF Frames
  <1>4. key \in MemoEntries /\ key.scope = c.scope /\ key.kind = "bindings" /\ key.result = s
    BY <1>2, KeyFacts DEF MemoInv
  <1> HIDE DEF next
  <1>5. f \in Seq(Frames) /\ f # <<>>
    BY <1>2, <1>3, LastFrame
  <1>6. f = Append(SubSeq(c.frames, 1, Len(c.frames) - 1), next)
    BY <1>2
  <1> HIDE DEF f
  <1>7. /\ d \in Verifications /\ d.frames = f
        /\ d.kind = c.kind /\ d.scope = c.scope /\ d.sees = c.sees /\ d.result = c.result
        /\ checks' = [checks EXCEPT ![t] = d]
    BY <1>1, <1>2, <1>5, WithFrames DEF MemoInv
  <1>8. MemoAccounted' /\ Cached(values') = Cached(values) /\ key \in Cached(values)
    <2>1. MemoAccounted' /\ Cached(values') = Cached(values)
      BY MemoGet DEF MemoInv
    <2> QED
      BY <2>1, MemoOperators DEF Memo!Has
  <1> HIDE DEF d, key
  <1>9. ASSUME c.kind # "reading" PROVE WalkGood(d) /\ ScopeGood(d, Cached(values'))
    <2>1. WalkGood(c) /\ ScopeGood(c, Cached(values))
      BY <1>2, <1>9 DEF MemoInv, ChecksSound, CheckSound, Afresh
    <2>2. s \in c.sees /\ Memo!Ancestors(s) \subseteq c.sees
      BY <1>2, <1>4, <1>8, <2>1 DEF ScopeGood, EntryGood
    <2>3. \A q \in top.todo \ next.todo : q \in c.sees /\ Memo!Ancestors(q) \subseteq c.sees
      BY <1>3, <2>2
    <2>4. WalkGood(d)
      BY <1>2, <1>3, <1>6, <1>7, <2>1, <2>3, GoesOnGood
    <2>5. ScopeGood(d, Cached(values'))
      BY <1>2, <1>7, <1>8, <2>1, ScopeKept
    <2> QED
      BY <2>4, <2>5
  <1>10. d.kind # "reading" => WalkGood(d) /\ ScopeGood(d, Cached(values'))
    BY <1>7, <1>9
  <1>11. \A e \in Cached(values') \ Cached(values) : e.scope = d.scope
    BY <1>8
  <1> QED
    BY <1>2, <1>7, <1>8, <1>10, <1>11, OwnCheck

\* Another comes next, its manifest found or read.
LEMMA DescendSound ==
    ASSUME MemoInv, NEW t \in Threads, NEW s \in Results, Memo!Running(t), s \in Memo!Top(t).todo,
           \/ Memo!Has(Memo!Key(t, "manifest", s)) /\ Memo!Get(Memo!Key(t, "manifest", s))
           \/ s \in checks[t].sees /\ Memo!Put(Memo!Key(t, "manifest", s)),
           Memo!Becomes(t, Append(Memo!Rest(t, s), Memo!Frame(s))), UNCHANGED <<authority, started>>
    PROVE  MemoInv'
  <1> DEFINE c == checks[t]
             top == Memo!Top(t)
             key == Memo!Key(t, "manifest", s)
             next == [top EXCEPT !.todo = @ \ {s}]
             g == Append(Memo!Above(t), next)
             f == Append(g, Memo!Frame(s))
             d == [c EXCEPT !.frames = f]
  <1>1. Memo!Rest(t, s) = g
    BY DEF Memo!Rest
  <1>2. /\ Checking(t) /\ c \in Verifications /\ c.frames # <<>> /\ c.frames \in Seq(Frames)
        /\ top = c.frames[Len(c.frames)] /\ top \in Frames
        /\ Memo!Above(t) = SubSeq(c.frames, 1, Len(c.frames) - 1)
    BY LastFacts DEF MemoInv
  <1>3. next \in Frames /\ next.result = top.result /\ next.todo = top.todo \ {s}
    BY <1>2 DEF Frames
  <1>4. key \in MemoEntries /\ key.scope = c.scope /\ key.kind = "manifest" /\ key.result = s
    BY <1>2, KeyFacts DEF MemoInv
  <1>5. Memo!Frame(s) \in Frames /\ Memo!Frame(s).result = s /\ Memo!Frame(s).todo = Sources[s]
    <2>1. Sources[s] \subseteq Results
      BY SourcesAssumption
    <2> QED
      BY <2>1 DEF Memo!Frame, Frames
  <1> HIDE DEF next
  <1>6. g \in Seq(Frames)
    BY <1>2, <1>3, LastFrame
  <1>7. g = Append(SubSeq(c.frames, 1, Len(c.frames) - 1), next)
    BY <1>2
  <1> HIDE DEF g
  <1>8. f \in Seq(Frames)
    BY <1>5, <1>6, AppendProperties
  <1>9. f = Append(Append(SubSeq(c.frames, 1, Len(c.frames) - 1), next), Memo!Frame(s))
    BY <1>7
  <1>10. Memo!Becomes(t, f)
    BY <1>1
  <1> HIDE DEF f
  <1>11. /\ d \in Verifications /\ d.frames = f
         /\ d.kind = c.kind /\ d.scope = c.scope /\ d.sees = c.sees /\ d.result = c.result
         /\ checks' = [checks EXCEPT ![t] = d]
    BY <1>2, <1>8, <1>10, WithFrames DEF MemoInv
  <1>12. /\ MemoAccounted'
         /\ Cached(values') \subseteq Cached(values) \cup {key}
         /\ key \in Cached(values) \/ s \in c.sees
    <2>1. CASE Memo!Has(key) /\ Memo!Get(key)
      <3>1. MemoAccounted' /\ Cached(values') = Cached(values)
        BY <2>1, MemoGet DEF MemoInv
      <3> QED
        BY <2>1, <3>1, MemoOperators DEF Memo!Has
    <2>2. CASE s \in c.sees /\ Memo!Put(key)
      BY <1>4, <2>2, MemoPut DEF MemoInv
    <2> QED
      BY <2>1, <2>2
  <1> HIDE DEF d, key
  <1>13. ASSUME c.kind # "reading" PROVE WalkGood(d) /\ ScopeGood(d, Cached(values'))
    <2>1. WalkGood(c) /\ ScopeGood(c, Cached(values))
      BY <1>2, <1>13 DEF MemoInv, ChecksSound, CheckSound, Afresh
    <2>2. s \in c.sees
      BY <1>4, <1>12, <2>1 DEF ScopeGood, EntryGood
    <2>3. top.todo \ next.todo \subseteq {s} /\ Sources[s] \subseteq Memo!Frame(s).todo
      BY <1>3, <1>5
    <2>4. WalkGood(d)
      BY <1>2, <1>3, <1>5, <1>9, <1>11, <2>1, <2>2, <2>3, PushGood
    <2>5. ASSUME NEW e \in Cached(values'), e.scope = d.scope PROVE EntryGood(d, e)
      <3>1. CASE e = key
        BY <1>4, <1>11, <2>2, <3>1 DEF EntryGood
      <3>2. CASE e \in Cached(values)
        <4>1. EntryGood(c, e)
          BY <1>11, <2>1, <2>5, <3>2 DEF ScopeGood
        <4> QED
          BY <1>2, <1>11, <4>1 DEF EntryGood
      <3> QED
        BY <1>12, <3>1, <3>2
    <2> QED
      BY <2>4, <2>5 DEF ScopeGood
  <1>14. d.kind # "reading" => WalkGood(d) /\ ScopeGood(d, Cached(values'))
    BY <1>11, <1>13
  <1>15. \A e \in Cached(values') \ Cached(values) : e.scope = d.scope
    BY <1>4, <1>11, <1>12
  <1> QED
    BY <1>2, <1>11, <1>12, <1>14, <1>15, OwnCheck

LEMMA SourceSound ==
    ASSUME MemoInv, NEW t \in Threads, NEW s \in Results, Memo!Source(t, s) PROVE MemoInv'
  <1>1. Memo!Running(t) /\ s \in Memo!Top(t).todo /\ UNCHANGED <<authority, started>>
    BY DEF Memo!Source, Memo!At
  <1>2. CASE Memo!Has(Memo!Key(t, "bindings", s)) /\ Memo!Get(Memo!Key(t, "bindings", s))
               /\ Memo!Becomes(t, Memo!Rest(t, s))
    BY <1>1, <1>2, PassSound
  <1>3. CASE /\ \/ Memo!Has(Memo!Key(t, "manifest", s)) /\ Memo!Get(Memo!Key(t, "manifest", s))
                \/ s \in checks[t].sees /\ Memo!Put(Memo!Key(t, "manifest", s))
             /\ Memo!Becomes(t, Append(Memo!Rest(t, s), Memo!Frame(s)))
    BY <1>1, <1>3, DescendSound
  <1> QED
    BY <1>2, <1>3 DEF Memo!Source

\* Nothing is left of a result.
LEMMA VerifiedSound == ASSUME MemoInv, NEW t \in Threads, Memo!Verified(t) PROVE MemoInv'
  <1> DEFINE c == checks[t]
             n == Len(c.frames)
             top == Memo!Top(t)
             key == Memo!Key(t, "bindings", top.result)
             d == [c EXCEPT !.frames = Memo!Above(t)]
  <1>1. Memo!Running(t) /\ top.todo = {} /\ Memo!Put(key) /\ Memo!Becomes(t, Memo!Above(t))
            /\ UNCHANGED <<authority, started>>
    BY DEF Memo!Verified, Memo!At
  <1>2. /\ Checking(t) /\ c \in Verifications /\ c.frames # <<>> /\ c.frames \in Seq(Frames)
        /\ n \in Nat \ {0}
        /\ top = c.frames[n] /\ top.result \in Results
        /\ Memo!Above(t) = SubSeq(c.frames, 1, n - 1) /\ Memo!Above(t) \in Seq(Frames)
    BY <1>1, LastFacts DEF MemoInv
  <1>3. /\ d \in Verifications /\ d.frames = Memo!Above(t)
        /\ d.kind = c.kind /\ d.scope = c.scope /\ d.sees = c.sees /\ d.result = c.result
        /\ checks' = [checks EXCEPT ![t] = d]
    BY <1>1, <1>2, WithFrames DEF MemoInv
  <1>4. key \in MemoEntries /\ key.scope = c.scope /\ key.kind = "bindings" /\ key.result = top.result
    BY <1>2, KeyFacts DEF MemoInv
  <1>5. MemoAccounted' /\ Cached(values') \subseteq Cached(values) \cup {key}
    BY <1>1, <1>4, MemoPut DEF MemoInv
  <1> HIDE DEF d, key
  <1>6. ASSUME c.kind # "reading" PROVE WalkGood(d) /\ ScopeGood(d, Cached(values'))
    <2>1. WalkGood(c) /\ ScopeGood(c, Cached(values))
      BY <1>2, <1>6 DEF MemoInv, ChecksSound, CheckSound, Afresh
    <2>2. n \in 1 .. n
      BY <1>2
    <2>3. FrameGood(c, n)
      BY <2>1, <2>2 DEF WalkGood
    <2>4. \A s \in Sources[top.result] : s \in c.sees /\ Memo!Ancestors(s) \subseteq c.sees
      BY <1>1, <1>2, <2>3 DEF FrameGood
    <2>5. Memo!Ancestors(top.result) \subseteq c.sees
      BY <1>2, <2>4, AncestorsGood
    <2>6. WalkGood(d)
      BY <1>2, <1>3, <2>1, <2>5, PopGood
    <2>7. top.result \in c.sees \/ d.frames = <<>>
      <3>1. CASE n # 1
        BY <1>2, <2>3, <3>1 DEF FrameGood
      <3>2. CASE n = 1
        <4>1. Len(d.frames) = n - 1 /\ d.frames \in Seq(Frames)
          BY <1>2, <1>3, AboveFrames
        <4>2. Len(d.frames) = 0
          BY <3>2, <4>1
        <4> QED
          BY <4>1, <4>2, EmptySeq
      <3> QED
        BY <3>1, <3>2
    <2>8. ASSUME NEW e \in Cached(values'), e.scope = d.scope PROVE EntryGood(d, e)
      <3>1. CASE e = key
        BY <1>3, <1>4, <2>5, <2>7, <3>1 DEF EntryGood
      <3>2. CASE e \in Cached(values)
        <4>1. EntryGood(c, e)
          BY <1>3, <2>1, <2>8, <3>2 DEF ScopeGood
        <4> QED
          BY <1>2, <1>3, <4>1 DEF EntryGood
      <3> QED
        BY <1>5, <3>1, <3>2
    <2> QED
      BY <2>6, <2>8 DEF ScopeGood
  <1>7. d.kind # "reading" => WalkGood(d) /\ ScopeGood(d, Cached(values'))
    BY <1>3, <1>6
  <1>8. \A e \in Cached(values') \ Cached(values) : e.scope = d.scope
    BY <1>3, <1>4, <1>5
  <1> QED
    BY <1>1, <1>2, <1>3, <1>5, <1>7, <1>8, OwnCheck

-----------------------------------------------------------------------------
(* A verification begins and ends, and what happens around it. *)

\* Less is held, of the verifications that there were.
LEMMA LessHeld ==
    ASSUME MemoInv, MemoAccounted', Cached(values') \subseteq Cached(values), UNCHANGED started,
           NEW t \in Threads,
           checks' = checks \/ checks' = [checks EXCEPT ![t] = None],
           authority' \in SUBSET Results,
           authority' = authority \/ \A u \in Threads : ~Memo!Closing(u)
    PROVE  MemoInv'
  <1>1. \A u \in Threads : checks'[u] = checks[u] \/ checks'[u] = None
    BY DEF MemoInv, MemoTyped
  <1>2. MemoTyped'
    BY DEF MemoInv, MemoTyped
  <1>3. \A u \in Threads : Checking(u)' => Checking(u) /\ checks'[u] = checks[u] /\ (Afresh(u)' <=> Afresh(u))
    BY <1>1 DEF Checking, Afresh
  <1>4. \A e \in Cached(values') : e.scope <= started'
    BY DEF MemoInv, ScopesApart
  <1>5. \A u \in Threads : Checking(u)' =>
            /\ checks'[u].scope <= started'
            /\ IF Afresh(u)' THEN checks'[u].scope # 0 ELSE checks'[u].scope = 0
    BY <1>3 DEF MemoInv, ScopesApart
  <1>6. \A v, u \in Threads :
            Afresh(v)' /\ Checking(u)' /\ v # u => checks'[v].scope # checks'[u].scope
    <2>1. \A u \in Threads : Afresh(u)' => Checking(u)'
      BY DEF Afresh, Checking
    <2> QED
      BY <1>3, <2>1 DEF MemoInv, ScopesApart
  <1>7. ScopesApart'
    BY <1>4, <1>5, <1>6 DEF ScopesApart, Cached
  <1>8. ASSUME NEW u \in Threads, Afresh(u)'
        PROVE  /\ WalkGood(checks'[u])
               /\ ScopeGood(checks'[u], Cached(values'))
               /\ checks'[u].kind = "closing" => checks'[u].sees = authority'
    <2>1. Checking(u)'
      BY <1>8 DEF Afresh, Checking
    <2>2. checks'[u] = checks[u] /\ CheckSound(checks[u]) /\ Checking(u)
      BY <1>3, <1>8, <2>1 DEF MemoInv, ChecksSound
    <2>3. ScopeGood(checks[u], Cached(values'))
      BY <2>2 DEF CheckSound, ScopeGood
    <2>4. checks[u].kind = "closing" => authority' = authority
      BY <2>2 DEF Memo!Closing, Checking
    <2> QED
      BY <2>2, <2>3, <2>4 DEF CheckSound
  <1>9. ChecksSound'
    BY <1>8 DEF ChecksSound, CheckSound, Cached, ScopeGood, EntryGood, WalkGood, FrameGood, Memo!Ancestors
  <1> QED
    BY <1>2, <1>7, <1>9 DEF MemoInv

\* A scope goes with its account.
LEMMA DiscardGoes ==
    ASSUME MemoAccounted, NEW scope, Memo!DiscardScope(scope)
    PROVE  MemoAccounted' /\ Cached(values') \subseteq Cached(values)
  <1> DEFINE own == {e \in Cached(values) : e.scope = scope}
  <1>1. values' = Memo!Without(values, own) /\ bytes' = bytes - Memo!TotalCharge(own)
    <2>1. Memo!Cached(values) = Cached(values)
      BY MemoOperators
    <2> QED
      BY <2>1 DEF Memo!DiscardScope, Memo!Credited
  <1>2. own \in SUBSET Cached(values)
    OBVIOUS
  <1> HIDE DEF own
  <1>3. values' = Without(values, own)
    BY <1>1, MemoOperators
  <1>4. Cached(values) \in SUBSET MemoEntries
    BY CachedFinite DEF MemoAccounted
  <1>5. Memo!TotalCharge(own) = Weight(MemoCharge, own)
    BY <1>2, <1>4, MemoTotal
  <1>6. /\ Without(values, own) \in Seq(MemoEntries) /\ Distinct(Without(values, own))
        /\ Cached(Without(values, own)) = Cached(values) \ own
        /\ Weight(MemoCharge, Cached(values)) \in Nat
        /\ Weight(MemoCharge, Cached(values) \cap own) \in Nat
        /\ Weight(MemoCharge, Cached(Without(values, own)))
             = Weight(MemoCharge, Cached(values)) - Weight(MemoCharge, Cached(values) \cap own)
    BY MemoGoes DEF MemoAccounted
  <1>7. Cached(values) \cap own = own
    BY <1>2
  <1>8. bytes' = Weight(MemoCharge, Cached(values'))
    BY <1>1, <1>3, <1>5, <1>6, <1>7 DEF MemoAccounted
  <1>9. Weight(MemoCharge, own) \in Nat
    BY <1>6, <1>7
  <1>10. bytes' <= MaximumBytes
    <2>1. bytes \in Nat /\ bytes <= MaximumBytes
      BY <1>6 DEF MemoAccounted
    <2> QED
      BY <1>1, <1>5, <1>9, <2>1, ChargesAssumption
  <1>11. values' \in Seq(MemoEntries) /\ Distinct(values') /\ Cached(values') \subseteq Cached(values)
    BY <1>3, <1>6
  <1> QED
    BY <1>8, <1>10, <1>11 DEF MemoAccounted, Distinct, Cached, Weight, Charges

LEMMA LeaveHeld ==
    ASSUME MemoInv, NEW t \in Threads, Memo!Accept(t) \/ Memo!Refuse(t)
    PROVE  MemoInv' /\ Cached(values') \subseteq Cached(values)
  <1>1. Memo!Leave(t)
    BY DEF Memo!Accept, Memo!Refuse
  <1>2. checks' = [checks EXCEPT ![t] = None] /\ UNCHANGED <<authority, started>>
            /\ \/ UNCHANGED <<values, bytes>>
               \/ Memo!DiscardScope(checks[t].scope)
    BY <1>1 DEF Memo!Leave
  <1>3. MemoAccounted' /\ Cached(values') \subseteq Cached(values)
    <2>1. CASE UNCHANGED <<values, bytes>>
      BY <2>1 DEF MemoInv, MemoAccounted
    <2>2. CASE Memo!DiscardScope(checks[t].scope)
      BY <2>2, DiscardGoes DEF MemoInv
    <2> QED
      BY <1>2, <2>1, <2>2
  <1>4. authority' \in SUBSET Results
    BY <1>2 DEF MemoInv, MemoTyped
  <1> QED
    BY <1>2, <1>3, <1>4, LessHeld

\* A verification begins in a scope of its own, with everything to do.
LEMMA BeginSound ==
    ASSUME MemoInv, NEW t \in Threads, NEW kind \in {"reading", "fresh", "closing"}, NEW r \in Results,
           Memo!Begin(t, kind, r)
    PROVE  MemoInv'
  <1> DEFINE c == [kind |-> kind, scope |-> Memo!ScopeOf(kind), result |-> r, sees |-> authority,
                   frames |-> <<Memo!Frame(r)>>]
  <1>1. checks' = [checks EXCEPT ![t] = c] /\ started' = started + 1
            /\ UNCHANGED <<values, bytes, authority>>
    BY DEF Memo!Begin
  <1>2. started \in Nat /\ authority \in SUBSET Results
    BY DEF MemoInv, MemoTyped
  <1>3. Memo!Frame(r) \in Frames /\ Memo!Frame(r).result = r /\ Memo!Frame(r).todo = Sources[r]
    <2>1. Sources[r] \subseteq Results
      BY SourcesAssumption
    <2> QED
      BY <2>1 DEF Memo!Frame, Frames
  <1>4. <<Memo!Frame(r)>> \in Seq(Frames) /\ Len(<<Memo!Frame(r)>>) = 1
            /\ <<Memo!Frame(r)>>[1] = Memo!Frame(r) /\ <<Memo!Frame(r)>> # <<>>
    BY <1>3
  <1>5. Memo!ScopeOf(kind) \in Nat /\ Memo!ScopeOf(kind) <= started + 1
            /\ IF kind = "reading" THEN Memo!ScopeOf(kind) = 0 ELSE Memo!ScopeOf(kind) = started + 1
    BY <1>2 DEF Memo!ScopeOf, Memo!ReadersScope
  <1>6. /\ c \in Verifications /\ c.kind = kind /\ c.scope = Memo!ScopeOf(kind) /\ c.result = r
        /\ c.sees = authority /\ Len(c.frames) = 1 /\ c.frames[1] = Memo!Frame(r) /\ c.frames # <<>>
    BY <1>2, <1>4, <1>5 DEF Verifications
  <1> HIDE DEF c
  <1>7. \A u \in Threads : checks'[u] = IF u = t THEN c ELSE checks[u]
    BY <1>1 DEF MemoInv, MemoTyped
  <1>8. MemoTyped' /\ MemoAccounted' /\ Cached(values') = Cached(values)
    <2>1. MemoTyped'
      BY <1>1, <1>2, <1>6, <1>7 DEF MemoInv, MemoTyped
    <2> QED
      BY <1>1, <2>1 DEF MemoInv, MemoAccounted
  <1>9. \A e \in Cached(values) : e.scope \in Nat /\ e.scope <= started
    <2>1. Cached(values) \subseteq MemoEntries
      BY CachedFinite DEF MemoInv, MemoAccounted
    <2> QED
      BY <2>1 DEF MemoEntries, MemoInv, ScopesApart
  <1>10. \A u \in Threads : u # t =>
             /\ Checking(u)' <=> Checking(u)
             /\ Afresh(u)' <=> Afresh(u)
             /\ checks'[u] = checks[u]
    BY <1>7 DEF Checking, Afresh
  <1>11. Afresh(t)' => kind # "reading"
    BY <1>6, <1>7 DEF Afresh, Checking
  <1>12. Checking(t)' /\ ~Afresh(t)' => kind = "reading"
    BY <1>6, <1>7 DEF Afresh, Checking
  <1>13. ASSUME NEW u \in Threads, u # t, Checking(u)
         PROVE  checks[u].scope \in Nat /\ checks[u].scope <= started
                    /\ IF Afresh(u) THEN checks[u].scope # 0 ELSE checks[u].scope = 0
    <2>1. checks[u] \in Verifications
      BY <1>13 DEF MemoInv, MemoTyped, Checking
    <2> QED
      BY <1>13, <2>1 DEF MemoInv, ScopesApart, Verifications
  <1>14. ASSUME NEW u \in Threads, Checking(u)'
         PROVE  /\ checks'[u].scope <= started'
                /\ IF Afresh(u)' THEN checks'[u].scope # 0 ELSE checks'[u].scope = 0
    <2>1. CASE u = t
      <3>1. checks'[u] = c
        BY <1>7, <2>1
      <3>2. checks'[u].scope <= started'
        BY <1>1, <1>2, <1>5, <1>6, <3>1
      <3>3. CASE Afresh(u)'
        BY <1>2, <1>5, <1>6, <1>11, <2>1, <3>1, <3>2, <3>3
      <3>4. CASE ~Afresh(u)'
        BY <1>5, <1>6, <1>12, <1>14, <2>1, <3>1, <3>2, <3>4
      <3> QED
        BY <3>3, <3>4
    <2>2. CASE u # t
      <3>1. Checking(u) /\ checks'[u] = checks[u] /\ (Afresh(u)' <=> Afresh(u))
        BY <1>10, <1>14, <2>2
      <3>2. checks[u].scope \in Nat /\ checks[u].scope <= started
                    /\ IF Afresh(u) THEN checks[u].scope # 0 ELSE checks[u].scope = 0
        BY <1>13, <2>2, <3>1
      <3>3. checks'[u].scope <= started'
        BY <1>1, <1>2, <3>1, <3>2
      <3> QED
        BY <3>1, <3>2, <3>3
    <2> QED
      BY <2>1, <2>2
  <1>15. ASSUME NEW v \in Threads, NEW u \in Threads, Afresh(v)', Checking(u)', v # u
         PROVE  checks'[v].scope # checks'[u].scope
    <2>1. CASE v = t
      <3>1. kind # "reading" /\ checks'[v] = c /\ c.scope = started + 1
        BY <1>5, <1>6, <1>7, <1>11, <1>15, <2>1
      <3>2. u # t /\ Checking(u) /\ checks'[u] = checks[u]
        BY <1>10, <1>15, <2>1
      <3>3. checks[u].scope \in Nat /\ checks[u].scope <= started
        BY <1>13, <3>2
      <3> QED
        BY <1>2, <3>1, <3>2, <3>3
    <2>2. CASE u = t
      <3>1. v # t /\ Afresh(v) /\ Checking(v) /\ checks'[v] = checks[v]
        BY <1>10, <1>15, <2>2 DEF Afresh
      <3>2. checks[v].scope \in Nat /\ checks[v].scope <= started /\ checks[v].scope # 0
        BY <1>13, <3>1
      <3>3. checks'[u] = c /\ (c.scope = 0 \/ c.scope = started + 1)
        BY <1>5, <1>6, <1>7, <2>2
      <3> QED
        BY <1>2, <3>1, <3>2, <3>3
    <2>3. CASE v # t /\ u # t
      BY <1>10, <1>15, <2>3 DEF MemoInv, ScopesApart
    <2> QED
      BY <2>1, <2>2, <2>3
  <1>16. ScopesApart'
    <2>1. \A e \in Cached(values') : e.scope <= started'
      BY <1>1, <1>2, <1>8, <1>9
    <2> QED
      BY <1>14, <1>15, <2>1 DEF ScopesApart, Cached
  <1>17. ASSUME NEW u \in Threads, Afresh(u)'
         PROVE  /\ WalkGood(checks'[u])
                /\ ScopeGood(checks'[u], Cached(values'))
                /\ checks'[u].kind = "closing" => checks'[u].sees = authority'
    <2>1. CASE u = t
      <3>1. checks'[u] = c /\ c.scope = started + 1
        BY <1>5, <1>6, <1>7, <1>11, <1>17, <2>1
      <3>2. FrameGood(c, 1)
        BY <1>3, <1>6 DEF FrameGood
      <3>3. WalkGood(c)
        <4>1. \A k \in 1 .. Len(c.frames) : k = 1
          BY <1>6
        <4> QED
          BY <1>6, <3>2, <4>1 DEF WalkGood
      <3>4. ScopeGood(c, Cached(values'))
        <4>1. \A e \in Cached(values') : e.scope # c.scope
          BY <1>2, <1>8, <1>9, <3>1
        <4> QED
          BY <4>1 DEF ScopeGood
      <3> QED
        BY <1>1, <1>6, <3>1, <3>3, <3>4
    <2>2. CASE u # t
      <3>1. Afresh(u) /\ checks'[u] = checks[u]
        BY <1>10, <1>17, <2>2
      <3>2. CheckSound(checks[u])
        BY <3>1 DEF MemoInv, ChecksSound
      <3>3. ScopeGood(checks[u], Cached(values'))
        BY <1>8, <3>2 DEF CheckSound
      <3> QED
        BY <1>1, <3>1, <3>2, <3>3 DEF CheckSound
    <2> QED
      BY <2>1, <2>2
  <1>18. ChecksSound'
    BY <1>17 DEF ChecksSound, CheckSound, Cached, ScopeGood, EntryGood, WalkGood, FrameGood, Memo!Ancestors
  <1> QED
    BY <1>8, <1>16, <1>18 DEF MemoInv

LEMMA MemoInit == Memo!Init => MemoInv
  <1> SUFFICES ASSUME Memo!Init PROVE MemoInv
    OBVIOUS
  <1>1. Cached(values) = {} /\ Distinct(values) /\ values \in Seq(MemoEntries)
    BY EmptySeq DEF Memo!Init, Cached, Distinct
  <1>2. Weight(MemoCharge, {}) = 0
    BY FS_EmptySet DEF Weight, Charges
  <1>3. bytes = Weight(MemoCharge, Cached(values)) /\ bytes <= MaximumBytes
    <2>1. bytes = 0 /\ 0 <= MaximumBytes
      BY ChargesAssumption DEF Memo!Init
    <2> QED
      BY <1>1, <1>2, <2>1
  <1>4. \A t \in Threads : ~Checking(t)
    BY DEF Memo!Init, Checking
  <1>5. MemoTyped
    BY DEF Memo!Init, MemoTyped
  <1>6. ScopesApart /\ ChecksSound
    BY <1>1, <1>4 DEF ScopesApart, ChecksSound, Afresh
  <1> QED
    BY <1>1, <1>3, <1>5, <1>6 DEF MemoInv, MemoAccounted

LEMMA CloseHeld ==
    ASSUME MemoInv, Memo!Close PROVE MemoInv' /\ Cached(values') \subseteq Cached(values)
  <1>1. values' = <<>> /\ bytes' = 0 /\ UNCHANGED <<authority, checks, started>>
    BY DEF Memo!Close
  <1>2. Cached(values') = {} /\ Distinct(values') /\ values' \in Seq(MemoEntries)
    BY <1>1, EmptySeq DEF Cached, Distinct
  <1>3. Weight(MemoCharge, {}) = 0
    BY FS_EmptySet DEF Weight, Charges
  <1>4. bytes' = Weight(MemoCharge, Cached(values')) /\ bytes' <= MaximumBytes
    <2>1. 0 <= MaximumBytes
      BY ChargesAssumption
    <2> QED
      BY <1>1, <1>2, <1>3, <2>1
  <1>5. MemoAccounted'
    BY <1>2, <1>4 DEF MemoAccounted, Distinct, Cached, Weight, Charges
  <1>6. MemoTyped'
    BY <1>1 DEF MemoInv, MemoTyped
  <1>7. \A t \in Threads : (Checking(t)' <=> Checking(t)) /\ (Afresh(t)' <=> Afresh(t))
    BY <1>1 DEF Checking, Afresh
  <1>8. ScopesApart'
    <2>1. \A e \in Cached(values') : e.scope <= started'
      BY <1>2
    <2> QED
      BY <1>1, <1>7, <2>1 DEF MemoInv, ScopesApart, Cached
  <1>9. ASSUME NEW t \in Threads, Afresh(t)
        PROVE  /\ WalkGood(checks[t])
               /\ ScopeGood(checks[t], Cached(values'))
               /\ checks[t].kind = "closing" => checks[t].sees = authority
    BY <1>2, <1>9 DEF MemoInv, ChecksSound, CheckSound, ScopeGood
  <1>10. ChecksSound'
    BY <1>1, <1>7, <1>9 DEF ChecksSound, CheckSound, Cached, ScopeGood, EntryGood, WalkGood, FrameGood,
                            Memo!Ancestors
  <1> QED
    BY <1>2, <1>5, <1>6, <1>8, <1>10 DEF MemoInv

LEMMA LoseSound ==
    ASSUME MemoInv, NEW r \in Results, Memo!Lose(r), NEW t \in Threads PROVE MemoInv'
  <1>1. authority' = authority \ {r} /\ UNCHANGED <<values, bytes, checks, started>>
            /\ \A u \in Threads : ~Memo!Closing(u)
    BY DEF Memo!Lose
  <1>2. MemoAccounted' /\ Cached(values') \subseteq Cached(values)
    BY <1>1 DEF MemoInv, MemoAccounted
  <1>3. authority' \in SUBSET Results
    BY <1>1 DEF MemoInv, MemoTyped
  <1> QED
    BY <1>1, <1>2, <1>3, LessHeld

LEMMA MemoStep == MemoInv /\ [Memo!Next]_Memo!vars => MemoInv'
  <1> SUFFICES ASSUME MemoInv, [Memo!Next]_Memo!vars PROVE MemoInv'
    OBVIOUS
  <1>1. ASSUME NEW t \in Threads, \E kind \in Memo!Kinds, r \in Results : Memo!Begin(t, kind, r)
        PROVE  MemoInv'
    BY <1>1, BeginSound DEF Memo!Kinds
  <1>2. ASSUME NEW t \in Threads, \E s \in Results : Memo!Source(t, s) PROVE MemoInv'
    BY <1>2, SourceSound
  <1>3. ASSUME NEW t \in Threads, Memo!Found(t) \/ Memo!Walk(t) \/ Memo!Verified(t) PROVE MemoInv'
    BY <1>3, FoundSound, WalkSound, VerifiedSound
  <1>4. ASSUME NEW t \in Threads, Memo!Accept(t) \/ Memo!Refuse(t) PROVE MemoInv'
    BY <1>4, LeaveHeld
  <1>5. ASSUME NEW r \in Results, Memo!Lose(r) PROVE MemoInv'
    <2>1. CASE Threads # {}
      BY <1>5, <2>1, LoseSound
    <2>2. CASE Threads = {}
      <3>1. authority' = authority \ {r} /\ UNCHANGED <<values, bytes, checks, started>>
        BY <1>5 DEF Memo!Lose
      <3>2. MemoAccounted' /\ MemoTyped'
        BY <3>1 DEF MemoInv, MemoAccounted, MemoTyped
      <3>3. ScopesApart' /\ ChecksSound'
        BY <2>2, <3>1 DEF MemoInv, ScopesApart, ChecksSound, Cached
      <3> QED
        BY <3>2, <3>3 DEF MemoInv
    <2> QED
      BY <2>1, <2>2
  <1>6. CASE Memo!Close
    BY <1>6, CloseHeld
  <1>7. CASE UNCHANGED Memo!vars
    <2>1. UNCHANGED <<values, bytes, authority, checks, started>>
      BY <1>7 DEF Memo!vars
    <2>2. MemoAccounted' /\ MemoTyped'
      BY <2>1 DEF MemoInv, MemoAccounted, MemoTyped
    <2>3. ScopesApart'
      BY <2>1 DEF MemoInv, ScopesApart, Checking, Afresh, Cached
    <2>4. ChecksSound'
      BY <2>1 DEF MemoInv, ChecksSound, CheckSound, Checking, Afresh
    <2> QED
      BY <2>2, <2>3, <2>4 DEF MemoInv
  <1> QED
    BY <1>1, <1>2, <1>3, <1>4, <1>5, <1>6, <1>7 DEF Memo!Next

LEMMA MemoIsRight == MemoInv => Memo!AccountIsExact /\ Memo!FreshChecksHold
  <1> SUFFICES ASSUME MemoInv PROVE Memo!AccountIsExact /\ Memo!FreshChecksHold
    OBVIOUS
  <1>1. Memo!AccountIsExact
    <2>1. Cached(values) \in SUBSET MemoEntries
      BY CachedFinite DEF MemoInv, MemoAccounted
    <2>2. Memo!TotalCharge(Cached(values)) = Weight(MemoCharge, Cached(values))
      BY <2>1, MemoTotal
    <2>3. Memo!Cached(values) = Cached(values) /\ Memo!Distinct(values)
      BY MemoOperators DEF MemoInv, MemoAccounted
    <2>4. Memo!TotalCharge(Memo!Cached(values)) = Memo!TotalCharge(Cached(values))
      BY <2>3
    <2> QED
      BY <2>2, <2>3, <2>4 DEF MemoInv, MemoAccounted, Memo!AccountIsExact
  <1>2. ASSUME NEW t \in Threads, checks[t] # None, checks[t].frames = <<>>
        PROVE  /\ checks[t].kind = "fresh" => Memo!Ancestors(checks[t].result) \subseteq checks[t].sees
               /\ checks[t].kind = "closing" => Memo!Ancestors(checks[t].result) \subseteq authority
    <2>1. ASSUME checks[t].kind # "reading"
          PROVE  /\ Memo!Ancestors(checks[t].result) \subseteq checks[t].sees
                 /\ checks[t].kind = "closing" => checks[t].sees = authority
      BY <1>2, <2>1 DEF MemoInv, ChecksSound, CheckSound, WalkGood, Afresh, Checking
    <2> QED
      BY <2>1
  <1> QED
    BY <1>1, <1>2 DEF Memo!FreshChecksHold

LEMMA MemoKeepsEvidence ==
    ASSUME MemoInv, [Memo!Next]_Memo!vars PROVE Memo!FlushesNoEvidence(values, values')
  <1>1. ASSUME Cached(values') \subseteq Cached(values) PROVE Memo!FlushesNoEvidence(values, values')
    BY <1>1, MemoOperators DEF Memo!FlushesNoEvidence
  <1>2. ASSUME NEW e, Memo!Has(e), Memo!Get(e) PROVE Memo!FlushesNoEvidence(values, values')
    <2>1. Cached(values') = Cached(values)
      BY <1>2, MemoGet DEF MemoInv
    <2> QED
      BY <1>1, <2>1
  <1>3. ASSUME NEW t \in Threads, NEW kind \in {"manifest", "bindings"}, NEW r \in Results,
               Checking(t), Memo!Put(Memo!Key(t, kind, r))
        PROVE  Memo!FlushesNoEvidence(values, values')
    <2>1. Memo!Key(t, kind, r) \in MemoEntries
      BY <1>3, KeyFacts DEF MemoInv
    <2> QED
      BY <1>3, <2>1, MemoPut DEF MemoInv
  <1>4. ASSUME NEW t \in Threads, Memo!Found(t) PROVE Memo!FlushesNoEvidence(values, values')
    BY <1>2, <1>4 DEF Memo!Found
  <1>5. ASSUME NEW t \in Threads, NEW s \in Results, Memo!Source(t, s)
        PROVE  Memo!FlushesNoEvidence(values, values')
    <2>1. Checking(t)
      BY <1>5, LastFacts DEF MemoInv, Memo!Source, Memo!At
    <2> QED
      BY <1>2, <1>3, <1>5, <2>1 DEF Memo!Source
  <1>6. ASSUME NEW t \in Threads, Memo!Verified(t) PROVE Memo!FlushesNoEvidence(values, values')
    <2>1. Checking(t) /\ Memo!Top(t).result \in Results
      BY <1>6, LastFacts DEF MemoInv, Memo!Verified, Memo!At
    <2> QED
      BY <1>3, <1>6, <2>1 DEF Memo!Verified
  <1>7. ASSUME NEW t \in Threads, Memo!Accept(t) \/ Memo!Refuse(t)
        PROVE  Memo!FlushesNoEvidence(values, values')
    BY <1>1, <1>7, LeaveHeld
  <1>8. CASE Memo!Close
    BY <1>1, <1>8, CloseHeld
  <1>9. CASE UNCHANGED values
    BY <1>1, <1>9
  <1> QED
    BY <1>4, <1>5, <1>6, <1>7, <1>8, <1>9 DEF Memo!Next, Memo!vars, Memo!Begin, Memo!Walk, Memo!Lose

-----------------------------------------------------------------------------
(* Both reserves. *)

ReserveInv ==
    /\ reserve \in {"preparation", "memo"}
    /\ IF reserve = "preparation" THEN PInv ELSE MemoInv

LEMMA ReserveStart == ReserveInit => ReserveInv
  BY AccountInit, MemoInit DEF ReserveInit, ReserveInv

LEMMA ReserveStep == ReserveInv /\ [ReserveNext]_allVars => ReserveInv'
  <1> SUFFICES ASSUME ReserveInv, [ReserveNext]_allVars PROVE ReserveInv'
    OBVIOUS
  <1>1. reserve' = reserve
    BY DEF ReserveNext, allVars
  <1>2. CASE reserve = "preparation"
    <2>1. [Next]_vars /\ PInv
      BY <1>2 DEF ReserveInv, ReserveNext, allVars, preparationOnly, vars
    <2>2. PInv'
      BY <2>1, AccountStep
    <2> QED
      BY <1>1, <1>2, <2>2 DEF ReserveInv
  <1>3. CASE reserve = "memo"
    <2>1. [Memo!Next]_Memo!vars /\ MemoInv
      BY <1>3 DEF ReserveInv, ReserveNext, allVars, memoOnly, Memo!vars
    <2>2. MemoInv'
      BY <2>1, MemoStep
    <2> QED
      BY <1>1, <1>3, <2>2 DEF ReserveInv
  <1> QED
    BY <1>2, <1>3 DEF ReserveInv

\* No entry is twice in either reserve, and its account is exact and within its bound, for any
\* charges, priorities, nesting, bounds and number of threads.
THEOREM AccountsAreExact == ReserveSpec => []ReservesAreExact
  <1>1. ReserveInv => ReservesAreExact
    BY AccountIsRight, MemoIsRight DEF ReserveInv, ReservesAreExact
  <1> QED
    BY <1>1, ReserveStart, ReserveStep, PTL DEF ReserveSpec

\* What a fresh or closing verification accepts has its authority, with all it was made of,
\* whatever readers have left in the memo and whatever is lost or closed meanwhile.
THEOREM FreshChecksBorrowNothing == ReserveSpec => []FreshChecksHold
  <1>1. ReserveInv => FreshChecksHold
    BY MemoIsRight DEF ReserveInv, FreshChecksHold
  <1> QED
    BY <1>1, ReserveStart, ReserveStep, PTL DEF ReserveSpec

\* No step of either reserve flushes an entry of a higher priority for one of a lower.
THEOREM ReservesKeepEvidence == ReserveSpec => EvidenceStays
  <1> DEFINE Stays == IF reserve = "preparation" THEN FlushesNoEvidence(values, values')
                      ELSE Memo!FlushesNoEvidence(values, values')
  <1>1. ASSUME ReserveInv, [ReserveNext]_allVars PROVE [Stays]_allVars
    <2>1. CASE reserve = "preparation"
      <3>1. [Next]_vars /\ PInv
        BY <1>1, <2>1 DEF ReserveInv, ReserveNext, allVars, preparationOnly, vars
      <3> QED
        BY <2>1, <3>1, PreparationKeepsEvidence
    <2>2. CASE reserve = "memo"
      <3>1. [Memo!Next]_Memo!vars /\ MemoInv
        BY <1>1, <2>2 DEF ReserveInv, ReserveNext, allVars, memoOnly, Memo!vars
      <3> QED
        BY <2>2, <3>1, MemoKeepsEvidence
    <2> QED
      BY <1>1, <2>1, <2>2 DEF ReserveInv
  <1> QED
    BY <1>1, ReserveStart, ReserveStep, PTL DEF ReserveSpec, EvidenceStays
================================================================================

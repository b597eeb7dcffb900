--------------------------- MODULE PortLifeProofs ---------------------------
(***************************************************************************)
(* The references of a port object: who has a send right or a reference    *)
(* keeps it, and nobody has one when it is freed, for any threads and any  *)
(* number of rights and requests.                                          *)
(***************************************************************************)
EXTENDS PortLife, FiniteSetTheorems, FunctionTheorems, TLAPS

Places == {"idle", "request", "notice", "status", "no_senders", "found",
           "handler", "dropweak", "weak", "dealloc", "removed", "cleaning"}

(* Type correctness. *)
TypeOK ==
  /\ kind \in {"plain", "cached", "identity"}
  /\ hard \in Nat /\ weak \in Nat /\ mscount \in Nat
  /\ cached \in BOOLEAN /\ has_sendrights \in BOOLEAN /\ in_table \in BOOLEAN
  /\ port_right \in BOOLEAN /\ payloads \in BOOLEAN
  /\ revived \in SUBSET {"listed", "unlisted"}
  /\ life \in {"live", "freed", "aborted"}
  /\ pc \in [Threads -> Places]
  /\ holds \in [Threads -> Nat] /\ stat \in [Threads -> Nat]
  /\ promised \in Nat /\ srights \in Nat /\ k_mscount \in Nat
  /\ nsrequest \in BOOLEAN /\ notices \in Nat /\ requests \in Nat
  /\ late \in BOOLEAN

(* The references that threads hold, and the threads that have made theirs *)
(* a weak one.                                                             *)
Tokens(h) == UNION {{t} \X (1 .. h[t]) : t \in Threads}
Held(h) == Cardinality(Tokens(h))
Weakly(p) == {t \in Threads : p[t] \in {"dropweak", "weak"}}

One(b) == IF b THEN 1 ELSE 0

(* Every hard reference is held by a thread or stands for the send rights, *)
(* every weak one is the table's or a thread's that is giving it up.       *)
HardMatch == hard = Held(holds) + One(has_sendrights)
WeakMatch == weak = One(cached) + Cardinality(Weakly(pc))

(* What a thread holds where it is. *)
HoldsMatch ==
  \A t \in Threads :
    /\ pc[t] \in {"status", "no_senders", "found", "handler"} => holds[t] > 0
    /\ pc[t] \in {"idle", "request", "notice", "dealloc", "removed", "cleaning"}
         => holds[t] = 0
    /\ pc[t] = "found" => kind = "cached"

(* A right is promised, then made, then in a client's hands or in the      *)
(* queue, and all that while the object has send rights.                   *)
RightsMatch ==
  /\ requests <= srights
  /\ mscount = k_mscount + promised
  /\ srights + promised > 0 => has_sendrights
  /\ kind = "identity" /\ has_sendrights => cached

(* What a thread has read of the kernel's count is still the count only if *)
(* there have been no senders since.                                       *)
StatMatches ==
  \A t \in Threads : pc[t] = "no_senders" =>
    /\ stat[t] <= k_mscount
    /\ stat[t] = k_mscount => srights = 0

Live == HardMatch /\ WeakMatch /\ HoldsMatch /\ RightsMatch /\ StatMatches

(* The threads inside _ports_complete_deallocate. *)
Freeing(p) == {t \in Threads : p[t] \in {"dealloc", "removed", "cleaning"}}

(* Once the port has left the table only a lookup by payload gives it a    *)
(* reference again, and a second thread frees it only if a lookup did.     *)
Parting ==
  /\ ~port_right => ~in_table
  /\ "unlisted" \in revived => payloads
  /\ \A t \in Threads : pc[t] \in {"removed", "cleaning"} => ~in_table
  /\ ~in_table /\ "unlisted" \notin revived => hard = 0 /\ weak = 0
  /\ revived = {} =>
       \A t, u \in Freeing(pc) : t = u /\ hard = 0 /\ weak = 0

Inv == TypeOK /\ (life = "live" => Live /\ Parting) /\ FreedUnused

-----------------------------------------------------------------------------
(* The references that threads hold are finitely many; one more and one    *)
(* less.                                                                   *)
LEMMA TokensFinite ==
  ASSUME NEW h \in [Threads -> Nat]
  PROVE  /\ IsFiniteSet(Tokens(h)) /\ Held(h) \in Nat
         /\ Held(h) = 0 <=> \A t \in Threads : h[t] = 0
<1> DEFINE f == [t \in Threads |-> {t} \X (1 .. h[t])]
           T == {f[t] : t \in Threads}
<1>1. IsFiniteSet(T)
  <2>1. f \in Surjection(Threads, T)
    BY DEF Surjection
  <2> HIDE DEF f, T
  <2> QED BY <2>1, PortLifeAssumption, FS_Surjection
<1>2. ASSUME NEW t \in Threads PROVE IsFiniteSet({t} \X (1 .. h[t]))
  <2>1. h[t] \in Int /\ 1 \in Int
    OBVIOUS
  <2>2. IsFiniteSet(1 .. h[t])
    BY <2>1, FS_Interval
  <2>3. IsFiniteSet({t})
    BY FS_Singleton
  <2> QED BY <2>2, <2>3, FS_Product
<1>3. \A X \in T : IsFiniteSet(X)
  BY <1>2
<1>4. Tokens(h) = UNION T
  BY DEF Tokens
<1>5. IsFiniteSet(Tokens(h))
  <2> HIDE DEF T
  <2> QED BY <1>1, <1>3, <1>4, FS_UNION
<1>6. Tokens(h) = {} <=> \A t \in Threads : h[t] = 0
  <2>1. ASSUME NEW t \in Threads, h[t] # 0 PROVE <<t, 1>> \in Tokens(h)
    BY <2>1 DEF Tokens
  <2>2. ASSUME \A t \in Threads : h[t] = 0 PROVE Tokens(h) = {}
    BY <2>2 DEF Tokens
  <2> QED BY <2>1, <2>2
<1> QED BY <1>5, <1>6, FS_CardinalityType, FS_EmptySet DEF Held

LEMMA HeldOneMore ==
  ASSUME NEW h \in [Threads -> Nat], NEW g \in [Threads -> Nat], NEW t \in Threads,
         g = [h EXCEPT ![t] = @ + 1]
  PROVE  Held(g) = Held(h) + 1
<1> DEFINE x == <<t, h[t] + 1>>
<1>1. x \notin Tokens(h)
  BY DEF Tokens
<1>2. Tokens(g) = Tokens(h) \cup {x}
  <2>1. ASSUME NEW u \in Threads, NEW i \in Nat, i > 0
        PROVE  (i <= g[u]) <=> (i <= h[u] \/ <<u, i>> = x)
    BY <2>1
  <2>2. \A y : y \in Tokens(g) <=> \E u \in Threads, i \in Nat :
                                      i > 0 /\ i <= g[u] /\ y = <<u, i>>
    BY DEF Tokens
  <2>3. \A y : y \in Tokens(h) <=> \E u \in Threads, i \in Nat :
                                      i > 0 /\ i <= h[u] /\ y = <<u, i>>
    BY DEF Tokens
  <2>4. h[t] + 1 \in Nat /\ h[t] + 1 > 0
    OBVIOUS
  <2>5. ASSUME NEW y \in Tokens(g) PROVE y \in Tokens(h) \cup {x}
    <3>1. PICK u \in Threads, i \in Nat : i > 0 /\ i <= g[u] /\ y = <<u, i>>
      BY <2>2, <2>5
    <3>2. i <= h[u] \/ y = x
      BY <2>1, <3>1
    <3> QED BY <2>3, <3>1, <3>2
  <2>6. ASSUME NEW y \in Tokens(h) PROVE y \in Tokens(g)
    <3>1. PICK u \in Threads, i \in Nat : i > 0 /\ i <= h[u] /\ y = <<u, i>>
      BY <2>3, <2>6
    <3>2. i <= g[u]
      BY <2>1, <3>1
    <3> QED BY <2>2, <3>1, <3>2
  <2>7. x \in Tokens(g)
    <3>1. h[t] + 1 <= g[t]
      OBVIOUS
    <3> QED BY <2>2, <2>4, <3>1
  <2> HIDE DEF x
  <2> QED BY <2>5, <2>6, <2>7
<1> HIDE DEF x
<1> QED BY <1>1, <1>2, TokensFinite, FS_AddElement DEF Held

LEMMA HeldChange ==
  ASSUME NEW h \in [Threads -> Nat], NEW t \in Threads
  PROVE  /\ Held([h EXCEPT ![t] = @ + 1]) = Held(h) + 1
         /\ h[t] > 0 => Held([h EXCEPT ![t] = @ - 1]) = Held(h) - 1
<1>1. Held([h EXCEPT ![t] = @ + 1]) = Held(h) + 1
  <2>1. [h EXCEPT ![t] = @ + 1] \in [Threads -> Nat]
    OBVIOUS
  <2> QED BY <2>1, HeldOneMore
<1>2. ASSUME h[t] > 0
      PROVE  Held([h EXCEPT ![t] = @ - 1]) = Held(h) - 1
  <2> DEFINE g == [h EXCEPT ![t] = @ - 1]
  <2>1. g \in [Threads -> Nat]
    BY <1>2
  <2>2. h = [g EXCEPT ![t] = @ + 1]
    <3>1. \A u \in Threads : g[u] = IF u = t THEN h[t] - 1 ELSE h[u]
      OBVIOUS
    <3>2. [g EXCEPT ![t] = @ + 1] = [u \in Threads |-> h[u]]
      <4> HIDE DEF g
      <4>1. [g EXCEPT ![t] = @ + 1] = [u \in Threads |-> IF u = t THEN g[t] + 1 ELSE g[u]]
        BY <2>1
      <4>2. \A u \in Threads : (IF u = t THEN g[t] + 1 ELSE g[u]) = h[u]
        BY <1>2, <3>1
      <4> QED BY <4>1, <4>2
    <3>3. h = [u \in Threads |-> h[u]]
      OBVIOUS
    <3> QED BY <3>2, <3>3
  <2> HIDE DEF g
  <2>3. Held(h) = Held(g) + 1
    BY <2>1, <2>2, HeldOneMore
  <2>4. Held(g) \in Nat /\ Held(h) \in Nat
    BY <2>1, TokensFinite
  <2> QED BY <2>3, <2>4 DEF g
<1> QED BY <1>1, <1>2

(* The threads with a weak reference, when one of them moves. *)
LEMMA WeaklyChange ==
  ASSUME NEW p \in [Threads -> Places], NEW t \in Threads, NEW to \in Places
  PROVE  /\ Cardinality(Weakly(p)) \in Nat
         /\ p[t] \in {"dropweak", "weak"} => Cardinality(Weakly(p)) > 0
         /\ Cardinality(Weakly([p EXCEPT ![t] = to]))
              = Cardinality(Weakly(p)) + One(to \in {"dropweak", "weak"})
                  - One(p[t] \in {"dropweak", "weak"})
<1> DEFINE q == [p EXCEPT ![t] = to]
           W == {"dropweak", "weak"}
<1>1. \A u \in Threads : q[u] = IF u = t THEN to ELSE p[u]
  OBVIOUS
<1>2. IsFiniteSet(Weakly(p)) /\ Cardinality(Weakly(p)) \in Nat
  <2>1. Weakly(p) \in SUBSET Threads
    BY DEF Weakly
  <2> QED BY <2>1, PortLifeAssumption, FS_Subset, FS_CardinalityType
<1>3. p[t] \in W => Cardinality(Weakly(p)) > 0
  <2> SUFFICES ASSUME p[t] \in W PROVE Cardinality(Weakly(p)) > 0
    OBVIOUS
  <2>1. Weakly(p) # {}
    BY DEF Weakly
  <2> QED BY <1>2, <2>1, FS_EmptySet
<1> HIDE DEF q
<1>4. CASE to \in W /\ p[t] \notin W
  <2>1. Weakly(q) = Weakly(p) \cup {t} /\ t \notin Weakly(p)
    BY <1>1, <1>4 DEF Weakly
  <2>2. Cardinality(Weakly(q)) = Cardinality(Weakly(p)) + 1
    BY <1>2, <2>1, FS_AddElement
  <2> QED BY <1>2, <1>3, <1>4, <2>2 DEF One, q
<1>5. CASE to \notin W /\ p[t] \in W
  <2>1. Weakly(q) = Weakly(p) \ {t} /\ t \in Weakly(p)
    BY <1>1, <1>5 DEF Weakly
  <2>2. Cardinality(Weakly(q)) = Cardinality(Weakly(p)) - 1
    BY <1>2, <2>1, FS_RemoveElement
  <2> QED BY <1>2, <1>3, <1>5, <2>2 DEF One, q
<1>6. CASE to \in W <=> p[t] \in W
  <2>1. Weakly(q) = Weakly(p)
    BY <1>1, <1>6 DEF Weakly
  <2> QED BY <1>2, <1>3, <1>6, <2>1 DEF One, q
<1> QED BY <1>4, <1>5, <1>6

(* What the step lemmas need of the two counts. *)
LEMMA Counts ==
  ASSUME TypeOK
  PROVE  /\ Held(holds) \in Nat /\ Cardinality(Weakly(pc)) \in Nat
         /\ Held(holds) = 0 <=> \A t \in Threads : holds[t] = 0
         /\ \A t \in Threads : pc[t] \in {"dropweak", "weak"} => Cardinality(Weakly(pc)) > 0
<1>1. holds \in [Threads -> Nat] /\ pc \in [Threads -> Places]
  BY DEF TypeOK
<1>2. Held(holds) \in Nat /\ (Held(holds) = 0 <=> \A t \in Threads : holds[t] = 0)
  BY <1>1, TokensFinite
<1>3. ASSUME NEW t \in Threads
      PROVE  /\ Cardinality(Weakly(pc)) \in Nat
             /\ pc[t] \in {"dropweak", "weak"} => Cardinality(Weakly(pc)) > 0
  BY <1>1, WeaklyChange
<1> QED BY <1>2, <1>3, PortLifeAssumption

LEMMA Moves ==
  ASSUME TypeOK, NEW t \in Threads, NEW to \in Places, Goto(t, to)
  PROVE  /\ Cardinality(Weakly(pc')) = Cardinality(Weakly(pc))
              + One(to \in {"dropweak", "weak"}) - One(pc[t] \in {"dropweak", "weak"})
         /\ pc' \in [Threads -> Places]
         /\ \A u \in Threads : pc'[u] = IF u = t THEN to ELSE pc[u]
<1>1. pc \in [Threads -> Places] /\ pc' = [pc EXCEPT ![t] = to]
  BY DEF TypeOK, Goto
<1> QED BY <1>1, WeaklyChange

LEMMA Takes ==
  ASSUME TypeOK, NEW t \in Threads, holds' = [holds EXCEPT ![t] = @ + 1]
  PROVE  /\ Held(holds') = Held(holds) + 1
         /\ holds' \in [Threads -> Nat]
         /\ \A u \in Threads : holds'[u] = IF u = t THEN holds[t] + 1 ELSE holds[u]
<1>1. holds \in [Threads -> Nat]
  BY DEF TypeOK
<1>2. Held(holds') = Held(holds) + 1
  BY <1>1, HeldChange
<1>3. /\ holds' \in [Threads -> Nat]
      /\ \A u \in Threads : holds'[u] = IF u = t THEN holds[t] + 1 ELSE holds[u]
  BY <1>1
<1> QED BY <1>2, <1>3

LEMMA Gives ==
  ASSUME TypeOK, NEW t \in Threads, holds[t] > 0, holds' = [holds EXCEPT ![t] = @ - 1]
  PROVE  /\ Held(holds') = Held(holds) - 1 /\ Held(holds') \in Nat
         /\ holds' \in [Threads -> Nat]
         /\ \A u \in Threads : holds'[u] = IF u = t THEN holds[t] - 1 ELSE holds[u]
         /\ Held(holds') = 0 <=> \A u \in Threads : holds'[u] = 0
<1>1. holds \in [Threads -> Nat]
  BY DEF TypeOK
<1>2. holds' \in [Threads -> Nat]
  BY <1>1
<1> QED BY <1>1, <1>2, HeldChange, TokensFinite

(* The kernel's notification, requested and sent. *)
LEMMA KernelTypes ==
  ASSUME TypeOK
  PROVE  /\ release_send => /\ nsrequest' \in BOOLEAN /\ notices' \in Nat
                            /\ srights' = srights - 1
         /\ \A n : request_no_senders(n) => nsrequest' \in BOOLEAN /\ notices' \in Nat
<1>1. nsrequest \in BOOLEAN /\ notices \in Nat /\ notices + 1 \in Nat
  BY DEF TypeOK
<1>2. ASSUME release_send
      PROVE  nsrequest' \in BOOLEAN /\ notices' \in Nat /\ srights' = srights - 1
  BY <1>1, <1>2 DEF release_send
<1>3. ASSUME NEW n, request_no_senders(n)
      PROVE  nsrequest' \in BOOLEAN /\ notices' \in Nat
  BY <1>1, <1>3 DEF request_no_senders
<1> QED BY <1>2, <1>3

(* A client sends a request or drops its right, and a right that was promised is made. *)
LEMMA ClientSendsStep ==
  ASSUME Inv, life = "live", client_sends
  PROVE  life' = "live" /\ TypeOK' /\ Live'
<1>1. TypeOK /\ Live
  BY DEF Inv
<1>2. /\ Held(holds) \in Nat /\ Cardinality(Weakly(pc)) \in Nat
      /\ Held(holds) = 0 <=> \A u \in Threads : holds[u] = 0
      /\ \A u \in Threads : pc[u] \in {"dropweak", "weak"} => Cardinality(Weakly(pc)) > 0
  BY <1>1, Counts
<1>10. TypeOK'
  BY <1>1, <1>2 DEF TypeOK, Places, Live, RightsMatch, HardMatch, WeakMatch,
     One, client_sends, object, refs, listing
<1>11. HardMatch'
  BY <1>1, <1>2 DEF Live, TypeOK, HardMatch, One, client_sends, object, refs, listing
<1>12. WeakMatch'
  BY <1>1, <1>2 DEF Live, TypeOK, WeakMatch, One, client_sends, object, refs, listing
<1>13. HoldsMatch'
  BY <1>1, <1>2 DEF Live, TypeOK, HoldsMatch, HardMatch, One, client_sends,
     object, refs, listing
<1>14. RightsMatch'
  BY <1>1, <1>2 DEF Live, TypeOK, RightsMatch, HardMatch, HoldsMatch,
     StatMatches, One, client_sends, object, refs, listing
<1>15. StatMatches'
  BY <1>1, <1>2 DEF Live, TypeOK, StatMatches, RightsMatch, client_sends,
     object, refs, listing
<1>16. life' = "live"
  BY DEF client_sends, object, refs, listing
<1> QED BY <1>10, <1>11, <1>12, <1>13, <1>14, <1>15, <1>16 DEF Live

LEMMA ClientDropsStep ==
  ASSUME Inv, life = "live", client_drops
  PROVE  life' = "live" /\ TypeOK' /\ Live'
<1>1. TypeOK /\ Live
  BY DEF Inv
<1>2. /\ Held(holds) \in Nat /\ Cardinality(Weakly(pc)) \in Nat
      /\ Held(holds) = 0 <=> \A u \in Threads : holds[u] = 0
      /\ \A u \in Threads : pc[u] \in {"dropweak", "weak"} => Cardinality(Weakly(pc)) > 0
  BY <1>1, Counts
<1>10. TypeOK'
  <2>1. nsrequest' \in BOOLEAN /\ notices' \in Nat /\ srights' = srights - 1
    BY <1>1, KernelTypes DEF TypeOK, client_drops, object, refs, listing
  <2>2. hard \in Nat /\ mscount \in Nat /\ promised \in Nat /\ srights \in Nat /\ requests \in Nat
    BY <1>1 DEF TypeOK
  <2> QED BY <1>1, <1>2, <2>1, <2>2 DEF TypeOK, Places, Live, RightsMatch,
             client_drops, object, refs, listing
<1>11. HardMatch'
  BY <1>1, <1>2 DEF Live, TypeOK, HardMatch, One, client_drops, release_send,
     object, refs, listing
<1>12. WeakMatch'
  BY <1>1, <1>2 DEF Live, TypeOK, WeakMatch, One, client_drops, release_send,
     object, refs, listing
<1>13. HoldsMatch'
  BY <1>1, <1>2 DEF Live, TypeOK, HoldsMatch, HardMatch, One, client_drops,
     release_send, object, refs, listing
<1>14. RightsMatch'
  BY <1>1, <1>2 DEF Live, TypeOK, RightsMatch, HardMatch, HoldsMatch,
     StatMatches, One, client_drops, release_send, object, refs, listing
<1>15. StatMatches'
  BY <1>1, <1>2 DEF Live, TypeOK, StatMatches, RightsMatch, client_drops,
     release_send, object, refs, listing
<1>16. life' = "live"
  BY DEF client_drops, release_send, object, refs, listing
<1> QED BY <1>10, <1>11, <1>12, <1>13, <1>14, <1>15, <1>16 DEF Live

LEMMA MakeSendStep ==
  ASSUME Inv, life = "live", make_send
  PROVE  life' = "live" /\ TypeOK' /\ Live'
<1>1. TypeOK /\ Live
  BY DEF Inv
<1>2. /\ Held(holds) \in Nat /\ Cardinality(Weakly(pc)) \in Nat
      /\ Held(holds) = 0 <=> \A u \in Threads : holds[u] = 0
      /\ \A u \in Threads : pc[u] \in {"dropweak", "weak"} => Cardinality(Weakly(pc)) > 0
  BY <1>1, Counts
<1>10. TypeOK'
  BY <1>1, <1>2 DEF TypeOK, Places, Live, RightsMatch, HardMatch, WeakMatch,
     One, make_send, object, refs, listing
<1>11. HardMatch'
  BY <1>1, <1>2 DEF Live, TypeOK, HardMatch, One, make_send, object, refs, listing
<1>12. WeakMatch'
  BY <1>1, <1>2 DEF Live, TypeOK, WeakMatch, One, make_send, object, refs, listing
<1>13. HoldsMatch'
  BY <1>1, <1>2 DEF Live, TypeOK, HoldsMatch, HardMatch, One, make_send,
     object, refs, listing
<1>14. RightsMatch'
  BY <1>1, <1>2 DEF Live, TypeOK, RightsMatch, HardMatch, HoldsMatch,
     StatMatches, One, make_send, object, refs, listing
<1>15. StatMatches'
  BY <1>1, <1>2 DEF Live, TypeOK, StatMatches, RightsMatch, make_send, object,
     refs, listing
<1>16. life' = "live"
  BY DEF make_send, object, refs, listing
<1> QED BY <1>10, <1>11, <1>12, <1>13, <1>14, <1>15, <1>16 DEF Live

(* ports_get_right, of a handler, of a table's user and under the table's lock. *)
LEMMA GetRightStep ==
  ASSUME Inv, life = "live", NEW t \in Threads, get_right(t)
  PROVE  life' = "live" /\ TypeOK' /\ Live'
<1>1. TypeOK /\ Live
  BY DEF Inv
<1>2. /\ Held(holds) \in Nat /\ Cardinality(Weakly(pc)) \in Nat
      /\ Held(holds) = 0 <=> \A u \in Threads : holds[u] = 0
      /\ \A u \in Threads : pc[u] \in {"dropweak", "weak"} => Cardinality(Weakly(pc)) > 0
  BY <1>1, Counts
<1>10. TypeOK'
  <2>1. nsrequest' \in BOOLEAN /\ notices' \in Nat
    BY <1>1, KernelTypes DEF TypeOK, get_right, ports_get_right, first_right,
       refs, listing
  <2>2. hard \in Nat /\ mscount \in Nat /\ promised \in Nat /\ srights \in Nat /\ requests \in Nat
    BY <1>1 DEF TypeOK
  <2>3. /\ hard' \in Nat /\ mscount' \in Nat /\ promised' \in Nat
        /\ has_sendrights' \in BOOLEAN
    <3>1. \/ /\ mscount' = mscount + 1 /\ promised' = promised + 1
             /\ hard' \in {hard, hard + 1} /\ has_sendrights' = TRUE
          \/ UNCHANGED <<mscount, promised, hard, has_sendrights>>
      BY DEF get_right, ports_get_right
    <3>2. has_sendrights \in BOOLEAN
      BY <1>1 DEF TypeOK
    <3>3. has_sendrights' \in BOOLEAN
      BY <3>1, <3>2
    <3>4. hard' \in Nat /\ mscount' \in Nat /\ promised' \in Nat
      BY <2>2, <3>1
    <3> QED BY <3>3, <3>4
  <2> QED BY <1>1, <2>1, <2>2, <2>3 DEF TypeOK, get_right, ports_get_right,
             refs, listing
<1>11. HardMatch'
  BY <1>1, <1>2 DEF Live, TypeOK, HardMatch, One, get_right, ports_get_right,
     first_right, request_no_senders, refs, listing
<1>12. WeakMatch'
  BY <1>1, <1>2 DEF Live, TypeOK, WeakMatch, One, get_right, ports_get_right,
     first_right, request_no_senders, refs, listing
<1>13. HoldsMatch'
  BY <1>1, <1>2 DEF Live, TypeOK, HoldsMatch, HardMatch, One, get_right,
     ports_get_right, first_right, request_no_senders, refs, listing
<1>14. RightsMatch'
  BY <1>1, <1>2 DEF Live, TypeOK, RightsMatch, HardMatch, HoldsMatch,
     StatMatches, One, get_right, ports_get_right, first_right,
     request_no_senders, refs, listing
<1>15. StatMatches'
  BY <1>1, <1>2 DEF Live, TypeOK, StatMatches, RightsMatch, get_right,
     ports_get_right, first_right, request_no_senders, refs, listing
<1>16. life' = "live"
  BY DEF get_right, ports_get_right, first_right, request_no_senders, refs, listing
<1> QED BY <1>10, <1>11, <1>12, <1>13, <1>14, <1>15, <1>16 DEF Live

LEMMA FoundRightStep ==
  ASSUME Inv, life = "live", NEW t \in Threads, found_right(t)
  PROVE  life' = "live" /\ TypeOK' /\ Live'
<1>1. TypeOK /\ Live
  BY DEF Inv
<1>2. /\ Held(holds) \in Nat /\ Cardinality(Weakly(pc)) \in Nat
      /\ Held(holds) = 0 <=> \A u \in Threads : holds[u] = 0
      /\ \A u \in Threads : pc[u] \in {"dropweak", "weak"} => Cardinality(Weakly(pc)) > 0
  BY <1>1, Counts
<1>3. Goto(t, "handler")
  BY DEF found_right
<1>4. /\ Cardinality(Weakly(pc')) = Cardinality(Weakly(pc))
           + One("handler" \in {"dropweak", "weak"}) - One(pc[t] \in {"dropweak", "weak"})
      /\ pc' \in [Threads -> Places]
      /\ \A u \in Threads : pc'[u] = IF u = t THEN "handler" ELSE pc[u]
  BY <1>1, <1>3, Moves DEF Places
<1>10. TypeOK'
  <2>1. nsrequest' \in BOOLEAN /\ notices' \in Nat
    BY <1>1, KernelTypes DEF TypeOK, found_right, ports_get_right,
       first_right, refs, listing
  <2>2. hard \in Nat /\ mscount \in Nat /\ promised \in Nat /\ srights \in Nat /\ requests \in Nat
    BY <1>1 DEF TypeOK
  <2>3. /\ hard' \in Nat /\ mscount' \in Nat /\ promised' \in Nat
        /\ has_sendrights' \in BOOLEAN
    <3>1. \/ /\ mscount' = mscount + 1 /\ promised' = promised + 1
             /\ hard' \in {hard, hard + 1} /\ has_sendrights' = TRUE
          \/ UNCHANGED <<mscount, promised, hard, has_sendrights>>
      BY DEF found_right, ports_get_right
    <3>2. has_sendrights \in BOOLEAN
      BY <1>1 DEF TypeOK
    <3>3. has_sendrights' \in BOOLEAN
      BY <3>1, <3>2
    <3>4. hard' \in Nat /\ mscount' \in Nat /\ promised' \in Nat
      BY <2>2, <3>1
    <3> QED BY <3>3, <3>4
  <2> QED BY <1>1, <2>1, <2>2, <2>3, <1>4 DEF TypeOK, found_right, ports_get_right,
             refs, listing
<1>11. HardMatch'
  BY <1>1, <1>2, <1>4 DEF Live, TypeOK, HardMatch, One, found_right,
     ports_get_right, first_right, request_no_senders, refs, listing
<1>12. WeakMatch'
  BY <1>1, <1>2, <1>4 DEF Live, TypeOK, WeakMatch, One, found_right,
     ports_get_right, first_right, request_no_senders, refs, listing
<1>13. HoldsMatch'
  BY <1>1, <1>2, <1>4 DEF Live, TypeOK, HoldsMatch, HardMatch, One,
     found_right, ports_get_right, first_right, request_no_senders, refs, listing
<1>14. RightsMatch'
  BY <1>1, <1>2, <1>4 DEF Live, TypeOK, RightsMatch, HardMatch, HoldsMatch,
     StatMatches, One, found_right, ports_get_right, first_right,
     request_no_senders, refs, listing
<1>15. StatMatches'
  BY <1>1, <1>2, <1>4 DEF Live, TypeOK, StatMatches, RightsMatch, found_right,
     ports_get_right, first_right, request_no_senders, refs, listing
<1>16. life' = "live"
  BY DEF found_right, ports_get_right, first_right, request_no_senders, refs, listing
<1> QED BY <1>10, <1>11, <1>12, <1>13, <1>14, <1>15, <1>16 DEF Live

LEMMA GetIdentityStep ==
  ASSUME Inv, life = "live", get_identity
  PROVE  life' = "live" /\ TypeOK' /\ Live'
<1>1. TypeOK /\ Live
  BY DEF Inv
<1>2. /\ Held(holds) \in Nat /\ Cardinality(Weakly(pc)) \in Nat
      /\ Held(holds) = 0 <=> \A u \in Threads : holds[u] = 0
      /\ \A u \in Threads : pc[u] \in {"dropweak", "weak"} => Cardinality(Weakly(pc)) > 0
  BY <1>1, Counts
<1>10. TypeOK'
  <2>1. nsrequest' \in BOOLEAN /\ notices' \in Nat
    BY <1>1, KernelTypes DEF TypeOK, get_identity, ports_get_right,
       first_right, refs, listing
  <2>2. hard \in Nat /\ mscount \in Nat /\ promised \in Nat /\ srights \in Nat /\ requests \in Nat
    BY <1>1 DEF TypeOK
  <2>3. /\ hard' \in Nat /\ mscount' \in Nat /\ promised' \in Nat
        /\ has_sendrights' \in BOOLEAN
    <3>1. \/ /\ mscount' = mscount + 1 /\ promised' = promised + 1
             /\ hard' \in {hard, hard + 1} /\ has_sendrights' = TRUE
          \/ UNCHANGED <<mscount, promised, hard, has_sendrights>>
      BY DEF get_identity, ports_get_right
    <3>2. has_sendrights \in BOOLEAN
      BY <1>1 DEF TypeOK
    <3>3. has_sendrights' \in BOOLEAN
      BY <3>1, <3>2
    <3>4. hard' \in Nat /\ mscount' \in Nat /\ promised' \in Nat
      BY <2>2, <3>1
    <3> QED BY <3>3, <3>4
  <2> QED BY <1>1, <2>1, <2>2, <2>3 DEF TypeOK, get_identity, ports_get_right,
             refs, listing
<1>11. HardMatch'
  BY <1>1, <1>2 DEF Live, TypeOK, HardMatch, One, get_identity,
     ports_get_right, first_right, request_no_senders, refs, listing
<1>12. WeakMatch'
  BY <1>1, <1>2 DEF Live, TypeOK, WeakMatch, One, get_identity,
     ports_get_right, first_right, request_no_senders, refs, listing
<1>13. HoldsMatch'
  BY <1>1, <1>2 DEF Live, TypeOK, HoldsMatch, HardMatch, One, get_identity,
     ports_get_right, first_right, request_no_senders, refs, listing
<1>14. RightsMatch'
  BY <1>1, <1>2 DEF Live, TypeOK, RightsMatch, HardMatch, HoldsMatch,
     StatMatches, One, get_identity, ports_get_right, first_right,
     request_no_senders, refs, listing
<1>15. StatMatches'
  BY <1>1, <1>2 DEF Live, TypeOK, StatMatches, RightsMatch, get_identity,
     ports_get_right, first_right, request_no_senders, refs, listing
<1>16. life' = "live"
  BY DEF get_identity, ports_get_right, first_right, request_no_senders, refs, listing
<1> QED BY <1>10, <1>11, <1>12, <1>13, <1>14, <1>15, <1>16 DEF Live

(* The server's table: it is searched, it gets its weak reference, and gives it up. *)
LEMMA FindStep ==
  ASSUME Inv, life = "live", NEW t \in Threads, find(t)
  PROVE  life' = "live" /\ TypeOK' /\ Live'
<1>1. TypeOK /\ Live
  BY DEF Inv
<1>2. /\ Held(holds) \in Nat /\ Cardinality(Weakly(pc)) \in Nat
      /\ Held(holds) = 0 <=> \A u \in Threads : holds[u] = 0
      /\ \A u \in Threads : pc[u] \in {"dropweak", "weak"} => Cardinality(Weakly(pc)) > 0
  BY <1>1, Counts
<1>3. Goto(t, "found")
  BY DEF find
<1>4. /\ Cardinality(Weakly(pc')) = Cardinality(Weakly(pc))
           + One("found" \in {"dropweak", "weak"}) - One(pc[t] \in {"dropweak", "weak"})
      /\ pc' \in [Threads -> Places]
      /\ \A u \in Threads : pc'[u] = IF u = t THEN "found" ELSE pc[u]
  BY <1>1, <1>3, Moves DEF Places
<1>5. /\ Held(holds') = Held(holds) + 1
      /\ holds' \in [Threads -> Nat]
      /\ \A u \in Threads : holds'[u] = IF u = t THEN holds[t] + 1 ELSE holds[u]
  BY <1>1, Takes DEF find
<1>10. TypeOK'
  BY <1>1, <1>2, <1>4, <1>5 DEF TypeOK, Places, Live, RightsMatch, HardMatch,
     WeakMatch, One, find, kernel, refs, listing
<1>11. HardMatch'
  BY <1>1, <1>2, <1>4, <1>5 DEF Live, TypeOK, HardMatch, One, find, kernel, refs, listing
<1>12. WeakMatch'
  BY <1>1, <1>2, <1>4, <1>5 DEF Live, TypeOK, WeakMatch, One, find, kernel, refs, listing
<1>13. HoldsMatch'
  BY <1>1, <1>2, <1>4, <1>5 DEF Live, TypeOK, HoldsMatch, HardMatch, One,
     find, kernel, refs, listing
<1>14. RightsMatch'
  BY <1>1, <1>2, <1>4, <1>5 DEF Live, TypeOK, RightsMatch, HardMatch,
     HoldsMatch, StatMatches, One, find, kernel, refs, listing
<1>15. StatMatches'
  BY <1>1, <1>2, <1>4, <1>5 DEF Live, TypeOK, StatMatches, RightsMatch, find,
     kernel, refs, listing
<1>16. life' = "live"
  BY DEF find, kernel, refs, listing
<1> QED BY <1>10, <1>11, <1>12, <1>13, <1>14, <1>15, <1>16 DEF Live

LEMMA RefWeakStep ==
  ASSUME Inv, life = "live", NEW t \in Threads, port_ref_weak(t)
  PROVE  life' = "live" /\ TypeOK' /\ Live'
<1>1. TypeOK /\ Live
  BY DEF Inv
<1>2. /\ Held(holds) \in Nat /\ Cardinality(Weakly(pc)) \in Nat
      /\ Held(holds) = 0 <=> \A u \in Threads : holds[u] = 0
      /\ \A u \in Threads : pc[u] \in {"dropweak", "weak"} => Cardinality(Weakly(pc)) > 0
  BY <1>1, Counts
<1>10. TypeOK'
  BY <1>1, <1>2 DEF TypeOK, Places, Live, RightsMatch, HardMatch, WeakMatch,
     One, port_ref_weak, kernel, listing
<1>11. HardMatch'
  BY <1>1, <1>2 DEF Live, TypeOK, HardMatch, One, port_ref_weak, kernel, listing
<1>12. WeakMatch'
  BY <1>1, <1>2 DEF Live, TypeOK, WeakMatch, One, port_ref_weak, kernel, listing
<1>13. HoldsMatch'
  BY <1>1, <1>2 DEF Live, TypeOK, HoldsMatch, HardMatch, One, port_ref_weak,
     kernel, listing
<1>14. RightsMatch'
  BY <1>1, <1>2 DEF Live, TypeOK, RightsMatch, HardMatch, HoldsMatch,
     StatMatches, One, port_ref_weak, kernel, listing
<1>15. StatMatches'
  BY <1>1, <1>2 DEF Live, TypeOK, StatMatches, RightsMatch, port_ref_weak,
     kernel, listing
<1>16. life' = "live"
  BY DEF port_ref_weak, kernel, listing
<1> QED BY <1>10, <1>11, <1>12, <1>13, <1>14, <1>15, <1>16 DEF Live

(* mach_msg dequeues a request or a notification. *)
LEMMA ReceiveRequestStep ==
  ASSUME Inv, life = "live", NEW t \in Threads, receive_request(t)
  PROVE  life' = "live" /\ TypeOK' /\ Live'
<1>1. TypeOK /\ Live
  BY DEF Inv
<1>2. /\ Held(holds) \in Nat /\ Cardinality(Weakly(pc)) \in Nat
      /\ Held(holds) = 0 <=> \A u \in Threads : holds[u] = 0
      /\ \A u \in Threads : pc[u] \in {"dropweak", "weak"} => Cardinality(Weakly(pc)) > 0
  BY <1>1, Counts
<1>3. Goto(t, "request")
  BY DEF receive_request
<1>4. /\ Cardinality(Weakly(pc')) = Cardinality(Weakly(pc))
           + One("request" \in {"dropweak", "weak"}) - One(pc[t] \in {"dropweak", "weak"})
      /\ pc' \in [Threads -> Places]
      /\ \A u \in Threads : pc'[u] = IF u = t THEN "request" ELSE pc[u]
  BY <1>1, <1>3, Moves DEF Places
<1>10. TypeOK'
  <2>1. nsrequest' \in BOOLEAN /\ notices' \in Nat /\ srights' = srights - 1
    BY <1>1, KernelTypes DEF TypeOK, receive_request, object, refs, listing
  <2>2. hard \in Nat /\ mscount \in Nat /\ promised \in Nat /\ srights \in Nat /\ requests \in Nat
    BY <1>1 DEF TypeOK
  <2> QED BY <1>1, <1>2, <2>1, <2>2, <1>4 DEF TypeOK, Places, Live,
             RightsMatch, receive_request, object, refs, listing
<1>11. HardMatch'
  BY <1>1, <1>2, <1>4 DEF Live, TypeOK, HardMatch, One, receive_request,
     release_send, object, refs, listing
<1>12. WeakMatch'
  BY <1>1, <1>2, <1>4 DEF Live, TypeOK, WeakMatch, One, receive_request,
     release_send, object, refs, listing
<1>13. HoldsMatch'
  BY <1>1, <1>2, <1>4 DEF Live, TypeOK, HoldsMatch, HardMatch, One,
     receive_request, release_send, object, refs, listing
<1>14. RightsMatch'
  BY <1>1, <1>2, <1>4 DEF Live, TypeOK, RightsMatch, HardMatch, HoldsMatch,
     StatMatches, One, receive_request, release_send, object, refs, listing
<1>15. StatMatches'
  BY <1>1, <1>2, <1>4 DEF Live, TypeOK, StatMatches, RightsMatch,
     receive_request, release_send, object, refs, listing
<1>16. life' = "live"
  BY DEF receive_request, release_send, object, refs, listing
<1> QED BY <1>10, <1>11, <1>12, <1>13, <1>14, <1>15, <1>16 DEF Live

LEMMA ReceiveNoticeStep ==
  ASSUME Inv, life = "live", NEW t \in Threads, receive_notice(t)
  PROVE  life' = "live" /\ TypeOK' /\ Live'
<1>1. TypeOK /\ Live
  BY DEF Inv
<1>2. /\ Held(holds) \in Nat /\ Cardinality(Weakly(pc)) \in Nat
      /\ Held(holds) = 0 <=> \A u \in Threads : holds[u] = 0
      /\ \A u \in Threads : pc[u] \in {"dropweak", "weak"} => Cardinality(Weakly(pc)) > 0
  BY <1>1, Counts
<1>3. Goto(t, "notice")
  BY DEF receive_notice
<1>4. /\ Cardinality(Weakly(pc')) = Cardinality(Weakly(pc))
           + One("notice" \in {"dropweak", "weak"}) - One(pc[t] \in {"dropweak", "weak"})
      /\ pc' \in [Threads -> Places]
      /\ \A u \in Threads : pc'[u] = IF u = t THEN "notice" ELSE pc[u]
  BY <1>1, <1>3, Moves DEF Places
<1>10. TypeOK'
  BY <1>1, <1>2, <1>4 DEF TypeOK, Places, Live, RightsMatch, HardMatch,
     WeakMatch, One, receive_notice, object, refs, listing
<1>11. HardMatch'
  BY <1>1, <1>2, <1>4 DEF Live, TypeOK, HardMatch, One, receive_notice,
     object, refs, listing
<1>12. WeakMatch'
  BY <1>1, <1>2, <1>4 DEF Live, TypeOK, WeakMatch, One, receive_notice,
     object, refs, listing
<1>13. HoldsMatch'
  BY <1>1, <1>2, <1>4 DEF Live, TypeOK, HoldsMatch, HardMatch, One,
     receive_notice, object, refs, listing
<1>14. RightsMatch'
  BY <1>1, <1>2, <1>4 DEF Live, TypeOK, RightsMatch, HardMatch, HoldsMatch,
     StatMatches, One, receive_notice, object, refs, listing
<1>15. StatMatches'
  BY <1>1, <1>2, <1>4 DEF Live, TypeOK, StatMatches, RightsMatch,
     receive_notice, object, refs, listing
<1>16. life' = "live"
  BY DEF receive_notice, object, refs, listing
<1> QED BY <1>10, <1>11, <1>12, <1>13, <1>14, <1>15, <1>16 DEF Live

(* A lookup of the service loop finds the object, or does not. *)
LEMMA LookupFindsStep ==
  ASSUME Inv, life = "live", NEW t \in Threads, lookup(t), may_find
  PROVE  life' = "live" /\ TypeOK' /\ Live'
<1>1. TypeOK /\ Live
  BY DEF Inv
<1>2. /\ Held(holds) \in Nat /\ Cardinality(Weakly(pc)) \in Nat
      /\ Held(holds) = 0 <=> \A u \in Threads : holds[u] = 0
      /\ \A u \in Threads : pc[u] \in {"dropweak", "weak"} => Cardinality(Weakly(pc)) > 0
  BY <1>1, Counts
<1>3. PICK to \in {"handler", "status"} :
        Goto(t, to)
  BY <1>1 DEF lookup
<1>4. /\ Cardinality(Weakly(pc')) = Cardinality(Weakly(pc))
           + One(to \in {"dropweak", "weak"}) - One(pc[t] \in {"dropweak", "weak"})
      /\ pc' \in [Threads -> Places]
      /\ \A u \in Threads : pc'[u] = IF u = t THEN to ELSE pc[u]
  BY <1>1, <1>3, Moves DEF Places
<1>5. /\ Held(holds') = Held(holds) + 1
      /\ holds' \in [Threads -> Nat]
      /\ \A u \in Threads : holds'[u] = IF u = t THEN holds[t] + 1 ELSE holds[u]
  BY <1>1, Takes DEF lookup
<1>10. TypeOK'
  <2>1. revived' \in SUBSET {"listed", "unlisted"}
    BY <1>1 DEF TypeOK, lookup, revival
  <2> QED BY <1>1, <1>3, <1>4, <1>5, <2>1 DEF TypeOK, Places, lookup, kernel, refs
<1>11. HardMatch'
  BY <1>1, <1>2, <1>3, <1>4, <1>5 DEF Live, TypeOK, HardMatch, One,
     lookup, kernel, refs, listing
<1>12. WeakMatch'
  BY <1>1, <1>2, <1>3, <1>4, <1>5 DEF Live, TypeOK, WeakMatch, One,
     lookup, kernel, refs, listing
<1>13. HoldsMatch'
  BY <1>1, <1>2, <1>3, <1>4, <1>5 DEF Live, TypeOK, HoldsMatch, HardMatch,
     One, lookup, kernel, refs, listing
<1>14. RightsMatch'
  BY <1>1, <1>2, <1>3, <1>4, <1>5 DEF Live, TypeOK, RightsMatch, HardMatch,
     HoldsMatch, StatMatches, One, lookup, kernel, refs, listing
<1>15. StatMatches'
  BY <1>1, <1>2, <1>3, <1>4, <1>5 DEF Live, TypeOK, StatMatches, RightsMatch,
     lookup, kernel, refs, listing
<1>16. life' = "live"
  BY DEF lookup, kernel, refs, listing
<1> QED BY <1>10, <1>11, <1>12, <1>13, <1>14, <1>15, <1>16 DEF Live

LEMMA LookupFailsStep ==
  ASSUME Inv, life = "live", NEW t \in Threads, lookup(t), ~may_find
  PROVE  life' = "live" /\ TypeOK' /\ Live'
<1>1. TypeOK /\ Live
  BY DEF Inv
<1>2. /\ Held(holds) \in Nat /\ Cardinality(Weakly(pc)) \in Nat
      /\ Held(holds) = 0 <=> \A u \in Threads : holds[u] = 0
      /\ \A u \in Threads : pc[u] \in {"dropweak", "weak"} => Cardinality(Weakly(pc)) > 0
  BY <1>1, Counts
<1>3. Goto(t, "idle")
  BY DEF lookup
<1>4. /\ Cardinality(Weakly(pc')) = Cardinality(Weakly(pc))
           + One("idle" \in {"dropweak", "weak"}) - One(pc[t] \in {"dropweak", "weak"})
      /\ pc' \in [Threads -> Places]
      /\ \A u \in Threads : pc'[u] = IF u = t THEN "idle" ELSE pc[u]
  BY <1>1, <1>3, Moves DEF Places
<1>10. TypeOK'
  BY <1>1, <1>2, <1>4 DEF TypeOK, Places, Live, RightsMatch, HardMatch,
     WeakMatch, One, lookup, kernel, refs, listing
<1>11. HardMatch'
  BY <1>1, <1>2, <1>4 DEF Live, TypeOK, HardMatch, One, lookup, kernel,
     refs, listing
<1>12. WeakMatch'
  BY <1>1, <1>2, <1>4 DEF Live, TypeOK, WeakMatch, One, lookup, kernel,
     refs, listing
<1>13. HoldsMatch'
  BY <1>1, <1>2, <1>4 DEF Live, TypeOK, HoldsMatch, HardMatch, One,
     lookup, kernel, refs, listing
<1>14. RightsMatch'
  BY <1>1, <1>2, <1>4 DEF Live, TypeOK, RightsMatch, HardMatch, HoldsMatch,
     StatMatches, One, lookup, kernel, refs, listing
<1>15. StatMatches'
  BY <1>1, <1>2, <1>4 DEF Live, TypeOK, StatMatches, RightsMatch, lookup,
     kernel, refs, listing
<1>16. life' = "live"
  BY DEF lookup, kernel, refs, listing
<1> QED BY <1>10, <1>11, <1>12, <1>13, <1>14, <1>15, <1>16 DEF Live

(* The notification: the kernel is asked, and the send rights are gone or not. *)
LEMMA NotifyStep ==
  ASSUME Inv, life = "live", NEW t \in Threads, do_mach_notify_no_senders(t)
  PROVE  life' = "live" /\ TypeOK' /\ Live'
<1>1. TypeOK /\ Live
  BY DEF Inv
<1>2. /\ Held(holds) \in Nat /\ Cardinality(Weakly(pc)) \in Nat
      /\ Held(holds) = 0 <=> \A u \in Threads : holds[u] = 0
      /\ \A u \in Threads : pc[u] \in {"dropweak", "weak"} => Cardinality(Weakly(pc)) > 0
  BY <1>1, Counts
<1>3. PICK to \in {"handler", "no_senders"} :
        Goto(t, to)
  BY <1>1 DEF do_mach_notify_no_senders
<1>4. /\ Cardinality(Weakly(pc')) = Cardinality(Weakly(pc))
           + One(to \in {"dropweak", "weak"}) - One(pc[t] \in {"dropweak", "weak"})
      /\ pc' \in [Threads -> Places]
      /\ \A u \in Threads : pc'[u] = IF u = t THEN to ELSE pc[u]
  BY <1>1, <1>3, Moves DEF Places
<1>10. TypeOK'
  BY <1>1, <1>2, <1>3, <1>4 DEF TypeOK, Places, Live, RightsMatch, HardMatch,
     WeakMatch, One, do_mach_notify_no_senders, kernel, object, refs, listing
<1>11. HardMatch'
  BY <1>1, <1>2, <1>3, <1>4 DEF Live, TypeOK, HardMatch, One,
     do_mach_notify_no_senders, kernel, object, refs, listing
<1>12. WeakMatch'
  BY <1>1, <1>2, <1>3, <1>4 DEF Live, TypeOK, WeakMatch, One,
     do_mach_notify_no_senders, kernel, object, refs, listing
<1>13. HoldsMatch'
  BY <1>1, <1>2, <1>3, <1>4 DEF Live, TypeOK, HoldsMatch, HardMatch, One,
     do_mach_notify_no_senders, kernel, object, refs, listing
<1>14. RightsMatch'
  BY <1>1, <1>2, <1>3, <1>4 DEF Live, TypeOK, RightsMatch, HardMatch,
     HoldsMatch, StatMatches, One, do_mach_notify_no_senders, kernel, object,
     refs, listing
<1>15. StatMatches'
  <2> SUFFICES ASSUME NEW u \in Threads, pc'[u] = "no_senders"
               PROVE  stat'[u] <= k_mscount' /\ (stat'[u] = k_mscount' => srights' = 0)
    BY DEF StatMatches
  <2>1. CASE u = t
    <3>1. srights = 0 /\ stat' = [stat EXCEPT ![t] = k_mscount] /\ UNCHANGED kernel
      BY <1>3, <1>4, <2>1 DEF do_mach_notify_no_senders, Goto
    <3> QED BY <1>1, <2>1, <3>1 DEF TypeOK, kernel
  <2>2. CASE u # t
    <3>1. pc[u] = "no_senders" /\ stat'[u] = stat[u] /\ UNCHANGED kernel
      BY <1>1, <1>4, <2>2 DEF do_mach_notify_no_senders, TypeOK
    <3> QED BY <1>1, <3>1 DEF Live, StatMatches, kernel
  <2> QED BY <2>1, <2>2
<1>16. life' = "live"
  BY DEF do_mach_notify_no_senders, kernel, object, refs, listing
<1> QED BY <1>10, <1>11, <1>12, <1>13, <1>14, <1>15, <1>16 DEF Live

LEMMA RightsGoneStep ==
  ASSUME Inv, life = "live", NEW t \in Threads, no_senders(t), has_sendrights, all_made(t)
  PROVE  life' = "live" /\ TypeOK' /\ Live'
<1>1. TypeOK /\ Live
  BY DEF Inv
<1>2. /\ Held(holds) \in Nat /\ Cardinality(Weakly(pc)) \in Nat
      /\ Held(holds) = 0 <=> \A u \in Threads : holds[u] = 0
      /\ \A u \in Threads : pc[u] \in {"dropweak", "weak"} => Cardinality(Weakly(pc)) > 0
  BY <1>1, Counts
<1>3. Goto(t, "handler")
  BY DEF no_senders
<1>4. /\ Cardinality(Weakly(pc')) = Cardinality(Weakly(pc))
           + One("handler" \in {"dropweak", "weak"}) - One(pc[t] \in {"dropweak", "weak"})
      /\ pc' \in [Threads -> Places]
      /\ \A u \in Threads : pc'[u] = IF u = t THEN "handler" ELSE pc[u]
  BY <1>1, <1>3, Moves DEF Places
<1>5. /\ Held(holds') = Held(holds) + 1
      /\ holds' \in [Threads -> Nat]
      /\ \A u \in Threads : holds'[u] = IF u = t THEN holds[t] + 1 ELSE holds[u]
  BY <1>1, Takes DEF no_senders
<1>10. TypeOK'
  BY <1>1, <1>2, <1>4, <1>5 DEF TypeOK, Places, Live, RightsMatch, HardMatch,
     WeakMatch, One, no_senders, all_made, refs, listing
<1>11. HardMatch'
  <2>1. One(has_sendrights) = 1 /\ One(has_sendrights') = 0 /\ hard' = hard
    BY DEF no_senders, all_made, One
  <2>2. hard = Held(holds) + One(has_sendrights)
    BY <1>1 DEF Live, HardMatch
  <2>3. hard' = Held(holds') + One(has_sendrights')
    BY <1>2, <1>5, <2>1, <2>2
  <2> QED BY <2>3 DEF HardMatch
<1>12. WeakMatch'
  BY <1>1, <1>2, <1>4, <1>5 DEF Live, TypeOK, WeakMatch, One, no_senders,
     all_made, refs, listing
<1>13. HoldsMatch'
  BY <1>1, <1>2, <1>4, <1>5 DEF Live, TypeOK, HoldsMatch, HardMatch, One,
     no_senders, all_made, refs, listing
<1>14. RightsMatch'
  BY <1>1, <1>2, <1>4, <1>5 DEF Live, TypeOK, RightsMatch, HardMatch,
     HoldsMatch, StatMatches, One, no_senders, all_made, refs, listing
<1>15. StatMatches'
  BY <1>1, <1>2, <1>4, <1>5 DEF Live, TypeOK, StatMatches, RightsMatch,
     no_senders, all_made, refs, listing
<1>16. life' = "live"
  BY DEF no_senders, all_made, refs, listing
<1> QED BY <1>10, <1>11, <1>12, <1>13, <1>14, <1>15, <1>16 DEF Live

LEMMA RightsStayStep ==
  ASSUME Inv, life = "live", NEW t \in Threads, no_senders(t), ~(has_sendrights /\ all_made(t))
  PROVE  life' = "live" /\ TypeOK' /\ Live'
<1>1. TypeOK /\ Live
  BY DEF Inv
<1>2. /\ Held(holds) \in Nat /\ Cardinality(Weakly(pc)) \in Nat
      /\ Held(holds) = 0 <=> \A u \in Threads : holds[u] = 0
      /\ \A u \in Threads : pc[u] \in {"dropweak", "weak"} => Cardinality(Weakly(pc)) > 0
  BY <1>1, Counts
<1>3. Goto(t, "handler")
  BY DEF no_senders
<1>4. /\ Cardinality(Weakly(pc')) = Cardinality(Weakly(pc))
           + One("handler" \in {"dropweak", "weak"}) - One(pc[t] \in {"dropweak", "weak"})
      /\ pc' \in [Threads -> Places]
      /\ \A u \in Threads : pc'[u] = IF u = t THEN "handler" ELSE pc[u]
  BY <1>1, <1>3, Moves DEF Places
<1>10. TypeOK'
  <2>1. nsrequest' \in BOOLEAN /\ notices' \in Nat
    BY <1>1, KernelTypes DEF TypeOK, no_senders, refs, listing
  <2>2. hard \in Nat /\ mscount \in Nat /\ promised \in Nat /\ srights \in Nat /\ requests \in Nat
    BY <1>1 DEF TypeOK
  <2> QED BY <1>1, <1>2, <2>1, <2>2, <1>4 DEF TypeOK, Places, Live,
             RightsMatch, no_senders, refs, listing
<1>11. HardMatch'
  BY <1>1, <1>2, <1>4 DEF Live, TypeOK, HardMatch, One, no_senders,
     request_no_senders, refs, listing
<1>12. WeakMatch'
  BY <1>1, <1>2, <1>4 DEF Live, TypeOK, WeakMatch, One, no_senders,
     request_no_senders, refs, listing
<1>13. HoldsMatch'
  BY <1>1, <1>2, <1>4 DEF Live, TypeOK, HoldsMatch, HardMatch, One,
     no_senders, request_no_senders, refs, listing
<1>14. RightsMatch'
  BY <1>1, <1>2, <1>4 DEF Live, TypeOK, RightsMatch, HardMatch, HoldsMatch,
     StatMatches, One, no_senders, request_no_senders, refs, listing
<1>15. StatMatches'
  BY <1>1, <1>2, <1>4 DEF Live, TypeOK, StatMatches, RightsMatch, no_senders,
     request_no_senders, refs, listing
<1>16. life' = "live"
  BY DEF no_senders, request_no_senders, refs, listing
<1> QED BY <1>10, <1>11, <1>12, <1>13, <1>14, <1>15, <1>16 DEF Live

(* ports_port_deref, in one step and by way of a weak reference. *)
LEMMA DerefStep ==
  ASSUME Inv, life = "live", NEW t \in Threads, port_deref(t)
  PROVE  life' = "live" /\ TypeOK' /\ Live'
<1>1. TypeOK /\ Live
  BY DEF Inv
<1>2. /\ Held(holds) \in Nat /\ Cardinality(Weakly(pc)) \in Nat
      /\ Held(holds) = 0 <=> \A u \in Threads : holds[u] = 0
      /\ \A u \in Threads : pc[u] \in {"dropweak", "weak"} => Cardinality(Weakly(pc)) > 0
  BY <1>1, Counts
<1>5. /\ Held(holds') = Held(holds) - 1 /\ Held(holds') \in Nat
      /\ holds' \in [Threads -> Nat]
      /\ \A u \in Threads : holds'[u] = IF u = t THEN holds[t] - 1 ELSE holds[u]
      /\ Held(holds') = 0 <=> \A u \in Threads : holds'[u] = 0
  <2>1. holds[t] > 0
    BY <1>1 DEF Live, HoldsMatch, port_deref
  <2> QED BY <1>1, <2>1, Gives DEF port_deref
<1>6. hard' = Held(holds') + One(has_sendrights) /\ hard' \in Nat
  <2>1. hard' = hard - 1 /\ hard = Held(holds) + One(has_sendrights)
    BY <1>1 DEF port_deref, Live, HardMatch
  <2>2. One(has_sendrights) \in Nat
    BY DEF One
  <2> QED BY <1>2, <1>5, <2>1, <2>2
<1>3. PICK to \in {"dealloc", "idle", "handler"} :
        /\ Goto(t, to)
        /\ to = "dealloc" => hard' = 0
        /\ to = "idle" => holds'[t] = 0
        /\ to = "handler" => holds'[t] # 0
  BY <1>1 DEF port_deref, Left
<1>4. /\ Cardinality(Weakly(pc')) = Cardinality(Weakly(pc))
           + One(to \in {"dropweak", "weak"}) - One(pc[t] \in {"dropweak", "weak"})
      /\ pc' \in [Threads -> Places]
      /\ \A u \in Threads : pc'[u] = IF u = t THEN to ELSE pc[u]
  BY <1>1, <1>3, Moves DEF Places
<1>10. TypeOK'
  BY <1>1, <1>2, <1>3, <1>4, <1>5, <1>6 DEF TypeOK, Places, Live, RightsMatch,
     HardMatch, WeakMatch, One, port_deref, kernel, refs, listing
<1>11. HardMatch'
  BY <1>1, <1>2, <1>3, <1>4, <1>5, <1>6 DEF Live, TypeOK, HardMatch, One,
     port_deref, kernel, refs, listing
<1>12. WeakMatch'
  BY <1>1, <1>2, <1>3, <1>4, <1>5, <1>6 DEF Live, TypeOK, WeakMatch, One,
     port_deref, kernel, refs, listing
<1>13. HoldsMatch'
  <2>1. to = "dealloc" => holds'[t] = 0
    <3> SUFFICES ASSUME to = "dealloc" PROVE Held(holds') = 0
      BY <1>2, <1>5
    <3>1. hard' = 0 /\ hard' = Held(holds') + One(has_sendrights)
      BY <1>3, <1>6
    <3>2. One(has_sendrights) \in Nat
      BY DEF One
    <3> QED BY <1>2, <1>5, <3>1, <3>2
  <2>2. ASSUME NEW u \in Threads, u # t
        PROVE  pc'[u] = pc[u] /\ holds'[u] = holds[u] /\ kind' = kind
    BY <1>1, <1>4, <1>5, <2>2 DEF port_deref, refs, listing
  <2>3. pc'[t] = to /\ holds'[t] = holds'[t] /\ holds'[t] \in Nat
    BY <1>1, <1>4, <1>5 DEF TypeOK, port_deref
  <2>4. ASSUME NEW u \in Threads
        PROVE  /\ pc'[u] \in {"status", "no_senders", "found", "handler"} => holds'[u] > 0
               /\ pc'[u] \in {"idle", "request", "notice", "dealloc", "removed", "cleaning"}
                    => holds'[u] = 0
               /\ pc'[u] = "found" => kind' = "cached"
    <3>1. CASE u = t
      BY <1>3, <2>1, <2>3, <3>1
    <3>2. CASE u # t
      BY <1>1, <2>2, <3>2 DEF Live, HoldsMatch
    <3> QED BY <3>1, <3>2
  <2> QED BY <2>4 DEF HoldsMatch
<1>14. RightsMatch'
  BY <1>1, <1>2, <1>3, <1>4, <1>5, <1>6 DEF Live, TypeOK, RightsMatch,
     HardMatch, HoldsMatch, StatMatches, One, port_deref, kernel, refs, listing
<1>15. StatMatches'
  BY <1>1, <1>2, <1>3, <1>4, <1>5, <1>6 DEF Live, TypeOK, StatMatches,
     RightsMatch, port_deref, kernel, refs, listing
<1>16. life' = "live"
  BY DEF port_deref, kernel, refs, listing
<1> QED BY <1>10, <1>11, <1>12, <1>13, <1>14, <1>15, <1>16 DEF Live

LEMMA DemoteStep ==
  ASSUME Inv, life = "live", NEW t \in Threads, port_deref_demote(t)
  PROVE  life' = "live" /\ TypeOK' /\ Live'
<1>1. TypeOK /\ Live
  BY DEF Inv
<1>2. /\ Held(holds) \in Nat /\ Cardinality(Weakly(pc)) \in Nat
      /\ Held(holds) = 0 <=> \A u \in Threads : holds[u] = 0
      /\ \A u \in Threads : pc[u] \in {"dropweak", "weak"} => Cardinality(Weakly(pc)) > 0
  BY <1>1, Counts
<1>5. /\ Held(holds') = Held(holds) - 1 /\ Held(holds') \in Nat
      /\ holds' \in [Threads -> Nat]
      /\ \A u \in Threads : holds'[u] = IF u = t THEN holds[t] - 1 ELSE holds[u]
      /\ Held(holds') = 0 <=> \A u \in Threads : holds'[u] = 0
  <2>1. holds[t] > 0
    BY <1>1 DEF Live, HoldsMatch, port_deref_demote
  <2> QED BY <1>1, <2>1, Gives DEF port_deref_demote
<1>3. PICK to \in {"dropweak", "weak"} :
        Goto(t, to)
  BY <1>1 DEF port_deref_demote
<1>4. /\ Cardinality(Weakly(pc')) = Cardinality(Weakly(pc))
           + One(to \in {"dropweak", "weak"}) - One(pc[t] \in {"dropweak", "weak"})
      /\ pc' \in [Threads -> Places]
      /\ \A u \in Threads : pc'[u] = IF u = t THEN to ELSE pc[u]
  BY <1>1, <1>3, Moves DEF Places
<1>10. TypeOK'
  BY <1>1, <1>2, <1>3, <1>4, <1>5 DEF TypeOK, Places, Live, RightsMatch,
     HardMatch, WeakMatch, One, port_deref_demote, kernel, refs, listing
<1>11. HardMatch'
  BY <1>1, <1>2, <1>3, <1>4, <1>5 DEF Live, TypeOK, HardMatch, One,
     port_deref_demote, kernel, refs, listing
<1>12. WeakMatch'
  BY <1>1, <1>2, <1>3, <1>4, <1>5 DEF Live, TypeOK, WeakMatch, One,
     port_deref_demote, kernel, refs, listing
<1>13. HoldsMatch'
  BY <1>1, <1>2, <1>3, <1>4, <1>5 DEF Live, TypeOK, HoldsMatch, HardMatch,
     One, port_deref_demote, kernel, refs, listing
<1>14. RightsMatch'
  BY <1>1, <1>2, <1>3, <1>4, <1>5 DEF Live, TypeOK, RightsMatch, HardMatch,
     HoldsMatch, StatMatches, One, port_deref_demote, kernel, refs, listing
<1>15. StatMatches'
  BY <1>1, <1>2, <1>3, <1>4, <1>5 DEF Live, TypeOK, StatMatches, RightsMatch,
     port_deref_demote, kernel, refs, listing
<1>16. life' = "live"
  BY DEF port_deref_demote, kernel, refs, listing
<1> QED BY <1>10, <1>11, <1>12, <1>13, <1>14, <1>15, <1>16 DEF Live

LEMMA DropweakStep ==
  ASSUME Inv, life = "live", NEW t \in Threads, dropweak_routine(t)
  PROVE  life' = "live" /\ TypeOK' /\ Live'
<1>1. TypeOK /\ Live
  BY DEF Inv
<1>2. /\ Held(holds) \in Nat /\ Cardinality(Weakly(pc)) \in Nat
      /\ Held(holds) = 0 <=> \A u \in Threads : holds[u] = 0
      /\ \A u \in Threads : pc[u] \in {"dropweak", "weak"} => Cardinality(Weakly(pc)) > 0
  BY <1>1, Counts
<1>3. Goto(t, "weak")
  BY DEF dropweak_routine
<1>4. /\ Cardinality(Weakly(pc')) = Cardinality(Weakly(pc))
           + One("weak" \in {"dropweak", "weak"}) - One(pc[t] \in {"dropweak", "weak"})
      /\ pc' \in [Threads -> Places]
      /\ \A u \in Threads : pc'[u] = IF u = t THEN "weak" ELSE pc[u]
  BY <1>1, <1>3, Moves DEF Places
<1>10. TypeOK'
  BY <1>1, <1>2, <1>4 DEF TypeOK, Places, Live, RightsMatch, HardMatch,
     WeakMatch, One, dropweak_routine, may_drop, kernel, refs, listing
<1>11. HardMatch'
  BY <1>1, <1>2, <1>4 DEF Live, TypeOK, HardMatch, One, dropweak_routine,
     may_drop, kernel, refs, listing
<1>12. WeakMatch'
  <2>1. One(pc[t] \in {"dropweak", "weak"}) = 1 /\ One("weak" \in {"dropweak", "weak"}) = 1
    BY DEF dropweak_routine, One
  <2>2. Cardinality(Weakly(pc')) = Cardinality(Weakly(pc))
    BY <1>2, <1>4, <2>1
  <2>3. CASE may_drop
    <3>1. One(cached) = 1 /\ One(cached') = 0 /\ weak' = weak - 1
      BY <2>3 DEF dropweak_routine, may_drop, One
    <3> QED BY <1>1, <1>2, <2>2, <3>1 DEF Live, WeakMatch
  <2>4. CASE ~may_drop
    <3>1. One(cached') = One(cached) /\ weak' = weak
      BY <1>1, <2>4 DEF dropweak_routine, One, TypeOK
    <3> QED BY <1>1, <1>2, <2>2, <3>1 DEF Live, WeakMatch
  <2> QED BY <2>3, <2>4
<1>13. HoldsMatch'
  BY <1>1, <1>2, <1>4 DEF Live, TypeOK, HoldsMatch, HardMatch, One,
     dropweak_routine, may_drop, kernel, refs, listing
<1>14. RightsMatch'
  BY <1>1, <1>2, <1>4 DEF Live, TypeOK, RightsMatch, HardMatch, HoldsMatch,
     StatMatches, One, dropweak_routine, may_drop, kernel, refs, listing
<1>15. StatMatches'
  BY <1>1, <1>2, <1>4 DEF Live, TypeOK, StatMatches, RightsMatch,
     dropweak_routine, may_drop, kernel, refs, listing
<1>16. life' = "live"
  BY DEF dropweak_routine, may_drop, kernel, refs, listing
<1> QED BY <1>10, <1>11, <1>12, <1>13, <1>14, <1>15, <1>16 DEF Live

LEMMA DerefWeakStep ==
  ASSUME Inv, life = "live", NEW t \in Threads, port_deref_weak(t)
  PROVE  life' = "live" /\ TypeOK' /\ Live'
<1>1. TypeOK /\ Live
  BY DEF Inv
<1>2. /\ Held(holds) \in Nat /\ Cardinality(Weakly(pc)) \in Nat
      /\ Held(holds) = 0 <=> \A u \in Threads : holds[u] = 0
      /\ \A u \in Threads : pc[u] \in {"dropweak", "weak"} => Cardinality(Weakly(pc)) > 0
  BY <1>1, Counts
<1>3. PICK to \in {"dealloc", "idle", "handler"} :
        /\ Goto(t, to)
        /\ to = "dealloc" => hard = 0
        /\ to = "idle" => holds[t] = 0
        /\ to = "handler" => holds[t] # 0
  BY <1>1 DEF port_deref_weak, deref_weak, Left
<1>4. /\ Cardinality(Weakly(pc')) = Cardinality(Weakly(pc))
           + One(to \in {"dropweak", "weak"}) - One(pc[t] \in {"dropweak", "weak"})
      /\ pc' \in [Threads -> Places]
      /\ \A u \in Threads : pc'[u] = IF u = t THEN to ELSE pc[u]
  BY <1>1, <1>3, Moves DEF Places
<1>10. TypeOK'
  BY <1>1, <1>2, <1>3, <1>4 DEF TypeOK, Places, Live, RightsMatch, HardMatch,
     WeakMatch, One, port_deref_weak, deref_weak, kernel, refs, listing
<1>11. HardMatch'
  BY <1>1, <1>2, <1>3, <1>4 DEF Live, TypeOK, HardMatch, One, port_deref_weak,
     deref_weak, kernel, refs, listing
<1>12. WeakMatch'
  BY <1>1, <1>2, <1>3, <1>4 DEF Live, TypeOK, WeakMatch, One, port_deref_weak,
     deref_weak, kernel, refs, listing
<1>13. HoldsMatch'
  <2>1. to = "dealloc" => holds[t] = 0
    <3> SUFFICES ASSUME to = "dealloc" PROVE Held(holds) = 0
      BY <1>2
    <3>1. hard = 0 /\ hard = Held(holds) + One(has_sendrights)
      BY <1>1, <1>3 DEF Live, HardMatch, port_deref_weak, deref_weak
    <3>2. One(has_sendrights) \in Nat
      BY DEF One
    <3> QED BY <1>2, <3>1, <3>2
  <2>2. ASSUME NEW u \in Threads, u # t
        PROVE  pc'[u] = pc[u] /\ holds'[u] = holds[u] /\ kind' = kind
    BY <1>1, <1>4, <2>2 DEF port_deref_weak, deref_weak, refs, listing
  <2>3. pc'[t] = to /\ holds'[t] = holds[t] /\ holds[t] \in Nat
    BY <1>1, <1>4 DEF TypeOK, port_deref_weak, deref_weak
  <2>4. ASSUME NEW u \in Threads
        PROVE  /\ pc'[u] \in {"status", "no_senders", "found", "handler"} => holds'[u] > 0
               /\ pc'[u] \in {"idle", "request", "notice", "dealloc", "removed", "cleaning"}
                    => holds'[u] = 0
               /\ pc'[u] = "found" => kind' = "cached"
    <3>1. CASE u = t
      BY <1>3, <2>1, <2>3, <3>1
    <3>2. CASE u # t
      BY <1>1, <2>2, <3>2 DEF Live, HoldsMatch
    <3> QED BY <3>1, <3>2
  <2> QED BY <2>4 DEF HoldsMatch
<1>14. RightsMatch'
  BY <1>1, <1>2, <1>3, <1>4 DEF Live, TypeOK, RightsMatch, HardMatch,
     HoldsMatch, StatMatches, One, port_deref_weak, deref_weak, kernel, refs, listing
<1>15. StatMatches'
  BY <1>1, <1>2, <1>3, <1>4 DEF Live, TypeOK, StatMatches, RightsMatch,
     port_deref_weak, deref_weak, kernel, refs, listing
<1>16. life' = "live"
  BY DEF port_deref_weak, deref_weak, kernel, refs, listing
<1> QED BY <1>10, <1>11, <1>12, <1>13, <1>14, <1>15, <1>16 DEF Live

LEMMA UnbindStep ==
  ASSUME Inv, life = "live", NEW t \in Threads, unbind(t)
  PROVE  life' = "live" /\ TypeOK' /\ Live'
<1>1. TypeOK /\ Live
  BY DEF Inv
<1>2. /\ Held(holds) \in Nat /\ Cardinality(Weakly(pc)) \in Nat
      /\ Held(holds) = 0 <=> \A u \in Threads : holds[u] = 0
      /\ \A u \in Threads : pc[u] \in {"dropweak", "weak"} => Cardinality(Weakly(pc)) > 0
  BY <1>1, Counts
<1>3. PICK to \in {"dealloc", "idle", "handler"} :
        /\ Goto(t, to)
        /\ to = "dealloc" => hard = 0
        /\ to = "idle" => holds[t] = 0
        /\ to = "handler" => holds[t] # 0
  BY <1>1 DEF unbind, deref_weak, Left
<1>4. /\ Cardinality(Weakly(pc')) = Cardinality(Weakly(pc))
           + One(to \in {"dropweak", "weak"}) - One(pc[t] \in {"dropweak", "weak"})
      /\ pc' \in [Threads -> Places]
      /\ \A u \in Threads : pc'[u] = IF u = t THEN to ELSE pc[u]
  BY <1>1, <1>3, Moves DEF Places
<1>5. weak - 1 \in Nat
  BY <1>1, <1>2 DEF Live, WeakMatch, One, unbind
<1>10. TypeOK'
  BY <1>1, <1>2, <1>3, <1>4, <1>5 DEF TypeOK, Places, Live, RightsMatch,
     HardMatch, WeakMatch, One, unbind, deref_weak, kernel, refs, listing
<1>11. HardMatch'
  BY <1>1, <1>2, <1>3, <1>4, <1>5 DEF Live, TypeOK, HardMatch, One, unbind,
     deref_weak, kernel, refs, listing
<1>12. WeakMatch'
  BY <1>1, <1>2, <1>3, <1>4, <1>5 DEF Live, TypeOK, WeakMatch, One, unbind,
     deref_weak, kernel, refs, listing
<1>13. HoldsMatch'
  BY <1>1, <1>2, <1>3, <1>4, <1>5 DEF Live, TypeOK, HoldsMatch, HardMatch,
     One, unbind, deref_weak, kernel, refs, listing
<1>14. RightsMatch'
  BY <1>1, <1>2, <1>3, <1>4, <1>5 DEF Live, TypeOK, RightsMatch, HardMatch,
     HoldsMatch, StatMatches, One, unbind, deref_weak, kernel, refs, listing
<1>15. StatMatches'
  BY <1>1, <1>2, <1>3, <1>4, <1>5 DEF Live, TypeOK, StatMatches, RightsMatch,
     unbind, deref_weak, kernel, refs, listing
<1>16. life' = "live"
  BY DEF unbind, deref_weak, kernel, refs, listing
<1> QED BY <1>10, <1>11, <1>12, <1>13, <1>14, <1>15, <1>16 DEF Live

(* _ports_complete_deallocate takes the port out of the table, destroys    *)
(* its receive right, and frees the object.                                *)
LEMMA RemoveStep ==
  ASSUME Inv, life = "live", NEW t \in Threads, complete_deallocate(t)
  PROVE  TypeOK' /\ (life' = "live" => Live') /\ life' # "freed"
<1>1. TypeOK /\ Live
  BY DEF Inv
<1>2. PICK to \in {"idle", "removed", "cleaning"} :
        Goto(t, to) /\ life' \in {"live", "aborted"} /\ in_table' \in BOOLEAN
  BY <1>1 DEF complete_deallocate, TypeOK
<1>3. /\ Cardinality(Weakly(pc')) = Cardinality(Weakly(pc))
           + One(to \in {"dropweak", "weak"}) - One(pc[t] \in {"dropweak", "weak"})
      /\ pc' \in [Threads -> Places]
      /\ \A u \in Threads : pc'[u] = IF u = t THEN to ELSE pc[u]
  BY <1>1, <1>2, Moves DEF Places
<1>4. TypeOK'
  BY <1>1, <1>2, <1>3 DEF TypeOK, complete_deallocate, refs, kernel
<1>5. Cardinality(Weakly(pc')) = Cardinality(Weakly(pc))
  <2>1. One(to \in {"dropweak", "weak"}) = 0 /\ One(pc[t] \in {"dropweak", "weak"}) = 0
    BY DEF One, complete_deallocate
  <2> QED BY <1>1, <1>3, <2>1, Counts
<1>6. HardMatch' /\ WeakMatch' /\ RightsMatch'
  BY <1>1, <1>5 DEF Live, HardMatch, WeakMatch, RightsMatch, One,
     complete_deallocate, refs, kernel
<1>7. HoldsMatch' /\ StatMatches'
  BY <1>1, <1>2, <1>3 DEF Live, HoldsMatch, StatMatches, complete_deallocate,
     refs, kernel
<1> QED BY <1>2, <1>4, <1>6, <1>7 DEF Live

LEMMA DestroyStep ==
  ASSUME Inv, life = "live", NEW t \in Threads, destroy_receive_right(t)
  PROVE  life' = "live" /\ TypeOK' /\ Live'
<1>1. TypeOK /\ Live
  BY DEF Inv
<1>2. Goto(t, "cleaning")
  BY DEF destroy_receive_right
<1>3. /\ Cardinality(Weakly(pc')) = Cardinality(Weakly(pc))
           + One("cleaning" \in {"dropweak", "weak"}) - One(pc[t] \in {"dropweak", "weak"})
      /\ pc' \in [Threads -> Places]
      /\ \A u \in Threads : pc'[u] = IF u = t THEN "cleaning" ELSE pc[u]
  BY <1>1, <1>2, Moves DEF Places
<1>4. TypeOK'
  BY <1>1, <1>3 DEF TypeOK, destroy_receive_right, refs
<1>5. Cardinality(Weakly(pc')) = Cardinality(Weakly(pc))
  <2>1. /\ One("cleaning" \in {"dropweak", "weak"}) = 0
        /\ One(pc[t] \in {"dropweak", "weak"}) = 0
    BY DEF One, destroy_receive_right
  <2> QED BY <1>1, <1>3, <2>1, Counts
<1>6. HardMatch' /\ WeakMatch'
  BY <1>1, <1>5 DEF Live, HardMatch, WeakMatch, One, destroy_receive_right, refs
<1>7. RightsMatch'
  BY <1>1 DEF Live, TypeOK, RightsMatch, destroy_receive_right, refs
<1>8. HoldsMatch' /\ StatMatches'
  BY <1>1, <1>3 DEF Live, HoldsMatch, StatMatches, destroy_receive_right, refs
<1> QED BY <1>4, <1>6, <1>7, <1>8 DEF Live, destroy_receive_right

(* Whoever frees the object has taken it out of the table. *)
LEMMA FreeStep ==
  ASSUME Inv, life = "live", NEW t \in Threads, free(t)
  PROVE  life' # "live" /\ TypeOK' /\ FreedUnused'
<1>1. TypeOK /\ Live /\ Parting
  BY DEF Inv
<1>2. Goto(t, "idle") /\ life' \in {"freed", "aborted"} /\ pc[t] = "cleaning"
  BY DEF free
<1>3. /\ pc' \in [Threads -> Places]
      /\ \A u \in Threads : pc'[u] = IF u = t THEN "idle" ELSE pc[u]
  BY <1>1, <1>2, Moves DEF Places
<1>4. TypeOK'
  BY <1>1, <1>2, <1>3 DEF TypeOK, free, refs, listing, kernel
<1>5. ASSUME ~(payloads /\ "unlisted" \in revived)
      PROVE  (\A u \in Threads : holds[u] = 0) /\ srights + promised = 0 /\ ~cached
  <2>1. hard = 0 /\ weak = 0
    BY <1>1, <1>2, <1>5 DEF Parting
  <2>2. /\ Held(holds) \in Nat /\ Cardinality(Weakly(pc)) \in Nat
        /\ Held(holds) = 0 <=> \A u \in Threads : holds[u] = 0
    BY <1>1, Counts
  <2>3. (\A u \in Threads : holds[u] = 0) /\ ~has_sendrights
    BY <1>1, <2>1, <2>2 DEF Live, HardMatch, One
  <2>4. ~cached
    BY <1>1, <2>1, <2>2 DEF Live, WeakMatch, One
  <2>5. srights + promised = 0
    BY <1>1, <2>3 DEF Live, RightsMatch, TypeOK
  <2> QED BY <2>3, <2>4, <2>5
<1>6. ASSUME revived = {}, NEW u \in Threads
      PROVE  pc'[u] \in {"idle", "request", "notice"}
  <2>1. t \in Freeing(pc)
    BY <1>2 DEF Freeing
  <2>2. hard = 0 /\ weak = 0 /\ \A v \in Freeing(pc) : v = t
    BY <1>1, <1>6, <2>1 DEF Parting
  <2>3. holds[u] = 0
    BY <1>5, <1>6
  <2>4. pc[u] \notin {"dropweak", "weak"}
    BY <1>1, <2>2, Counts DEF Live, WeakMatch, One
  <2>5. u # t => pc[u] \notin {"dealloc", "removed", "cleaning"}
    BY <2>2 DEF Freeing
  <2>6. pc[u] \in Places
    BY <1>1 DEF TypeOK
  <2> QED BY <1>1, <1>3, <2>3, <2>4, <2>5, <2>6 DEF Live, HoldsMatch, Places
<1>7. /\ payloads' = payloads /\ revived' = revived /\ holds' = holds
      /\ srights' = srights /\ promised' = promised /\ cached' = cached
  BY DEF free, refs, listing, kernel
<1>8. FreedUnused'
  <2>1. CASE payloads /\ "unlisted" \in revived
    <3>1. revived # {}
      BY <2>1
    <3> QED BY <1>7, <2>1, <3>1 DEF FreedUnused
  <2>2. CASE ~(payloads /\ "unlisted" \in revived)
    BY <1>5, <1>6, <1>7, <2>2 DEF FreedUnused
  <2> QED BY <2>1, <2>2
<1> QED BY <1>2, <1>4, <1>8

-----------------------------------------------------------------------------
(* Steps that leave the table alone keep Parting: those that change no     *)
(* reference, and those of an object that somebody refers to.              *)
LEMMA PartingUntouched ==
  ASSUME Parting, UNCHANGED listing, hard' = hard, weak' = weak,
         \A u \in Threads : pc'[u] \in {"dealloc", "removed", "cleaning"} => pc'[u] = pc[u]
  PROVE  Parting'
<1>1. /\ in_table' = in_table /\ port_right' = port_right
      /\ payloads' = payloads /\ revived' = revived
  BY DEF listing
<1>2. \A u \in Freeing(pc') : u \in Freeing(pc)
  BY DEF Freeing
<1>3. \A u \in Threads : pc'[u] \in {"removed", "cleaning"} => ~in_table
  BY DEF Parting
<1>4. revived = {} => \A t, u \in Freeing(pc') : t = u /\ hard = 0 /\ weak = 0
  BY <1>2 DEF Parting
<1> QED BY <1>1, <1>3, <1>4 DEF Parting

LEMMA PartingReferenced ==
  ASSUME Parting, UNCHANGED listing, hard # 0 \/ weak # 0, NEW t \in Threads,
         \A u \in Threads : pc'[u] \in {"dealloc", "removed", "cleaning"} =>
           \/ pc'[u] = pc[u]
           \/ u = t /\ pc'[u] = "dealloc" /\ hard' = 0 /\ weak' = 0
  PROVE  Parting'
<1>1. /\ in_table' = in_table /\ port_right' = port_right
      /\ payloads' = payloads /\ revived' = revived
  BY DEF listing
<1>2. \A u \in Threads : pc'[u] \in {"removed", "cleaning"} => ~in_table
  BY DEF Parting
<1>3. in_table \/ "unlisted" \in revived
  BY DEF Parting
<1>4. ASSUME revived = {}, NEW u \in Freeing(pc')
      PROVE  u = t /\ hard' = 0 /\ weak' = 0
  <2>1. u \notin Freeing(pc)
    BY <1>4 DEF Parting
  <2> QED BY <1>4, <2>1 DEF Freeing
<1> QED BY <1>1, <1>2, <1>3, <1>4 DEF Parting

LEMMA GotoElsewhere ==
  ASSUME TypeOK, NEW t \in Threads, NEW to, Goto(t, to)
  PROVE  \A u \in Threads : pc'[u] = IF u = t THEN to ELSE pc[u]
BY DEF TypeOK, Goto

(* A thread in a handler or inside ports_port_deref refers to the object,  *)
(* and so does the server's table.                                         *)
LEMMA Referenced ==
  ASSUME TypeOK, Live
  PROVE  /\ \A t \in Threads : pc[t] \in {"found", "handler"} => hard # 0
         /\ \A t \in Threads : pc[t] \in {"dropweak", "weak"} => weak # 0
         /\ cached => weak # 0
<1>1. /\ Held(holds) \in Nat /\ Cardinality(Weakly(pc)) \in Nat
      /\ Held(holds) = 0 <=> \A t \in Threads : holds[t] = 0
      /\ \A t \in Threads : pc[t] \in {"dropweak", "weak"} => Cardinality(Weakly(pc)) > 0
  BY Counts
<1>2. One(has_sendrights) \in Nat /\ One(cached) \in Nat /\ (cached => One(cached) = 1)
  BY DEF One
<1>3. ASSUME NEW t \in Threads, pc[t] \in {"found", "handler"} PROVE hard # 0
  <2>1. holds[t] # 0
    BY <1>3 DEF Live, HoldsMatch, TypeOK
  <2> QED BY <1>1, <1>2, <2>1 DEF Live, HardMatch
<1>4. ASSUME NEW t \in Threads, pc[t] \in {"dropweak", "weak"} PROVE weak # 0
  BY <1>1, <1>2, <1>4 DEF Live, WeakMatch
<1>5. ASSUME cached PROVE weak # 0
  <2>1. One(cached) = 1
    BY <1>5 DEF One
  <2>2. weak = One(cached) + Cardinality(Weakly(pc))
    BY DEF Live, WeakMatch
  <2> QED BY <1>1, <2>1, <2>2
<1> QED BY <1>3, <1>4, <1>5

LEMMA PartingStep ==
  ASSUME Inv, life = "live", Next, life' = "live"
  PROVE  Parting'
<1>1. TypeOK /\ Live /\ Parting
  BY DEF Inv
<1>2. /\ \A t \in Threads : pc[t] \in {"found", "handler"} => hard # 0
      /\ \A t \in Threads : pc[t] \in {"dropweak", "weak"} => weak # 0
      /\ cached => weak # 0
  BY <1>1, Referenced
<1>3. ASSUME client_sends \/ client_drops \/ make_send \/ Gone PROVE Parting'
  <2>1. UNCHANGED <<listing, hard, weak, pc>>
    BY <1>3 DEF client_sends, client_drops, make_send, object, refs, listing,
       Gone, vars
  <2> QED BY <1>1, <2>1, PartingUntouched
<1>4. ASSUME NEW t \in Threads,
             receive_request(t) \/ receive_notice(t)
               \/ do_mach_notify_no_senders(t) \/ no_senders(t)
      PROVE  Parting'
  <2>1. UNCHANGED <<listing, hard, weak>>
    BY <1>4 DEF receive_request, receive_notice, do_mach_notify_no_senders,
       no_senders, object, refs, listing
  <2>2. PICK to \in {"request", "notice", "handler", "no_senders"} : Goto(t, to)
    BY <1>4 DEF receive_request, receive_notice, do_mach_notify_no_senders,
       no_senders
  <2>3. \A u \in Threads : pc'[u] = IF u = t THEN to ELSE pc[u]
    BY <1>1, <2>2, GotoElsewhere
  <2> QED BY <1>1, <2>1, <2>3, PartingUntouched
<1>5. ASSUME NEW t \in Threads, get_right(t) \/ port_ref_weak(t) PROVE Parting'
  <2>1. UNCHANGED <<listing, pc>> /\ hard # 0
    BY <1>2, <1>5 DEF get_right, ports_get_right, port_ref_weak, listing
  <2> QED BY <1>1, <2>1, PartingReferenced
<1>6. ASSUME get_identity PROVE Parting'
  <2>1. UNCHANGED <<listing, pc>> /\ weak # 0
    BY <1>2, <1>6 DEF get_identity, ports_get_right, listing
  <2> QED BY <1>1, <2>1, PartingReferenced, PortLifeAssumption
<1>7. ASSUME NEW t \in Threads,
             find(t) \/ found_right(t) \/ port_deref_demote(t) \/ dropweak_routine(t)
      PROVE  Parting'
  <2>1. UNCHANGED listing /\ (hard # 0 \/ weak # 0)
    BY <1>2, <1>7 DEF find, found_right, ports_get_right, port_deref_demote,
       dropweak_routine, listing
  <2>2. PICK to \in {"found", "handler", "dropweak", "weak"} : Goto(t, to)
    BY <1>7 DEF find, found_right, port_deref_demote, dropweak_routine
  <2>3. \A u \in Threads : pc'[u] = IF u = t THEN to ELSE pc[u]
    BY <1>1, <2>2, GotoElsewhere
  <2> QED BY <1>1, <2>1, <2>3, PartingReferenced
<1>8. ASSUME NEW t \in Threads, port_deref(t) \/ port_deref_weak(t) \/ unbind(t)
      PROVE  Parting'
  <2>1. UNCHANGED listing /\ (hard # 0 \/ weak # 0)
    BY <1>2, <1>8 DEF port_deref, port_deref_weak, unbind, deref_weak, listing
  <2>2. PICK to \in {"dealloc", "idle", "handler"} :
          /\ Goto(t, to)
          /\ to = "dealloc" => hard' = 0 /\ weak' = 0
    <3>1. CASE port_deref(t)
      BY <3>1 DEF port_deref, Left, refs
    <3>2. CASE port_deref_weak(t) \/ unbind(t)
      BY <3>2 DEF port_deref_weak, unbind, deref_weak, Left
    <3> QED BY <1>8, <3>1, <3>2
  <2>3. \A u \in Threads : pc'[u] = IF u = t THEN to ELSE pc[u]
    BY <1>1, <2>2, GotoElsewhere
  <2> QED BY <1>1, <2>1, <2>2, <2>3, PartingReferenced
<1>9. ASSUME NEW t \in Threads, lookup(t), ~may_find PROVE Parting'
  <2>1. UNCHANGED <<listing, hard, weak>> /\ Goto(t, "idle")
    BY <1>9 DEF lookup, refs, listing
  <2>2. \A u \in Threads : pc'[u] = IF u = t THEN "idle" ELSE pc[u]
    BY <1>1, <2>1, GotoElsewhere
  <2> QED BY <1>1, <2>1, <2>2, PartingUntouched
<1>10. ASSUME NEW t \in Threads, lookup(t), may_find PROVE Parting'
  <2>1. PICK to \in {"handler", "status"} : Goto(t, to)
    BY <1>10 DEF lookup
  <2>2. \A u \in Threads : pc'[u] = IF u = t THEN to ELSE pc[u]
    BY <1>1, <2>1, GotoElsewhere
  <2>3. /\ in_table' = in_table /\ port_right' = port_right
        /\ payloads' = payloads /\ weak' = weak /\ revived' = revived \cup revival
    BY <1>10 DEF lookup, refs
  <2>4. "unlisted" \in revived' => payloads
    BY <1>1, <1>10, <2>3 DEF Parting, revival, may_find, lookup_port,
       lookup_payload
  <2>5. ASSUME ~in_table PROVE "unlisted" \in revived'
    BY <1>1, <2>3, <2>5 DEF Parting, revival
  <2>6. ASSUME revived' = {} PROVE Freeing(pc') = {}
    <3>1. revived = {} /\ (hard # 0 \/ weak # 0)
      <4>1. revived = {} /\ revival = {}
        BY <2>3, <2>6
      <4>2. ASSUME hard = 0, weak = 0 PROVE FALSE
        <5>1. CASE in_table
          BY <4>1, <4>2, <5>1 DEF revival
        <5>2. CASE ~in_table
          BY <4>1, <4>2, <5>2 DEF revival
        <5> QED BY <5>1, <5>2
      <4> QED BY <4>1, <4>2
    <3>2. Freeing(pc) = {}
      BY <1>1, <3>1 DEF Parting
    <3> QED BY <2>2, <3>2 DEF Freeing
  <2>7. \A u \in Threads : pc'[u] \in {"removed", "cleaning"} => ~in_table
    BY <1>1, <2>2 DEF Parting
  <2> QED BY <1>1, <2>3, <2>4, <2>5, <2>6, <2>7 DEF Parting
<1>11. ASSUME NEW t \in Threads, complete_deallocate(t) PROVE Parting'
  <2>1. /\ port_right' = port_right /\ payloads' = payloads /\ revived' = revived
        /\ hard' = hard /\ weak' = weak /\ pc[t] = "dealloc"
        /\ in_table' => in_table
    BY <1>11 DEF complete_deallocate, refs
  <2>2. PICK to \in {"removed", "cleaning"} : Goto(t, to) /\ ~in_table'
    BY <1>1, <1>11 DEF complete_deallocate, Parting
  <2>3. \A u \in Threads : pc'[u] = IF u = t THEN to ELSE pc[u]
    BY <1>1, <2>2, GotoElsewhere
  <2>4. ASSUME "unlisted" \notin revived PROVE hard = 0 /\ weak = 0
    <3>1. CASE port_right
      BY <1>1, <1>11, <3>1 DEF complete_deallocate, reacquired, TypeOK
    <3>2. CASE ~port_right
      BY <1>1, <2>4, <3>2 DEF Parting
    <3> QED BY <3>1, <3>2
  <2>5. Freeing(pc') = Freeing(pc)
    BY <2>1, <2>3 DEF Freeing
  <2> QED BY <1>1, <2>1, <2>2, <2>4, <2>5 DEF Parting
<1>12. ASSUME NEW t \in Threads, destroy_receive_right(t) PROVE Parting'
  <2>1. /\ payloads' = payloads /\ revived' = revived /\ in_table' = in_table
        /\ hard' = hard /\ weak' = weak /\ pc[t] = "removed" /\ Goto(t, "cleaning")
    BY <1>12 DEF destroy_receive_right, refs
  <2>2. \A u \in Threads : pc'[u] = IF u = t THEN "cleaning" ELSE pc[u]
    BY <1>1, <2>1, GotoElsewhere
  <2>3. ~in_table
    BY <1>1, <2>1 DEF Parting
  <2>4. Freeing(pc') = Freeing(pc)
    BY <2>1, <2>2 DEF Freeing
  <2> QED BY <1>1, <2>1, <2>3, <2>4 DEF Parting
<1>13. ASSUME NEW t \in Threads, free(t) PROVE FALSE
  BY <1>13 DEF free
<1> QED BY <1>3, <1>4, <1>5, <1>6, <1>7, <1>8, <1>9, <1>10, <1>11, <1>12, <1>13
           DEF Next, ThreadStep

-----------------------------------------------------------------------------
LEMMA InitInv == Init => Inv
<1> SUFFICES ASSUME Init PROVE Inv
  OBVIOUS
<1> DEFINE n == IF kind = "identity" THEN 1 ELSE 0
<1>1. /\ kind \in {"plain", "cached", "identity"}
      /\ cached = (kind = "identity") /\ weak = n
      /\ has_sendrights = (kind = "identity") /\ mscount = n
      /\ promised = n /\ nsrequest = (kind = "identity")
      /\ pc = [t \in Threads |->
                 IF t = Creator /\ kind # "identity" THEN "handler" ELSE "idle"]
      /\ holds = [t \in Threads |-> IF t = Creator THEN 1 - n ELSE 0]
      /\ hard = 1 /\ in_table = TRUE /\ life = "live"
      /\ port_right = TRUE /\ payloads \in BOOLEAN /\ revived = {}
      /\ stat = [t \in Threads |-> 0]
      /\ srights = 0 /\ k_mscount = 0 /\ notices = 0 /\ requests = 0
      /\ late = FALSE
  BY DEF Init
<1>2. n \in {0, 1} /\ One(cached) = n /\ One(has_sendrights) = n
  BY <1>1 DEF One
<1>3. TypeOK
  <2>1. pc \in [Threads -> Places]
    BY <1>1 DEF Places
  <2>2. holds \in [Threads -> Nat] /\ stat \in [Threads -> Nat]
    BY <1>1
  <2> QED BY <1>1, <2>1, <2>2 DEF TypeOK
<1>4. HardMatch
  <2> DEFINE z == [t \in Threads |-> 0]
  <2>1. z \in [Threads -> Nat] /\ Held(z) = 0
    <3>1. z \in [Threads -> Nat] /\ \A t \in Threads : z[t] = 0
      OBVIOUS
    <3> HIDE DEF z
    <3> QED BY <3>1, TokensFinite
  <2>2. CASE n = 0
    <3>1. holds = [z EXCEPT ![Creator] = @ + 1]
      BY <1>1, <2>2, PortLifeAssumption
    <3>2. Held(holds) = 1
      <4> HIDE DEF z
      <4>1. Held([z EXCEPT ![Creator] = @ + 1]) = Held(z) + 1
        BY <2>1, HeldChange, PortLifeAssumption
      <4> QED BY <2>1, <3>1, <4>1
    <3> QED BY <1>1, <1>2, <2>2, <3>2 DEF HardMatch
  <2>3. CASE n = 1
    <3>1. holds = z
      BY <1>1, <2>3
    <3> QED BY <1>1, <1>2, <2>1, <2>3, <3>1 DEF HardMatch
  <2> QED BY <1>2, <2>2, <2>3
<1>5. WeakMatch
  <2>1. Weakly(pc) = {}
    BY <1>1 DEF Weakly
  <2> QED BY <1>1, <1>2, <2>1, FS_EmptySet DEF WeakMatch
<1>6. HoldsMatch
  <2>1. ASSUME NEW t \in Threads, t = Creator, kind # "identity"
        PROVE  pc[t] = "handler" /\ holds[t] = 1
    BY <1>1, <2>1
  <2>2. ASSUME NEW t \in Threads, ~(t = Creator /\ kind # "identity")
        PROVE  pc[t] = "idle" /\ holds[t] = 0
    BY <1>1, <2>2
  <2> QED BY <2>1, <2>2 DEF HoldsMatch
<1>7. RightsMatch
  <2>1. requests <= srights /\ mscount = k_mscount + promised
    BY <1>1, <1>2
  <2>2. srights + promised > 0 => kind = "identity"
    BY <1>1
  <2> QED BY <1>1, <2>1, <2>2 DEF RightsMatch
<1>8. StatMatches
  BY <1>1 DEF StatMatches
<1>9. FreedUnused
  BY <1>1 DEF FreedUnused
<1>10. Parting
  <2>1. Freeing(pc) = {}
    BY <1>1 DEF Freeing
  <2> QED BY <1>1, <2>1 DEF Parting, Freeing
<1> QED BY <1>3, <1>4, <1>5, <1>6, <1>7, <1>8, <1>9, <1>10 DEF Inv, Live

LEMMA NextInv == Inv /\ [Next]_vars => Inv'
<1> SUFFICES ASSUME Inv, [Next]_vars PROVE Inv'
  OBVIOUS
<1>1. ASSUME UNCHANGED vars PROVE Inv'
  BY <1>1 DEF Inv, TypeOK, Live, HardMatch, WeakMatch, HoldsMatch, RightsMatch,
              StatMatches, Parting, FreedUnused, vars
<1>2. CASE life # "live"
  <2>1. UNCHANGED vars
    BY <1>2 DEF Next, ThreadStep, Gone, get_right, find, port_ref_weak, unbind,
       receive_request, receive_notice, lookup, do_mach_notify_no_senders,
       no_senders, found_right, port_deref, port_deref_demote, dropweak_routine,
       port_deref_weak, complete_deallocate, destroy_receive_right, free, get_identity, make_send, client_sends,
       client_drops
  <2> QED BY <1>1, <2>1
<1>3. CASE life = "live" /\ Next
  <2>1. ASSUME life' = "live" /\ TypeOK' /\ Live' PROVE Inv'
    <3>1. Parting'
      BY <1>3, <2>1, PartingStep
    <3> QED BY <2>1, <3>1 DEF Inv, FreedUnused
  <2>2. ASSUME NEW t \in Threads,
               get_right(t) \/ find(t) \/ port_ref_weak(t) \/ unbind(t)
        PROVE  Inv'
    BY <1>3, <2>1, <2>2, GetRightStep, FindStep, RefWeakStep, UnbindStep
  <2>3. ASSUME NEW t \in Threads, ThreadStep(t) PROVE Inv'
    <3>1. ASSUME receive_request(t) \/ receive_notice(t) PROVE Inv'
      BY <1>3, <2>1, <3>1, ReceiveRequestStep, ReceiveNoticeStep
    <3>2. ASSUME lookup(t) PROVE Inv'
      BY <1>3, <2>1, <3>2, LookupFindsStep, LookupFailsStep
    <3>3. ASSUME do_mach_notify_no_senders(t) PROVE Inv'
      BY <1>3, <2>1, <3>3, NotifyStep
    <3>4. ASSUME no_senders(t) PROVE Inv'
      BY <1>3, <2>1, <3>4, RightsGoneStep, RightsStayStep
    <3>5. ASSUME found_right(t) \/ port_deref(t) \/ port_deref_demote(t) PROVE Inv'
      BY <1>3, <2>1, <3>5, FoundRightStep, DerefStep, DemoteStep
    <3>6. ASSUME dropweak_routine(t) \/ port_deref_weak(t) PROVE Inv'
      BY <1>3, <2>1, <3>6, DropweakStep, DerefWeakStep
    <3>7. ASSUME complete_deallocate(t) PROVE Inv'
      <4>1. TypeOK' /\ (life' = "live" => Live') /\ life' # "freed"
        BY <1>3, <3>7, RemoveStep
      <4>2. life' = "live" => Parting'
        BY <1>3, PartingStep
      <4> QED BY <4>1, <4>2 DEF Inv, FreedUnused
    <3>8. ASSUME destroy_receive_right(t) PROVE Inv'
      BY <1>3, <2>1, <3>8, DestroyStep
    <3>9. ASSUME free(t) PROVE Inv'
      <4>1. life' # "live" /\ TypeOK' /\ FreedUnused'
        BY <1>3, <3>9, FreeStep
      <4> QED BY <4>1 DEF Inv
    <3> QED BY <2>3, <3>1, <3>2, <3>3, <3>4, <3>5, <3>6, <3>7, <3>8, <3>9
               DEF ThreadStep
  <2>4. ASSUME get_identity \/ make_send \/ client_sends \/ client_drops PROVE Inv'
    BY <1>3, <2>1, <2>4, GetIdentityStep, MakeSendStep, ClientSendsStep,
       ClientDropsStep
  <2>5. ASSUME Gone PROVE Inv'
    BY <1>1, <2>5 DEF Gone
  <2> QED BY <1>3, <2>2, <2>3, <2>4, <2>5 DEF Next
<1> QED BY <1>1, <1>2, <1>3

(* What the invariant says of the send rights. *)
LEMMA InvSenders == Inv => SendersHoldReference
<1> SUFFICES ASSUME Inv, life = "live", srights + promised > 0
             PROVE  has_sendrights /\ hard > 0 /\ (kind = "identity" => cached)
  BY DEF SendersHoldReference
<1>1. TypeOK /\ HardMatch /\ RightsMatch
  BY DEF Inv, Live
<1>2. has_sendrights /\ (kind = "identity" => cached)
  BY <1>1 DEF RightsMatch
<1>3. Held(holds) \in Nat
  BY <1>1, Counts
<1> QED BY <1>1, <1>2, <1>3 DEF HardMatch, One

LEMMA Invariance == Spec => []Inv
BY InitInv, NextInv, PTL DEF Spec

(* Type correctness of the object, the threads and the kernel's port. *)
THEOREM TypeCorrect == Spec => []TypeOK
<1>1. Inv => TypeOK
  BY DEF Inv
<1> QED BY <1>1, Invariance, PTL

(* Every reference of a live object is accounted for: the hard ones by the *)
(* threads that hold them and by the send rights, the weak ones by the     *)
(* server's table and by the threads inside ports_port_deref.              *)
ReferencesMatch == life = "live" => HardMatch /\ WeakMatch

THEOREM ReferencesAreCounted == Spec => []ReferencesMatch
<1>1. Inv => ReferencesMatch
  BY DEF Inv, Live, ReferencesMatch
<1> QED BY <1>1, Invariance, PTL

(* A client with a send right, or for which one is about to be made, keeps *)
(* the object alive, whatever threads run ports_no_senders meanwhile.      *)
THEOREM SendersKeepObject == Spec => []SendersHoldReference
BY InvSenders, Invariance, PTL

(* _ports_complete_deallocate frees an object that nobody refers to, with  *)
(* the exception of references by payload after the port left the table,   *)
(* and two threads free it only if a lookup revived it.                    *)
THEOREM FreedIsUnreferenced == Spec => []FreedUnused
<1>1. Inv => FreedUnused
  BY DEF Inv
<1> QED BY <1>1, Invariance, PTL
====

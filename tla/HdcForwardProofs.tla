--------------------------- MODULE HdcForwardProofs ---------------------------
(***************************************************************************)
(* That a forward carries its streams whole, and leaves nothing behind,    *)
(* for any number of connections and pieces.                               *)
(*                                                                         *)
(* What is on its way to an end goes on where the pieces end that it has   *)
(* queued (Flowing), for as long as the end would still take them (Takes). *)
(* That holds because a context is known to the master before the slave    *)
(* hears of it, and to the slave before a piece of either end is on its    *)
(* way (Begun, Proper).  A task counts its contexts (Counted), and makes   *)
(* none after it has been stopped (Stopped).                               *)
(***************************************************************************)
EXTENDS MCHdcForward, FiniteSetTheorems, TLAPS

\* What a packet on its way to e says of the contexts.
Proper(e, p, j) ==
    /\ p.type = "WAKEUP" => e = Slave /\ j = 1 /\ task[Slave] = "none"
    /\ p.type = "ACTIVE_SLAVE" => ctx[Master][p.id].st # "none"
    /\ p.type \in {"ACTIVE_MASTER", "DATA"} => ctx[Slave][p.id].st # "none"

Links == \A e \in Ends : \A j \in DOMAIN link[e] : Proper(e, link[e][j], j)

\* A context: before it is made, and while it is live.
Made == \A e \in Ends, i \in Ids :
    /\ ctx[e][i].st = "none" => ctx[e][i] = NoCtx
    /\ ctx[e][i].st = "live" => ctx[e][i].inMap

\* A connection the slave does not know of has carried nothing.
Begun == \A c \in Conns :
    /\ ctx[Master][c].st = "none" => ctx[Slave][c].st = "none"
    /\ ctx[Slave][c].st = "none" =>
          /\ ~ctx[Master][c].ready
          /\ \A e \in Ends : said[e][c] = 0 /\ heard[e][c] = <<>> /\ pending[e][c] = <<>>

Tasks ==
    /\ task[Master] # "none"
    /\ task[Slave] = "none" => \A i \in Ids : ctx[Slave][i].st = "none"
    /\ ~up => \A e \in Ends : link[e] = <<>> /\ task[e] # "run"
Stopped == \A e \in Ends :
    /\ task[e] \in {"stopped", "gone"} => \A i \in Ids : ctx[e][i].st # "live"
    /\ task[e] = "gone" => \A i \in Ids : ctx[e][i].st \in {"none", "deleted"}

\* End e would queue a piece of c.
Takes(e, c) ==
    /\ task[e] = "run" /\ ctx[e][c].st = "live"
    /\ e = "host" => chan \in {"up", "asked"}

\* The packets l carry the pieces of c after piece n, up to piece m.
IsData(p, c) == p.type = "DATA" /\ p.id = c
Carries(l, c, n, m) ==
    /\ n <= m
    /\ \A j \in DOMAIN l : IsData(l[j], c) => l[j].piece > n /\ l[j].piece <= m
    /\ \A j, k \in DOMAIN l : IsData(l[j], c) /\ IsData(l[k], c) /\ j < k => l[j].piece < l[k].piece
    /\ \A p \in Nat : n < p /\ p <= m => \E j \in DOMAIN l : IsData(l[j], c) /\ l[j].piece = p

Queued(e, c) == Len(heard[e][c]) + Len(pending[e][c])
Ordered == \A e \in Ends, c \in Conns :
    /\ \A k \in DOMAIN heard[e][c] : heard[e][c][k] = k
    /\ \A k \in DOMAIN pending[e][c] : pending[e][c][k] = Len(heard[e][c]) + k
Flowing == \A e \in Ends, c \in Conns :
    Takes(e, c) => Carries(link[e], c, Queued(e, c), said[Other(e)][c])

\* The contexts refCount counts.
Busy(e) == {i \in Ids : ctx[e][i].st \notin {"none", "deleted"}}
Counted == \A e \in Ends : refCount[e] = Cardinality(Busy(e))

IInv == TypeOK /\ Made /\ Begun /\ Links /\ Tasks /\ Stopped /\ Ordered /\ Flowing /\ Counted

--------------------------------------------------------------------------------
(* The ends, and what a link carries. *)

LEMMA EndFacts ==
    ASSUME NEW e \in Ends
    PROVE  Other(e) \in Ends /\ Other(e) # e /\ Other(Other(e)) = e /\ Ends = {e, Other(e)}
  BY DEF Ends, Other

LEMMA ScenarioFacts ==
    ASSUME TypeOK
    PROVE  /\ Master \in Ends /\ Slave \in Ends /\ Slave = Other(Master) /\ Master = Other(Slave)
           /\ IsFiniteSet(Ids) /\ Listen \notin Conns /\ Conns \subseteq Ids /\ Listen \in Ids
           /\ \A e \in Ends : sc.pieces[e] \in Nat /\ sc.pieces[e] <= Most
           /\ Most \in Nat
<1>1. sc \in Scenarios
  BY DEF TypeOK
<1>2. sc.master \in Ends /\ IsFiniteSet(sc.conns) /\ Listen \notin sc.conns /\ sc.pieces \in [Ends -> Nat]
  BY <1>1, ScenariosAssumption
<1>3. IsFiniteSet(Ids)
  BY <1>2, FS_AddElement, FS_Singleton, FS_Union DEF Ids, Conns
<1>4. Slave = Other(Master) /\ Master = Other(Slave) /\ Master \in Ends /\ Slave \in Ends
  BY <1>2 DEF Master, Slave, Ends, Other
<1>5. Most \in Nat /\ \A e \in Ends : sc.pieces[e] \in Nat /\ sc.pieces[e] <= Most
  BY <1>2 DEF Most, Ends
<1> QED
  BY <1>2, <1>3, <1>4, <1>5 DEF Ids, Conns

LEMMA NoneCarried ==
    ASSUME NEW l, NEW c, NEW n \in Nat, \A j \in DOMAIN l : ~IsData(l[j], c)
    PROVE  Carries(l, c, n, n)
  BY DEF Carries

LEMMA CarriesTail ==
    ASSUME NEW S, NEW l \in Seq(S), l # <<>>, NEW c, NEW n \in Nat, NEW m \in Nat, Carries(l, c, n, m),
           ~IsData(Head(l), c)
    PROVE  Carries(Tail(l), c, n, m)
<1> DEFINE t == Tail(l)
<1>1. /\ Len(t) = Len(l) - 1 /\ Len(l) \in Nat /\ Len(l) # 0
      /\ DOMAIN l = 1..Len(l) /\ DOMAIN t = 1..Len(t) /\ Head(l) = l[1]
      /\ \A j \in DOMAIN t : t[j] = l[j + 1] /\ j + 1 \in DOMAIN l
  OBVIOUS
<1>2. \A j \in DOMAIN l : j = 1 \/ (j - 1 \in DOMAIN t /\ t[j - 1] = l[j])
  BY <1>1
<1> HIDE DEF t
<1>3. \A j \in DOMAIN t : IsData(t[j], c) => t[j].piece > n /\ t[j].piece <= m
  BY <1>1 DEF Carries
<1>4. \A j, k \in DOMAIN t : IsData(t[j], c) /\ IsData(t[k], c) /\ j < k => t[j].piece < t[k].piece
  <2>1. \A j, k \in DOMAIN l : IsData(l[j], c) /\ IsData(l[k], c) /\ j < k => l[j].piece < l[k].piece
    BY DEF Carries
  <2>2. \A j, k \in DOMAIN t : j < k => j + 1 < k + 1
    BY ONLY <1>1
  <2> QED
    BY ONLY <1>1, <2>1, <2>2
<1>5. ASSUME NEW p \in Nat, n < p, p <= m
      PROVE  \E j \in DOMAIN t : IsData(t[j], c) /\ t[j].piece = p
  <2>1. PICK j \in DOMAIN l : IsData(l[j], c) /\ l[j].piece = p
    BY <1>5 DEF Carries
  <2>2. j # 1
    BY <1>1, <2>1
  <2> QED
    BY <1>2, <2>1, <2>2
<1> QED
  BY <1>3, <1>4, <1>5 DEF Carries, t

\* The first piece on its way is the next.
LEMMA CarriesHead ==
    ASSUME NEW S, NEW l \in Seq(S), l # <<>>, NEW c, NEW n \in Nat, NEW m \in Nat, Carries(l, c, n, m),
           IsData(Head(l), c), Head(l).piece \in Nat
    PROVE  Head(l).piece = n + 1 /\ Carries(Tail(l), c, n + 1, m)
<1> DEFINE t == Tail(l)
<1>1. /\ Len(t) = Len(l) - 1 /\ Len(l) \in Nat /\ Len(l) # 0
      /\ DOMAIN l = 1..Len(l) /\ DOMAIN t = 1..Len(t) /\ Head(l) = l[1] /\ 1 \in DOMAIN l
      /\ \A j \in DOMAIN t : t[j] = l[j + 1] /\ j + 1 \in DOMAIN l /\ 1 < j + 1
  OBVIOUS
<1>2. \A j \in DOMAIN l : j = 1 \/ (1 < j /\ j - 1 \in DOMAIN t /\ t[j - 1] = l[j])
  BY <1>1
<1> HIDE DEF t
<1>3. l[1].piece \in Nat /\ l[1].piece > n /\ l[1].piece <= m /\ IsData(l[1], c)
  BY <1>1 DEF Carries
<1>4. l[1].piece = n + 1
  <2>1. PICK j \in DOMAIN l : IsData(l[j], c) /\ l[j].piece = n + 1
    <3>1. n + 1 \in Nat /\ n < n + 1 /\ n + 1 <= m
      BY <1>3
    <3> QED
      BY <3>1 DEF Carries
  <2>2. 1 < j => l[1].piece < l[j].piece
    BY <1>1, <1>3, <2>1 DEF Carries
  <2>3. j = 1
    BY <1>2, <1>3, <2>1, <2>2
  <2> QED
    BY <2>1, <2>3
<1>5. \A j \in DOMAIN t : IsData(t[j], c) => t[j].piece > n + 1 /\ t[j].piece <= m
  <2> TAKE j \in DOMAIN t
  <2>1. t[j] = l[j + 1] /\ j + 1 \in DOMAIN l /\ 1 < j + 1
    BY <1>1
  <2>2. IsData(l[j + 1], c) => l[1].piece < l[j + 1].piece /\ l[j + 1].piece <= m
    BY <1>1, <1>3, <2>1 DEF Carries
  <2> QED
    BY <1>4, <2>1, <2>2
<1>6. \A j, k \in DOMAIN t : IsData(t[j], c) /\ IsData(t[k], c) /\ j < k => t[j].piece < t[k].piece
  <2>1. \A j, k \in DOMAIN l : IsData(l[j], c) /\ IsData(l[k], c) /\ j < k => l[j].piece < l[k].piece
    BY DEF Carries
  <2>2. \A j, k \in DOMAIN t : j < k => j + 1 < k + 1
    BY ONLY <1>1
  <2> QED
    BY ONLY <1>1, <2>1, <2>2
<1>7. ASSUME NEW p \in Nat, n + 1 < p, p <= m
      PROVE  \E j \in DOMAIN t : IsData(t[j], c) /\ t[j].piece = p
  <2>1. PICK j \in DOMAIN l : IsData(l[j], c) /\ l[j].piece = p
    <3>1. n < p
      BY <1>7
    <3> QED
      BY <1>7, <3>1 DEF Carries
  <2>2. j # 1
    BY <1>4, <1>7, <2>1
  <2> QED
    BY <1>2, <2>1, <2>2
<1> QED
  BY <1>1, <1>4, <1>5, <1>6, <1>7 DEF Carries, t

LEMMA CarriesMore ==
    ASSUME NEW S, NEW l \in Seq(S), NEW ps \in Seq(S), NEW c, NEW n \in Nat, NEW m \in Nat,
           Carries(l, c, n, m), \A j \in DOMAIN ps : ~IsData(ps[j], c)
    PROVE  Carries(l \o ps, c, n, m)
<1> DEFINE t == l \o ps
<1>1. /\ Len(t) = Len(l) + Len(ps) /\ Len(l) \in Nat /\ Len(ps) \in Nat
      /\ DOMAIN l = 1..Len(l) /\ DOMAIN t = 1..Len(t) /\ DOMAIN ps = 1..Len(ps)
      /\ \A j \in DOMAIN l : t[j] = l[j] /\ j \in DOMAIN t
      /\ \A j \in DOMAIN t : j \notin DOMAIN l => t[j] = ps[j - Len(l)] /\ j - Len(l) \in DOMAIN ps
  OBVIOUS
<1> HIDE DEF t
<1>2. \A j \in DOMAIN t : IsData(t[j], c) => j \in DOMAIN l /\ t[j] = l[j]
  BY <1>1
<1> QED
  BY <1>1, <1>2 DEF Carries, t

LEMMA CarriesOne ==
    ASSUME NEW S, NEW l \in Seq(S), NEW c, NEW n \in Nat, NEW m \in Nat, Carries(l, c, n, m),
           \A j \in DOMAIN l : IsData(l[j], c) => l[j].piece \in Nat
    PROVE  Carries(l \o <<Data(c, m + 1)>>, c, n, m + 1)
<1> DEFINE d == Data(c, m + 1)
           t == l \o <<d>>
           k == Len(l) + 1
<1>1. /\ Len(l) \in Nat /\ k \in Nat /\ DOMAIN l = 1..Len(l) /\ DOMAIN t = 1..k
      /\ \A j \in DOMAIN l : t[j] = l[j] /\ j \in DOMAIN t /\ j < k
      /\ \A j \in DOMAIN t : j \in DOMAIN l \/ j = k
      /\ k \in DOMAIN t /\ t[k] = d /\ k \notin DOMAIN l
  OBVIOUS
<1>2. IsData(d, c) /\ d.piece = m + 1
  BY DEF Data, IsData
<1> HIDE DEF d, t, k
<1>3. \A j \in DOMAIN t : IsData(t[j], c) => t[j].piece > n /\ t[j].piece <= m + 1
  BY <1>1, <1>2 DEF Carries
<1>4. \A i, j \in DOMAIN t : IsData(t[i], c) /\ IsData(t[j], c) /\ i < j => t[i].piece < t[j].piece
  <2> TAKE i, j \in DOMAIN t
  <2> HAVE IsData(t[i], c) /\ IsData(t[j], c) /\ i < j
  <2>1. i \in DOMAIN l
    BY <1>1
  <2>2. t[i].piece \in Nat /\ t[i].piece <= m
    BY <1>1, <2>1 DEF Carries
  <2>3. CASE j \in DOMAIN l
    BY <1>1, <2>1, <2>3 DEF Carries
  <2>4. CASE j = k
    BY <1>1, <1>2, <2>2, <2>4
  <2> QED
    BY <1>1, <2>3, <2>4
<1>5. ASSUME NEW p \in Nat, n < p, p <= m + 1
      PROVE  \E j \in DOMAIN t : IsData(t[j], c) /\ t[j].piece = p
  <2>1. CASE p <= m
    <3>1. PICK j \in DOMAIN l : IsData(l[j], c) /\ l[j].piece = p
      BY <1>5, <2>1 DEF Carries
    <3> QED
      BY <1>1, <3>1
  <2>2. CASE p = m + 1
    BY <1>1, <1>2, <2>2
  <2> QED
    BY <1>5, <2>1, <2>2
<1>6. n <= m + 1
  BY DEF Carries
<1> QED
  BY <1>3, <1>4, <1>5, <1>6 DEF Carries, t, d

--------------------------------------------------------------------------------
(* What every step does but those that move a piece. *)

\* A context is made, or goes on towards its deletion.
CtxStep(e, i) ==
    \/ ctx'[e][i] = ctx[e][i]
    \/ /\ ctx[e][i].st # "none" /\ ctx'[e][i].st # "none"
       /\ ctx'[e][i].st = "live" => ctx[e][i].st = "live" /\ ctx'[e][i].inMap
       /\ ctx[e][i].st = "deleted" => ctx'[e][i].st = "deleted"
       /\ e = Master /\ i \in Conns /\ ctx'[e][i].ready => ctx[e][i].ready \/ ctx[Slave][i].st # "none"
    \/ /\ ctx[e][i].st = "none" /\ ctx'[e][i].st # "none" /\ ctx'[e][i].inMap
       /\ task[e] \in {"run", "told"}
       /\ e = Master => ~ctx'[e][i].ready
       /\ e = Slave /\ i \in Conns => ctx[Master][i].st # "none"

\* A packet that may be sent to e.
Sends(p) ==
    /\ p.type \notin {"WAKEUP", "DATA"}
    /\ p.type = "ACTIVE_SLAVE" => ctx'[Master][p.id].st # "none"
    /\ p.type = "ACTIVE_MASTER" => ctx'[Slave][p.id].st # "none"

TakesNext(e, c) ==
    /\ task'[e] = "run" /\ ctx'[e][c].st = "live"
    /\ e = "host" => chan' \in {"up", "asked"}

LinkStep(e) ==
    \/ link'[e] = link[e]
    \/ up' /\ \E ps \in Seq(Packets(Conns, Most)) :
                 link'[e] = link[e] \o ps /\ \A j \in DOMAIN ps : Sends(ps[j])
    \/ /\ link[e] # <<>> /\ link'[e] = Tail(link[e])
       /\ Head(link[e]).type = "DATA" => ~TakesNext(e, Head(link[e]).id)
    \/ ~up' /\ link'[e] = <<>>

TaskStep(e) ==
    \/ task'[e] = task[e]
    \/ task[e] = "run" /\ task'[e] = "told"
    \/ task[e] = "told" /\ task'[e] = "stopped" /\ \A i \in Ids : ctx'[e][i].st # "live"
    \/ task[e] = "stopped" /\ task'[e] = "gone" /\ \A i \in Ids : ctx'[e][i].st \in {"none", "deleted"}
    \/ /\ e = Slave /\ task[e] = "none" /\ task'[e] = "run"
       /\ link[e] # <<>> /\ Head(link[e]).type = "WAKEUP" /\ link'[e] = Tail(link[e])

Counts(x) == x.st \notin {"none", "deleted"}
CountStep(e) ==
    \/ /\ refCount'[e] = refCount[e]
       /\ \A i \in Ids : Counts(ctx'[e][i]) <=> Counts(ctx[e][i])
    \/ /\ refCount'[e] = refCount[e] + 1
       /\ \E i \in Ids : /\ ~Counts(ctx[e][i]) /\ Counts(ctx'[e][i])
                         /\ \A k \in Ids \ {i} : ctx'[e][k] = ctx[e][k]
    \/ /\ refCount'[e] = IF refCount[e] > 0 THEN refCount[e] - 1 ELSE 0
       /\ \E i \in Ids : /\ Counts(ctx[e][i]) /\ ~Counts(ctx'[e][i])
                         /\ \A k \in Ids \ {i} : ctx'[e][k] = ctx[e][k]

PendingStep(e, c) ==
    \/ pending'[e][c] = pending[e][c]
    \/ pending'[e][c] = <<>> /\ ctx'[e][c].st # "live"

TypesStep ==
    /\ sc' = sc /\ said' = said /\ heard' = heard
    /\ ctx' \in [Ends -> [Ids -> Context]]
    /\ pending' \in [Ends -> [Conns -> Seq(1..Most)]]
    /\ refCount' \in [Ends -> Nat]
    /\ task' \in [Ends -> {"none", "run", "told", "stopped", "gone"}]
    /\ link' \in [Ends -> Seq(Packets(Conns, Most))]
    /\ up' \in BOOLEAN /\ listed' \in BOOLEAN
    /\ chan' \in {"up", "asked", "dead", "gone"}

Quiet ==
    /\ TypesStep
    /\ \A e \in Ends : /\ LinkStep(e) /\ TaskStep(e) /\ CountStep(e)
                       /\ \A i \in Ids : CtxStep(e, i)
                       /\ \A c \in Conns : PendingStep(e, c)
    /\ up' => up
    /\ ~up' => \A e \in Ends : link'[e] = <<>> /\ task'[e] # "run"
    /\ chan' \in {"up", "asked"} => chan \in {"up", "asked"}

LEMMA SameNames == sc' = sc => Conns' = Conns /\ Ids' = Ids /\ Master' = Master /\ Slave' = Slave /\ Most' = Most
  BY DEF Conns, Ids, Master, Slave, Most

LEMMA CountedKeeps ==
    ASSUME TypeOK, Counted, Ids' = Ids, ctx' \in [Ends -> [Ids -> Context]], \A e \in Ends : CountStep(e)
    PROVE  Counted' /\ \A e \in Ends : refCount'[e] \in 0..Cardinality(Ids)
<1> SUFFICES ASSUME NEW e \in Ends
             PROVE  refCount'[e] = Cardinality(Busy(e)') /\ refCount'[e] \in 0..Cardinality(Ids)
  BY DEF Counted
<1>1. /\ Busy(e) = {i \in Ids : Counts(ctx[e][i])} /\ Busy(e)' = {i \in Ids : Counts(ctx'[e][i])}
  BY DEF Busy, Counts
<1>2. IsFiniteSet(Ids) /\ refCount[e] = Cardinality(Busy(e))
  BY ScenarioFacts DEF Counted
<1>3. IsFiniteSet(Busy(e)) /\ IsFiniteSet(Busy(e)') /\ Cardinality(Busy(e)') \in 0..Cardinality(Ids)
  <2>1. Busy(e) \subseteq Ids /\ Busy(e)' \subseteq Ids
    BY <1>1
  <2> QED
    BY <1>2, <2>1, FS_Subset, FS_CardinalityType
<1>4. Cardinality(Busy(e)) \in Nat
  BY <1>3, FS_CardinalityType
<1>5. CASE refCount'[e] = refCount[e] /\ \A i \in Ids : Counts(ctx'[e][i]) <=> Counts(ctx[e][i])
  <2>1. Busy(e)' = Busy(e)
    BY <1>1, <1>5
  <2> QED
    BY <1>2, <1>3, <1>5, <2>1
<1>6. ASSUME refCount'[e] = refCount[e] + 1, NEW i \in Ids, ~Counts(ctx[e][i]), Counts(ctx'[e][i]),
             \A k \in Ids \ {i} : ctx'[e][k] = ctx[e][k]
      PROVE  refCount'[e] = Cardinality(Busy(e)')
  <2>1. Busy(e)' = Busy(e) \cup {i} /\ i \notin Busy(e)
    BY <1>1, <1>6
  <2> QED
    BY <1>2, <1>3, <1>6, <2>1, FS_AddElement
<1>7. ASSUME refCount'[e] = (IF refCount[e] > 0 THEN refCount[e] - 1 ELSE 0),
             NEW i \in Ids, Counts(ctx[e][i]), ~Counts(ctx'[e][i]),
             \A k \in Ids \ {i} : ctx'[e][k] = ctx[e][k]
      PROVE  refCount'[e] = Cardinality(Busy(e)')
  <2>1. Busy(e)' = Busy(e) \ {i} /\ i \in Busy(e)
    BY <1>1, <1>7
  <2>2. Cardinality(Busy(e)') = Cardinality(Busy(e)) - 1
    BY <1>3, <2>1, FS_RemoveElement
  <2>3. Cardinality(Busy(e)') \in Nat
    BY <1>3, FS_CardinalityType
  <2> QED
    BY <1>2, <1>4, <1>7, <2>2, <2>3
<1> QED
  BY <1>3, <1>5, <1>6, <1>7 DEF CountStep

LEMMA QuietTypes == ASSUME IInv, Quiet PROVE TypeOK' /\ Counted'
<1>1. TypeOK /\ Counted /\ TypesStep /\ \A e \in Ends : CountStep(e)
  BY DEF IInv, Quiet
<1>2. Conns' = Conns /\ Ids' = Ids /\ Most' = Most
  BY <1>1, SameNames DEF TypesStep
<1>3. Counted' /\ \A e \in Ends : refCount'[e] \in 0..Cardinality(Ids)
  BY <1>1, <1>2, CountedKeeps DEF TypesStep
<1>4. refCount' \in [Ends -> 0..Cardinality(Ids)]
  BY <1>1, <1>3 DEF TypesStep
<1> QED
  BY <1>1, <1>2, <1>3, <1>4 DEF TypesStep, TypeOK

LEMMA QuietContexts == ASSUME IInv, Quiet PROVE Made' /\ Begun' /\ Stopped'
<1>1. TypeOK /\ TypesStep /\ Made /\ Begun /\ Stopped /\ Tasks
  BY DEF IInv, Quiet
<1>2. /\ Conns' = Conns /\ Ids' = Ids /\ Master' = Master /\ Slave' = Slave
      /\ Master \in Ends /\ Slave \in Ends /\ Slave # Master /\ Conns \subseteq Ids
  BY <1>1, SameNames, ScenarioFacts, EndFacts DEF TypesStep
<1>3. \A e \in Ends : /\ TaskStep(e) /\ \A i \in Ids : CtxStep(e, i)
                      /\ \A c \in Conns : PendingStep(e, c)
  BY DEF Quiet
<1>4. Made'
  BY <1>1, <1>2, <1>3 DEF Made, CtxStep, NoCtx
<1>5. Begun'
  <2> SUFFICES ASSUME NEW c \in Conns
               PROVE  /\ ctx'[Master][c].st = "none" => ctx'[Slave][c].st = "none"
                      /\ ctx'[Slave][c].st = "none" =>
                            /\ ~ctx'[Master][c].ready
                            /\ \A e \in Ends : said'[e][c] = 0 /\ heard'[e][c] = <<>> /\ pending'[e][c] = <<>>
    BY <1>2 DEF Begun
  <2>1. CtxStep(Master, c) /\ CtxStep(Slave, c) /\ \A e \in Ends : PendingStep(e, c)
    BY <1>2, <1>3
  <2>2. ctx'[Master][c].st = "none" => ctx'[Slave][c].st = "none"
    BY <1>1, <1>2, <2>1 DEF CtxStep, Begun
  <2>3. ctx'[Slave][c].st = "none" => ctx[Slave][c].st = "none"
    BY <2>1 DEF CtxStep
  <2>4. ctx[Slave][c].st = "none" => ~ctx[Master][c].ready
    BY <1>1 DEF Begun
  <2>5. ctx'[Slave][c].st = "none" => ~ctx'[Master][c].ready
    BY <1>2, <2>1, <2>3, <2>4 DEF CtxStep
  <2>6. ctx'[Slave][c].st = "none" => \A e \in Ends : said'[e][c] = 0 /\ heard'[e][c] = <<>> /\ pending'[e][c] = <<>>
    BY <1>1, <2>1, <2>3 DEF Begun, PendingStep, TypesStep
  <2> QED
    BY <2>2, <2>5, <2>6
<1>6. Stopped'
  <2> SUFFICES ASSUME NEW e \in Ends
               PROVE  /\ task'[e] \in {"stopped", "gone"} => \A i \in Ids : ctx'[e][i].st # "live"
                      /\ task'[e] = "gone" => \A i \in Ids : ctx'[e][i].st \in {"none", "deleted"}
    BY <1>2 DEF Stopped
  <2>1. TaskStep(e) /\ \A i \in Ids : CtxStep(e, i)
    BY <1>3
  <2>2. task[e] \in {"stopped", "gone"} => \A i \in Ids : ctx'[e][i].st # "live"
    BY <1>1, <2>1 DEF Stopped, CtxStep
  <2>3. task[e] = "gone" => \A i \in Ids : ctx'[e][i].st \in {"none", "deleted"}
    BY <1>1, <2>1 DEF Stopped, CtxStep
  <2>4. task'[e] \in {"stopped", "gone"} => \A i \in Ids : ctx'[e][i].st # "live"
    BY <2>1, <2>2 DEF TaskStep
  <2>5. task'[e] = "gone" => \A i \in Ids : ctx'[e][i].st \in {"none", "deleted"}
    BY <2>1, <2>3 DEF TaskStep
  <2> QED
    BY <2>4, <2>5
<1> QED
  BY <1>4, <1>5, <1>6

LEMMA TailFacts ==
    ASSUME NEW S, NEW l \in Seq(S), l # <<>>
    PROVE  /\ Tail(l) \in Seq(S) /\ Head(l) \in S /\ Head(l) = l[1] /\ 1 \in DOMAIN l
           /\ \A j \in DOMAIN Tail(l) : Tail(l)[j] = l[j + 1] /\ j + 1 \in DOMAIN l /\ j + 1 # 1
  OBVIOUS

LEMMA ConcatFacts ==
    ASSUME NEW S, NEW l \in Seq(S), NEW ps \in Seq(S)
    PROVE  /\ l \o ps \in Seq(S)
           /\ \A j \in DOMAIN (l \o ps) :
                 \/ j \in DOMAIN l /\ (l \o ps)[j] = l[j]
                 \/ j - Len(l) \in DOMAIN ps /\ (l \o ps)[j] = ps[j - Len(l)]
  OBVIOUS

LEMMA QueuedType ==
    ASSUME TypeOK, NEW e \in Ends, NEW c \in Conns
    PROVE  /\ Queued(e, c) \in Nat /\ Len(heard[e][c]) \in Nat /\ Len(pending[e][c]) \in Nat
           /\ heard[e][c] \in Seq(1..Most) /\ pending[e][c] \in Seq(1..Most)
<1>1. heard[e][c] \in Seq(1..Most) /\ pending[e][c] \in Seq(1..Most)
  BY DEF TypeOK
<1>2. Len(heard[e][c]) \in Nat /\ Len(pending[e][c]) \in Nat
  BY <1>1
<1>3. ASSUME NEW a \in Nat, NEW b \in Nat
      PROVE  a + b \in Nat
  OBVIOUS
<1> QED
  BY <1>1, <1>2, <1>3 DEF Queued

LEMMA QuietTasks == ASSUME IInv, Quiet PROVE Tasks' /\ Links'
<1>1. TypeOK /\ TypesStep /\ Tasks /\ Links
  BY DEF IInv, Quiet
<1>2. /\ Conns' = Conns /\ Ids' = Ids /\ Master' = Master /\ Slave' = Slave
      /\ Master \in Ends /\ Slave \in Ends /\ Slave # Master /\ Conns \subseteq Ids
  BY <1>1, SameNames, ScenarioFacts, EndFacts DEF TypesStep
<1>3. \A e \in Ends : LinkStep(e) /\ TaskStep(e) /\ \A i \in Ids : CtxStep(e, i)
  BY DEF Quiet
<1>4. ~up' => \A e \in Ends : link'[e] = <<>> /\ task'[e] # "run"
  BY DEF Quiet
<1>5. task'[Master] # "none"
  BY <1>1, <1>2, <1>3 DEF Tasks, TaskStep
<1>6. task'[Slave] = "none" => task[Slave] = "none" /\ \A i \in Ids : ctx'[Slave][i].st = "none"
  BY <1>1, <1>2, <1>3 DEF Tasks, TaskStep, CtxStep
<1>7. Tasks'
  BY <1>2, <1>4, <1>5, <1>6 DEF Tasks
<1>8. Links'
  <2> DEFINE S == Packets(Conns, Most)
             Good(e, p, j) ==
                /\ p.type = "WAKEUP" => e = Slave /\ j = 1 /\ task'[Slave] = "none"
                /\ p.type = "ACTIVE_SLAVE" => ctx'[Master][p.id].st # "none"
                /\ p.type \in {"ACTIVE_MASTER", "DATA"} => ctx'[Slave][p.id].st # "none"
  <2> SUFFICES ASSUME NEW e \in Ends, NEW j \in DOMAIN link'[e]
               PROVE  Good(e, link'[e][j], j)
    BY <1>2 DEF Links, Proper
  <2>1. link[e] \in Seq(S) /\ LinkStep(e) /\ TaskStep(Slave)
    BY <1>1, <1>2, <1>3 DEF TypeOK
  <2> HIDE DEF S
  <2>2. \A i \in Conns : /\ ctx[Master][i].st # "none" => ctx'[Master][i].st # "none"
                         /\ ctx[Slave][i].st # "none" => ctx'[Slave][i].st # "none"
    BY <1>2, <1>3 DEF CtxStep
  <2>3. \A k \in DOMAIN link[e] : Proper(e, link[e][k], k) /\ link[e][k] \in S
    BY <1>1, <2>1 DEF Links
  <2>4. \A p \in S : p.type \in {"ACTIVE_SLAVE", "ACTIVE_MASTER", "DATA"} => p.id \in Conns
    BY DEF S, Packets
  <2>5. CASE link'[e] = link[e]
    <3>1. Proper(e, link[e][j], j) /\ link[e][j] \in S /\ link'[e][j] = link[e][j] /\ j \in DOMAIN link[e]
      BY <2>3, <2>5
    <3>2. task'[Slave] = "none" \/ link[e][j].type # "WAKEUP"
      <4>1. CASE task'[Slave] = task[Slave]
        BY <3>1, <4>1 DEF Proper
      <4>2. CASE task'[Slave] # task[Slave] /\ link[e][j].type = "WAKEUP"
        <5>1. e = Slave /\ task[Slave] = "none" /\ j = 1
          BY <3>1, <4>2 DEF Proper
        <5>2. link[e] # <<>> /\ link'[e] = Tail(link[e])
          BY <2>1, <4>2, <5>1 DEF TaskStep
        <5>3. Len(Tail(link[e])) # Len(link[e])
          BY <2>1, <5>2
        <5> QED
          BY <2>5, <5>2, <5>3
      <4> QED
        BY <4>1, <4>2
    <3> QED
      BY <2>2, <2>4, <3>1, <3>2 DEF Proper
  <2>6. ASSUME up', NEW ps \in Seq(S), link'[e] = link[e] \o ps, \A k \in DOMAIN ps : Sends(ps[k])
        PROVE  Good(e, link'[e][j], j)
    <3>1. CASE j \in DOMAIN link[e] /\ link'[e][j] = link[e][j]
      <4>1. Proper(e, link[e][j], j) /\ link[e][j] \in S
        BY <2>3, <3>1
      <4>2. task'[Slave] = "none" \/ link[e][j].type # "WAKEUP"
        <5>1. CASE task'[Slave] = task[Slave]
          BY <4>1, <5>1 DEF Proper
        <5>2. CASE task'[Slave] # task[Slave] /\ link[e][j].type = "WAKEUP"
          <6>1. e = Slave /\ task[Slave] = "none" /\ j = 1
            BY <4>1, <5>2 DEF Proper
          <6>2. link[e] # <<>> /\ link'[e] = Tail(link[e])
            BY <2>1, <5>2, <6>1 DEF TaskStep
          <6>3. /\ Len(Tail(link[e])) = Len(link[e]) - 1
                /\ Len(link[e] \o ps) = Len(link[e]) + Len(ps)
            <7>1. link[e] \in Seq(S) /\ ps \in Seq(S) /\ link[e] # <<>>
              BY <2>1, <2>6, <6>2
            <7> QED
              BY ONLY <7>1
          <6>4. Len(ps) \in Nat /\ Len(link[e]) \in Nat
            BY <2>1, <2>6
          <6> QED
            BY <2>6, <6>2, <6>3, <6>4
        <5> QED
          BY <5>1, <5>2
      <4> QED
        BY <2>2, <2>4, <3>1, <4>1, <4>2 DEF Proper
    <3>2. CASE j - Len(link[e]) \in DOMAIN ps /\ link'[e][j] = ps[j - Len(link[e])]
      <4>1. Sends(ps[j - Len(link[e])])
        BY <2>6, <3>2
      <4> QED
        BY <3>2, <4>1 DEF Sends
    <3>3. link[e] \in Seq(S) /\ ps \in Seq(S) /\ j \in DOMAIN (link[e] \o ps)
      BY <2>1, <2>6
    <3>4. \/ j \in DOMAIN link[e] /\ (link[e] \o ps)[j] = link[e][j]
          \/ j - Len(link[e]) \in DOMAIN ps /\ (link[e] \o ps)[j] = ps[j - Len(link[e])]
      BY ONLY <3>3, ConcatFacts
    <3> QED
      BY <2>6, <3>1, <3>2, <3>4
  <2>7. CASE link[e] # <<>> /\ link'[e] = Tail(link[e])
    <3>1. link'[e][j] = link[e][j + 1] /\ j + 1 \in DOMAIN link[e] /\ j + 1 # 1
      BY <2>1, <2>7, TailFacts
    <3>2. Proper(e, link[e][j + 1], j + 1) /\ link[e][j + 1] \in S
      BY <2>3, <3>1
    <3>3. link'[e][j].type # "WAKEUP"
      BY <3>1, <3>2 DEF Proper
    <3> QED
      BY <2>2, <2>4, <3>1, <3>2, <3>3 DEF Proper
  <2>8. CASE ~up' /\ link'[e] = <<>>
    BY <2>8
  <2> QED
    BY <2>1, <2>5, <2>6, <2>7, <2>8 DEF LinkStep, S
<1> QED
  BY <1>7, <1>8

LEMMA QuietStreams == ASSUME IInv, Quiet PROVE Ordered' /\ Flowing'
<1>1. TypeOK /\ TypesStep /\ Made /\ Begun /\ Tasks /\ Links /\ Ordered /\ Flowing
  BY DEF IInv, Quiet
<1>2. /\ Conns' = Conns /\ Ids' = Ids /\ Master' = Master /\ Slave' = Slave
      /\ Master \in Ends /\ Slave \in Ends /\ Slave # Master /\ Conns \subseteq Ids
      /\ Slave = Other(Master) /\ Master = Other(Slave)
  BY <1>1, SameNames, ScenarioFacts, EndFacts DEF TypesStep
<1>3. \A e \in Ends : /\ LinkStep(e) /\ TaskStep(e) /\ \A i \in Ids : CtxStep(e, i)
                      /\ \A c \in Conns : PendingStep(e, c)
  BY DEF Quiet
<1>4. chan' \in {"up", "asked"} => chan \in {"up", "asked"}
  BY DEF Quiet
<1>5. Ordered'
  <2> SUFFICES ASSUME NEW e \in Ends, NEW c \in Conns
               PROVE  /\ \A k \in DOMAIN heard'[e][c] : heard'[e][c][k] = k
                      /\ \A k \in DOMAIN pending'[e][c] : pending'[e][c][k] = Len(heard'[e][c]) + k
    BY <1>2 DEF Ordered
  <2>1. heard' = heard /\ PendingStep(e, c)
    BY <1>1, <1>3 DEF TypesStep
  <2>2. /\ \A k \in DOMAIN heard[e][c] : heard[e][c][k] = k
        /\ \A k \in DOMAIN pending[e][c] : pending[e][c][k] = Len(heard[e][c]) + k
    BY <1>1 DEF Ordered
  <2>3. DOMAIN <<>> = {}
    OBVIOUS
  <2> QED
    BY <2>1, <2>2, <2>3 DEF PendingStep
<1>6. Flowing'
  <2> SUFFICES ASSUME NEW e \in Ends, NEW c \in Conns, Takes(e, c)'
               PROVE  Carries(link'[e], c, Queued(e, c)', said'[Other(e)][c])
    BY <1>2 DEF Flowing
  <2> DEFINE S == Packets(Conns, Most)
             n == Queued(e, c)
             m == said[Other(e)][c]
  <2>0. Other(e) \in Ends /\ (e = Master \/ e = Slave)
    BY <1>2, EndFacts
  <2>1. /\ link[e] \in Seq(S) /\ LinkStep(e) /\ TaskStep(e) /\ CtxStep(e, c) /\ PendingStep(e, c)
        /\ heard[e][c] \in Seq(1..Most) /\ pending[e][c] \in Seq(1..Most) /\ m \in Nat
    <3>1. LinkStep(e) /\ TaskStep(e) /\ CtxStep(e, c) /\ PendingStep(e, c)
      BY <1>2, <1>3
    <3> HIDE DEF S
    <3>2. link \in [Ends -> Seq(S)] /\ said \in [Ends -> [Conns -> 0..Most]]
          /\ pending \in [Ends -> [Conns -> Seq(1..Most)]] /\ heard \in [Ends -> [Conns -> Seq(1..Most)]]
      BY <1>1 DEF TypeOK, S
    <3>3. m \in 0..Most
      BY <2>0, <3>2
    <3> QED
      BY <3>1, <3>2, <3>3
  <2>2. n \in Nat
    BY <1>1, QueuedType
  <2>3. Queued(e, c)' = n /\ said'[Other(e)][c] = m
    BY <1>1, <2>1 DEF Queued, PendingStep, Takes, TypesStep
  <2> HIDE DEF S, n, m
  <2>4. Carries(link[e], c, n, m)
    <3>1. CASE ctx[e][c].st = "none"
      <4>1. ctx[Slave][c].st = "none"
        BY <1>1, <2>0, <3>1 DEF Begun
      <4>2. n = 0 /\ m = 0
        <5>1. heard[e][c] = <<>> /\ pending[e][c] = <<>> /\ m = 0
          BY <1>1, <2>0, <4>1 DEF Begun, m
        <5>2. Len(<<>>) = 0
          OBVIOUS
        <5> QED
          BY <5>1, <5>2 DEF n, Queued
      <4>3. \A j \in DOMAIN link[e] : ~IsData(link[e][j], c)
        BY <1>1, <4>1 DEF Links, Proper, IsData
      <4> QED
        BY <4>2, <4>3, NoneCarried
    <3>2. CASE ctx[e][c].st # "none"
      <4>1. ctx[e][c].st = "live"
        BY <2>1, <3>2 DEF CtxStep, Takes
      <4>2. task[e] = "run"
        BY <1>1, <2>0, <2>1, <3>2, <1>2 DEF TaskStep, Takes, Tasks
      <4>3. Takes(e, c)
        BY <1>4, <4>1, <4>2 DEF Takes
      <4> QED
        BY <1>1, <4>3 DEF Flowing, n, m
    <3> QED
      BY <3>1, <3>2
  <2>5. CASE link'[e] = link[e]
    BY <2>3, <2>4, <2>5
  <2>6. ASSUME NEW ps \in Seq(S), link'[e] = link[e] \o ps, \A k \in DOMAIN ps : Sends(ps[k])
        PROVE  Carries(link'[e], c, n, m)
    <3>1. \A k \in DOMAIN ps : ~IsData(ps[k], c)
      BY <2>6 DEF Sends, IsData
    <3> QED
      BY <2>1, <2>2, <2>4, <2>6, <3>1, CarriesMore
  <2>7. CASE link[e] # <<>> /\ link'[e] = Tail(link[e]) /\ (Head(link[e]).type = "DATA" => ~TakesNext(e, Head(link[e]).id))
    <3>1. ASSUME IsData(Head(link[e]), c)
          PROVE  FALSE
      <4>1. Head(link[e]).id = c /\ ~TakesNext(e, Head(link[e]).id)
        BY <2>7, <3>1 DEF IsData
      <4>2. TakesNext(e, c)
        BY DEF Takes, TakesNext
      <4> QED
        BY <4>1, <4>2
    <3> QED
      BY <2>1, <2>2, <2>3, <2>4, <2>7, <3>1, CarriesTail
  <2>8. CASE ~up'
    BY <2>8 DEF Quiet, Takes
  <2> QED
    BY <2>1, <2>3, <2>5, <2>6, <2>7, <2>8 DEF LinkStep, S
<1> QED
  BY <1>5, <1>6

\* Such a step keeps the invariant.
LEMMA QuietKeeps == ASSUME IInv, Quiet PROVE IInv'
  BY QuietTypes, QuietContexts, QuietTasks, QuietStreams DEF IInv

--------------------------------------------------------------------------------
(* The parts of such a step. *)

LEMMA Collect ==
    ASSUME IInv, sc' = sc, said' = said, heard' = heard, up' = up, listed' \in BOOLEAN,
           chan' \in {"up", "asked", "dead", "gone"},
           chan' \in {"up", "asked"} => chan \in {"up", "asked"},
           pending' \in [Ends -> [Conns -> Seq(1..Most)]],
           \A e \in Ends, c \in Conns : PendingStep(e, c),
           ctx' \in [Ends -> [Ids -> Context]], refCount' \in [Ends -> Nat],
           \A e \in Ends : CountStep(e) /\ \A i \in Ids : CtxStep(e, i),
           link' \in [Ends -> Seq(Packets(Conns, Most))], \A e \in Ends : LinkStep(e),
           task' \in [Ends -> {"none", "run", "told", "stopped", "gone"}],
           \A e \in Ends : TaskStep(e)
    PROVE  IInv'
<1>1. up' \in BOOLEAN
  BY Zenon DEF IInv, TypeOK
<1>2. TypesStep
  BY <1>1 DEF TypesStep
<1>3. ~up' => \A e \in Ends : link'[e] = <<>> /\ task'[e] # "run"
  BY DEF IInv, Tasks, LinkStep, TaskStep
<1>4. Quiet
  BY <1>2, <1>3 DEF Quiet
<1> QED
  BY <1>4, QuietKeeps

LEMMA SameContexts ==
    ASSUME TypeOK, ctx' = ctx, refCount' = refCount
    PROVE  /\ ctx' \in [Ends -> [Ids -> Context]] /\ refCount' \in [Ends -> Nat]
           /\ \A e \in Ends : CountStep(e) /\ \A i \in Ids : CtxStep(e, i)
<1>1. Cardinality(Ids) \in Nat
  BY ScenarioFacts, FS_CardinalityType
<1> QED
  BY <1>1 DEF TypeOK, CountStep, CtxStep

\* Context i of end e becomes y: it goes on, is made, or is deleted.
GoesOn(e, i, y) ==
    /\ ctx[e][i].st = "none" => y = ctx[e][i]
    /\ ctx[e][i].st = "deleted" => y.st = "deleted"
    /\ Counts(y) <=> Counts(ctx[e][i])
    /\ y.st = "live" => ctx[e][i].st = "live" /\ y.inMap
    /\ e = Master /\ i \in Conns /\ y.ready => ctx[e][i].ready \/ ctx[Slave][i].st # "none"
    /\ refCount' = refCount
IsMade(e, i, y) ==
    /\ ctx[e][i].st = "none" /\ Counts(y) /\ y.inMap /\ task[e] \in {"run", "told"}
    /\ e = Master => ~y.ready
    /\ e = Slave /\ i \in Conns => ctx[Master][i].st # "none"
    /\ refCount' = [refCount EXCEPT ![e] = @ + 1]
IsDeleted(e, i, y) ==
    /\ ctx[e][i].st = "next" /\ y.st = "deleted" /\ y.ready = ctx[e][i].ready
    /\ refCount' = [refCount EXCEPT ![e] = IF @ > 0 THEN @ - 1 ELSE 0]

LEMMA OneContext ==
    ASSUME TypeOK, NEW e \in Ends, NEW i \in Ids, NEW y \in Context, ctx' = [ctx EXCEPT ![e][i] = y],
           GoesOn(e, i, y) \/ IsMade(e, i, y) \/ IsDeleted(e, i, y)
    PROVE  /\ ctx' \in [Ends -> [Ids -> Context]] /\ refCount' \in [Ends -> Nat]
           /\ \A f \in Ends : CountStep(f) /\ \A k \in Ids : CtxStep(f, k)
           /\ ctx'[e][i] = y
           /\ \A f \in Ends, k \in Ids : f # e \/ k # i => ctx'[f][k] = ctx[f][k]
<1>1. ctx \in [Ends -> [Ids -> Context]] /\ refCount \in [Ends -> Nat]
  <2>1. Cardinality(Ids) \in Nat
    BY ScenarioFacts, FS_CardinalityType
  <2> QED
    BY <2>1 DEF TypeOK
<1>2. /\ ctx' \in [Ends -> [Ids -> Context]] /\ ctx'[e][i] = y
      /\ \A f \in Ends, k \in Ids : f # e \/ k # i => ctx'[f][k] = ctx[f][k]
  BY <1>1
<1>3. refCount' \in [Ends -> Nat]
  BY <1>1 DEF GoesOn, IsMade, IsDeleted
<1>4. \A f \in Ends : f # e => CountStep(f) /\ \A k \in Ids : CtxStep(f, k)
  BY <1>1, <1>2 DEF GoesOn, IsMade, IsDeleted, CountStep, CtxStep
<1>5. \A k \in Ids : k # i => CtxStep(e, k)
  BY <1>2 DEF CtxStep
<1>6. CASE GoesOn(e, i, y)
  <2>1. CountStep(e)
    BY <1>2, <1>6 DEF GoesOn, CountStep
  <2>2. CtxStep(e, i)
    BY <1>2, <1>6 DEF GoesOn, CtxStep, Counts
  <2> QED
    BY <1>2, <1>3, <1>4, <1>5, <2>1, <2>2
<1>7. CASE IsMade(e, i, y)
  <2>1. CountStep(e)
    BY <1>1, <1>2, <1>7 DEF IsMade, CountStep, Counts
  <2>2. CtxStep(e, i)
    BY <1>2, <1>7 DEF IsMade, CtxStep, Counts
  <2> QED
    BY <1>2, <1>3, <1>4, <1>5, <2>1, <2>2
<1>8. CASE IsDeleted(e, i, y)
  <2>1. CountStep(e)
    BY <1>1, <1>2, <1>8 DEF IsDeleted, CountStep, Counts
  <2>2. CtxStep(e, i)
    BY <1>2, <1>8 DEF IsDeleted, CtxStep
  <2> QED
    BY <1>2, <1>3, <1>4, <1>5, <2>1, <2>2
<1> QED
  BY <1>6, <1>7, <1>8

LEMMA FreedFacts ==
    ASSUME NEW x \in Context
    PROVE  /\ Freed(x) \in Context /\ Freed(x).st # "live" /\ Freed(x).ready = x.ready
           /\ Freed(x).inMap = x.inMap /\ (Counts(Freed(x)) <=> Counts(x))
           /\ x.st # "live" => Freed(x) = x
  BY DEF Freed, Context, Counts

LEMMA MallocedFacts ==
    ASSUME NEW io \in {"none", "made", "open"}
    PROVE  /\ Malloced(io) \in Context /\ Malloced(io).st = "live" /\ Malloced(io).inMap
           /\ ~Malloced(io).ready /\ Malloced(io).io = io
  BY DEF Malloced, Context

\* Packets that may be sent.
GoodSeq(ps) == ps \in Seq(Packets(Conns, Most)) /\ \A j \in DOMAIN ps : Sends(ps[j])

LEMMA GoodNone == GoodSeq(<<>>)
  BY DEF GoodSeq

LEMMA GoodOne ==
    ASSUME NEW p \in Packets(Conns, Most), Sends(p)
    PROVE  GoodSeq(<<p>>)
  BY DEF GoodSeq

LEMMA GoodTwo ==
    ASSUME NEW a, NEW b, GoodSeq(a), GoodSeq(b)
    PROVE  GoodSeq(a \o b)
<1> DEFINE S == Packets(Conns, Most)
<1>1. a \in Seq(S) /\ b \in Seq(S)
  BY DEF GoodSeq
<1> HIDE DEF S
<1>2. a \o b \in Seq(S)
  BY <1>1
<1>3. \A j \in DOMAIN (a \o b) : \/ j \in DOMAIN a /\ (a \o b)[j] = a[j]
                                 \/ j - Len(a) \in DOMAIN b /\ (a \o b)[j] = b[j - Len(a)]
  BY <1>1, ConcatFacts
<1> QED
  BY <1>2, <1>3 DEF GoodSeq, S

LEMMA GoodPlain ==
    /\ \A n \in {0, 1} : GoodSeq(<<Close(n)>>)
    /\ GoodSeq(<<Success>>) /\ GoodSeq(<<Check>>) /\ GoodSeq(<<CheckResult>>)
    /\ \A i \in Ids : GoodSeq(<<FreeCtx(i)>>)
    /\ GoodSeq(Finish)
<1>1. ASSUME NEW n \in {0, 1}
      PROVE  GoodSeq(<<Close(n)>>)
  <2>1. Close(n) \in Packets(Conns, Most) /\ Sends(Close(n))
    BY DEF Close, Packets, Sends
  <2> QED
    BY <2>1, GoodOne
<1>2. GoodSeq(<<Success>>)
  <2>1. Success \in Packets(Conns, Most) /\ Sends(Success)
    BY DEF Success, Packets, Sends
  <2> QED
    BY <2>1, GoodOne
<1>3. GoodSeq(<<Check>>) /\ GoodSeq(<<CheckResult>>)
  <2>1. Check \in Packets(Conns, Most) /\ Sends(Check)
    BY DEF Check, Packets, Sends
  <2>2. CheckResult \in Packets(Conns, Most) /\ Sends(CheckResult)
    BY DEF CheckResult, Packets, Sends
  <2> QED
    BY <2>1, <2>2, GoodOne
<1>4. ASSUME NEW i \in Ids
      PROVE  GoodSeq(<<FreeCtx(i)>>)
  <2>1. FreeCtx(i) \in Packets(Conns, Most) /\ Sends(FreeCtx(i))
    BY DEF FreeCtx, Packets, Sends, Ids
  <2> QED
    BY <2>1, GoodOne
<1> QED
  BY <1>1, <1>2, <1>3, <1>4 DEF Finish

LEMMA NoticeGood ==
    ASSUME NEW e \in Ends, NEW i \in Ids
    PROVE  GoodSeq(Notice(e, i))
  BY GoodNone, GoodPlain DEF Notice

LEMMA Sending ==
    ASSUME IInv, NEW e \in Ends, NEW ps, GoodSeq(ps), up' = up, link' = Sent(link, e, ps)
    PROVE  link' \in [Ends -> Seq(Packets(Conns, Most))] /\ \A f \in Ends : LinkStep(f)
<1> DEFINE S == Packets(Conns, Most)
<1>1. link \in [Ends -> Seq(S)] /\ ps \in Seq(S) /\ \A j \in DOMAIN ps : Sends(ps[j])
  BY DEF IInv, TypeOK, GoodSeq
<1>2. Other(e) \in Ends /\ Other(e) # e /\ Ends = {e, Other(e)}
  BY EndFacts
<1> HIDE DEF S
<1>3. CASE up
  <2>1. link' = [link EXCEPT ![Other(e)] = @ \o ps]
    BY <1>3 DEF Sent
  <2>2. link[Other(e)] \o ps \in Seq(S)
    BY <1>1, <1>2
  <2>3. link' \in [Ends -> Seq(S)] /\ link'[e] = link[e] /\ link'[Other(e)] = link[Other(e)] \o ps
    BY <1>1, <1>2, <2>1, <2>2
  <2>4. LinkStep(e)
    BY <2>3 DEF LinkStep
  <2>5. LinkStep(Other(e))
    BY <1>1, <1>3, <2>3 DEF LinkStep, S
  <2> QED
    BY <1>2, <2>3, <2>4, <2>5 DEF S
<1>4. CASE ~up
  BY <1>1, <1>4 DEF Sent, LinkStep, S
<1> QED
  BY <1>3, <1>4

LEMMA Answering ==
    ASSUME IInv, NEW e \in Ends, NEW ps, GoodSeq(ps), up' = up, link[e] # <<>>, Answer(e, ps),
           Head(link[e]).type = "DATA" => ~TakesNext(e, Head(link[e]).id)
    PROVE  /\ link' \in [Ends -> Seq(Packets(Conns, Most))] /\ \A f \in Ends : LinkStep(f)
           /\ link'[e] = Tail(link[e])
<1> DEFINE S == Packets(Conns, Most)
<1>1. link \in [Ends -> Seq(S)] /\ ps \in Seq(S) /\ \A j \in DOMAIN ps : Sends(ps[j])
  BY DEF IInv, TypeOK, GoodSeq
<1>2. Other(e) \in Ends /\ Other(e) # e /\ Ends = {e, Other(e)}
  BY EndFacts
<1>3. up
  BY DEF IInv, Tasks
<1> HIDE DEF S
<1> DEFINE l == [link EXCEPT ![e] = Tail(@)]
<1>4. link' = [l EXCEPT ![Other(e)] = @ \o ps]
  BY <1>3 DEF Answer, Sent
<1>5. l \in [Ends -> Seq(S)] /\ l[e] = Tail(link[e]) /\ l[Other(e)] = link[Other(e)]
  <2>1. Tail(link[e]) \in Seq(S)
    BY <1>1
  <2> QED
    BY <1>1, <1>2, <2>1
<1> HIDE DEF l
<1>6. l[Other(e)] \o ps \in Seq(S)
  BY <1>1, <1>2, <1>5
<1>7. link' \in [Ends -> Seq(S)] /\ link'[e] = Tail(link[e]) /\ link'[Other(e)] = link[Other(e)] \o ps
  BY <1>1, <1>2, <1>4, <1>5, <1>6
<1>8. LinkStep(e)
  BY <1>7 DEF LinkStep
<1>9. LinkStep(Other(e))
  BY <1>1, <1>3, <1>7 DEF LinkStep, S
<1> QED
  BY <1>2, <1>7, <1>8, <1>9 DEF S

LEMMA Steady ==
    ASSUME IInv, UNCHANGED <<sc, sockets, task, up, chan>>, listed' \in BOOLEAN,
           ctx' \in [Ends -> [Ids -> Context]], refCount' \in [Ends -> Nat],
           \A e \in Ends : CountStep(e) /\ \A i \in Ids : CtxStep(e, i),
           link' \in [Ends -> Seq(Packets(Conns, Most))], \A e \in Ends : LinkStep(e)
    PROVE  IInv'
<1>1. TypeOK
  BY DEF IInv
<1>2. /\ sc' = sc /\ said' = said /\ heard' = heard /\ up' = up /\ chan' = chan
      /\ pending' = pending /\ task' = task
  BY DEF sockets
<1>3. \A e \in Ends : TaskStep(e) /\ \A c \in Conns : PendingStep(e, c)
  BY <1>2 DEF TaskStep, PendingStep
<1>4. /\ pending' \in [Ends -> [Conns -> Seq(1..Most)]] /\ chan' \in {"up", "asked", "dead", "gone"}
      /\ task' \in [Ends -> {"none", "run", "told", "stopped", "gone"}]
  BY <1>1, <1>2 DEF TypeOK
<1> QED
  BY <1>2, <1>3, <1>4, Collect

LEMMA SameListed == ASSUME IInv, listed' = listed PROVE listed' \in BOOLEAN
  BY Zenon DEF IInv, TypeOK

LEMMA SameLinks ==
    ASSUME IInv, link' = link
    PROVE  link' \in [Ends -> Seq(Packets(Conns, Most))] /\ \A e \in Ends : LinkStep(e)
  BY DEF IInv, TypeOK, LinkStep

--------------------------------------------------------------------------------
(* The steps of the listening end. *)

LEMMA BeginKeeps == ASSUME IInv, BeginForward PROVE IInv'
<1>1. /\ TypeOK /\ Made /\ Master \in Ends /\ Listen \in Ids /\ Listen \notin Conns
  BY ScenarioFacts DEF IInv
<1>2. /\ task[Master] = "run" /\ ctx[Master][Listen].st = "none"
      /\ refCount' = [refCount EXCEPT ![Master] = @ + 1] /\ up' = up /\ listed' = listed
      /\ UNCHANGED <<sc, sockets, task, up, chan>>
  BY DEF BeginForward, MallocContext
<1>3. PICK io \in {"none", "made", "open"}, ps \in {Finish, <<Check>>} :
         /\ ctx' = [ctx EXCEPT ![Master][Listen] = Malloced(io)]
         /\ GoodSeq(ps) /\ link' = Sent(link, Master, ps)
  BY GoodPlain DEF BeginForward, SetupFails
<1>4. IsMade(Master, Listen, Malloced(io))
  BY <1>1, <1>2, MallocedFacts, EndFacts DEF IsMade, Counts, Slave, Master
<1>5. /\ ctx' \in [Ends -> [Ids -> Context]] /\ refCount' \in [Ends -> Nat]
      /\ \A f \in Ends : CountStep(f) /\ \A k \in Ids : CtxStep(f, k)
  BY <1>1, <1>3, <1>4, MallocedFacts, OneContext
<1>6. link' \in [Ends -> Seq(Packets(Conns, Most))] /\ \A f \in Ends : LinkStep(f)
  BY <1>1, <1>2, <1>3, Sending
<1> QED
  BY <1>2, <1>5, <1>6, SameListed, Steady

LEMMA ListenKeeps == ASSUME IInv, NEW c \in Conns, ListenCallback(c) PROVE IInv'
<1>1. /\ TypeOK /\ Made /\ Stopped /\ Tasks /\ Master \in Ends /\ Listen \in Ids /\ Listen \notin Conns
      /\ c \in Ids /\ Slave \in Ends /\ Slave # Master
      /\ ctx \in [Ends -> [Ids -> Context]]
      /\ task \in [Ends -> {"none", "run", "told", "stopped", "gone"}]
  BY ScenarioFacts, EndFacts DEF IInv, TypeOK
<1>2. /\ ctx[Master][Listen].st = "live" /\ ctx[Master][c].st = "none"
      /\ up' = up /\ listed' = listed /\ UNCHANGED <<sc, sockets, task, up, chan>>
  BY DEF ListenCallback
<1>3. task[Master] \in {"run", "told"}
  BY <1>1, <1>2 DEF Stopped, Tasks
<1>4. CASE ctx' = [ctx EXCEPT ![Master][Listen] = Freed(@)] /\ link' = Sent(link, Master, Finish)
           /\ UNCHANGED refCount
  <2>1. ctx' = [ctx EXCEPT ![Master][Listen] = Freed(ctx[Master][Listen])]
    BY <1>1, <1>4
  <2>2. ctx[Master][Listen] \in Context
    BY <1>1
  <2>3. GoesOn(Master, Listen, Freed(ctx[Master][Listen]))
    BY <1>1, <1>2, <1>4, <2>2, FreedFacts DEF GoesOn
  <2>4. /\ ctx' \in [Ends -> [Ids -> Context]] /\ refCount' \in [Ends -> Nat]
        /\ \A f \in Ends : CountStep(f) /\ \A k \in Ids : CtxStep(f, k)
    BY <1>1, <2>1, <2>2, <2>3, FreedFacts, OneContext
  <2>5. link' \in [Ends -> Seq(Packets(Conns, Most))] /\ \A f \in Ends : LinkStep(f)
    BY <1>1, <1>2, <1>4, GoodPlain, Sending
  <2> QED
    BY <1>2, <2>4, <2>5, SameListed, Steady
<1>5. ASSUME NEW y \in {Malloced("open"), Freed(Malloced("open"))}, MallocContext(Master, c),
             ctx' = [ctx EXCEPT ![Master][c] = y],
             UNCHANGED link \/ link' = Sent(link, Master, <<ActiveSlave(c)>>)
      PROVE  IInv'
  <2>1. y \in Context /\ Counts(y) /\ y.inMap /\ ~y.ready
    BY <1>5, MallocedFacts, FreedFacts DEF Counts
  <2>2. IsMade(Master, c, y)
    BY <1>1, <1>2, <1>3, <1>5, <2>1 DEF IsMade, MallocContext
  <2>3. /\ ctx' \in [Ends -> [Ids -> Context]] /\ refCount' \in [Ends -> Nat]
        /\ \A f \in Ends : CountStep(f) /\ \A k \in Ids : CtxStep(f, k)
        /\ ctx'[Master][c] = y
    <3>1. TypeOK /\ Master \in Ends /\ c \in Ids /\ y \in Context /\ ctx' = [ctx EXCEPT ![Master][c] = y]
      BY <1>1, <1>5, <2>1
    <3> QED
      BY ONLY <3>1, <2>2, OneContext, ZenonT(30)
  <2>4. GoodSeq(<<ActiveSlave(c)>>)
    <3>1. ActiveSlave(c) \in Packets(Conns, Most)
      BY DEF ActiveSlave, Packets
    <3>2. Sends(ActiveSlave(c))
      BY <2>1, <2>3 DEF ActiveSlave, Sends, Counts
    <3> QED
      BY <3>1, <3>2, GoodOne
  <2>5. link' \in [Ends -> Seq(Packets(Conns, Most))] /\ \A f \in Ends : LinkStep(f)
    BY <1>1, <1>2, <1>5, <2>4, Sending, SameLinks
  <2> QED
    BY <1>2, <2>3, <2>5, SameListed, Steady
<1> QED
  BY <1>4, <1>5 DEF ListenCallback

\* The packet that end e takes.
LEMMA PacketType ==
    ASSUME IInv, NEW e \in Ends, link[e] # <<>>
    PROVE  /\ Packet(e) \in Packets(Conns, Most) /\ 1 \in DOMAIN link[e] /\ Packet(e) = link[e][1]
           /\ Proper(e, Packet(e), 1) /\ Packet(e) = Head(link[e])
<1> DEFINE S == Packets(Conns, Most)
<1>1. link[e] \in Seq(S)
  BY DEF IInv, TypeOK
<1> HIDE DEF S
<1>2. Head(link[e]) \in S /\ 1 \in DOMAIN link[e] /\ Head(link[e]) = link[e][1]
  BY <1>1
<1>3. Proper(e, link[e][1], 1)
  BY <1>2 DEF IInv, Links
<1> QED
  BY <1>2, <1>3 DEF Packet, S

LEMMA PacketIds ==
    ASSUME NEW p \in Packets(Conns, Most)
    PROVE  /\ p.type \in {"CHECK", "CHECK_RESULT", "FREE_CONTEXT"} => p.id \in Ids
           /\ p.type \in {"ACTIVE_SLAVE", "ACTIVE_MASTER", "DATA"} => p.id \in Conns
           /\ p.type = "DATA" => p.piece \in 1..Most
           /\ p.type = "CLOSE" => p.count \in {0, 1}
  BY DEF Packets, Ids

LEMMA CheckResultKeeps == ASSUME IInv, CheckResultArrives PROVE IInv'
<1>1. /\ TypeOK /\ Made /\ Master \in Ends /\ Listen \in Ids /\ Listen \notin Conns
      /\ ctx \in [Ends -> [Ids -> Context]]
  BY ScenarioFacts DEF IInv, TypeOK
<1>2. /\ link[Master] # <<>> /\ Head(link[Master]).type = "CHECK_RESULT"
      /\ up' = up /\ UNCHANGED <<sc, sockets, refCount, task, up, chan>>
  BY DEF CheckResultArrives, Dispatches, Receives
<1>3. listed' \in BOOLEAN
  <2>1. listed \in BOOLEAN
    BY <1>1, Zenon DEF TypeOK
  <2> QED
    BY <2>1 DEF CheckResultArrives
<1>4. /\ ctx' \in [Ends -> [Ids -> Context]] /\ refCount' \in [Ends -> Nat]
      /\ \A f \in Ends : CountStep(f) /\ \A k \in Ids : CtxStep(f, k)
  <2> DEFINE y == [ctx[Master][Listen] EXCEPT !.ready = TRUE]
  <2>1. CASE Known(Master, Listen)
    <3>1. ctx[Master][Listen] \in Context /\ ctx[Master][Listen].st # "none" /\ ctx[Master][Listen].inMap
      BY <1>1, <2>1 DEF Known, Made, NoCtx
    <3>2. ctx' = [ctx EXCEPT ![Master][Listen] = y]
      BY <1>1, <2>1 DEF CheckResultArrives
    <3>3. y \in Context /\ y.st = ctx[Master][Listen].st /\ y.inMap
      BY <3>1 DEF Context
    <3> HIDE DEF y
    <3>4. GoesOn(Master, Listen, y)
      BY <1>1, <1>2, <3>1, <3>3 DEF GoesOn, Counts
    <3> QED
      BY <1>1, <3>2, <3>3, <3>4, OneContext
  <2>2. CASE ~Known(Master, Listen)
    BY <1>1, <1>2, <2>2, SameContexts DEF CheckResultArrives
  <2> QED
    BY <2>1, <2>2
<1>5. link' \in [Ends -> Seq(Packets(Conns, Most))] /\ \A f \in Ends : LinkStep(f)
  <2>1. PICK ps : GoodSeq(ps) /\ Answer(Master, ps)
    BY GoodNone, GoodPlain DEF CheckResultArrives
  <2> QED
    BY <1>1, <1>2, <2>1, Answering
<1> QED
  BY <1>2, <1>3, <1>4, <1>5, Steady

LEMMA SuccessKeeps == ASSUME IInv, SuccessArrives PROVE IInv'
<1>1. TypeOK /\ "host" \in Ends
  BY DEF IInv, Ends
<1>2. /\ link["host"] # <<>> /\ Head(link["host"]).type = "FORWARD_SUCCESS" /\ Answer("host", <<>>)
      /\ ctx' = ctx /\ refCount' = refCount /\ listed' \in BOOLEAN
      /\ up' = up /\ UNCHANGED <<sc, sockets, task, up, chan>>
  BY DEF SuccessArrives, Receives
<1>3. /\ ctx' \in [Ends -> [Ids -> Context]] /\ refCount' \in [Ends -> Nat]
      /\ \A f \in Ends : CountStep(f) /\ \A k \in Ids : CtxStep(f, k)
  BY <1>1, <1>2, SameContexts
<1>4. link' \in [Ends -> Seq(Packets(Conns, Most))] /\ \A f \in Ends : LinkStep(f)
  BY <1>1, <1>2, GoodNone, Answering
<1> QED
  BY <1>2, <1>3, <1>4, Steady

LEMMA ActiveMasterKeeps == ASSUME IInv, ActiveMasterArrives PROVE IInv'
<1> DEFINE i == Packet(Master).id
           y == [ctx[Master][i] EXCEPT !.ready = @ \/ Known(Master, i)]
<1>1. /\ TypeOK /\ Made /\ Begun /\ Master \in Ends /\ Slave \in Ends /\ Slave # Master /\ Conns \subseteq Ids
      /\ ctx \in [Ends -> [Ids -> Context]]
  BY ScenarioFacts, EndFacts DEF IInv, TypeOK
<1>2. /\ link[Master] # <<>> /\ Head(link[Master]).type = "ACTIVE_MASTER" /\ Answer(Master, <<>>)
      /\ Packet(Master).type = "ACTIVE_MASTER"
      /\ up' = up /\ UNCHANGED <<sc, sockets, task, up, chan, listed>> /\ refCount' = refCount /\ listed' = listed
  BY DEF ActiveMasterArrives, Dispatches, Receives, Packet
<1>3. i \in Conns /\ ctx[Slave][i].st # "none"
  BY <1>1, <1>2, PacketType, PacketIds DEF Proper
<1>4. /\ ctx[Master][i] \in Context /\ ctx[Master][i].st # "none" /\ i \in Ids
      /\ ctx[Master][i].st = "live" => ctx[Master][i].inMap
  BY <1>1, <1>3 DEF Made, Begun
<1>5. ctx' = [ctx EXCEPT ![Master][i] = y]
  BY <1>1, <1>4 DEF ActiveMasterArrives
<1>6. y \in Context /\ y.st = ctx[Master][i].st /\ y.inMap = ctx[Master][i].inMap
  <2>1. Known(Master, i) \in BOOLEAN /\ ctx[Master][i].ready \in BOOLEAN
    BY <1>4 DEF Known, Context
  <2> DEFINE b == ctx[Master][i].ready \/ Known(Master, i)
  <2>2. b \in BOOLEAN /\ y = [ctx[Master][i] EXCEPT !.ready = b]
    BY <2>1
  <2> HIDE DEF b, y
  <2> QED
    BY <1>4, <2>2 DEF Context
<1> HIDE DEF y, i
<1>7. GoesOn(Master, i, y)
  BY <1>1, <1>2, <1>3, <1>4, <1>6 DEF GoesOn, Counts
<1>8. /\ ctx' \in [Ends -> [Ids -> Context]] /\ refCount' \in [Ends -> Nat]
      /\ \A f \in Ends : CountStep(f) /\ \A k \in Ids : CtxStep(f, k)
  BY <1>1, <1>4, <1>5, <1>6, <1>7, OneContext
<1>9. link' \in [Ends -> Seq(Packets(Conns, Most))] /\ \A f \in Ends : LinkStep(f)
  BY <1>1, <1>2, GoodNone, Answering
<1> QED
  BY <1>2, <1>8, <1>9, SameListed, Steady

--------------------------------------------------------------------------------
(* The steps of the connecting end. *)

LEMMA WakeupKeeps == ASSUME IInv, WakeupArrives PROVE IInv'
<1>1. /\ TypeOK /\ Made /\ Tasks /\ Master \in Ends /\ Slave \in Ends
      /\ task \in [Ends -> {"none", "run", "told", "stopped", "gone"}]
  BY ScenarioFacts DEF IInv, TypeOK
<1>2. /\ link[Slave] # <<>> /\ Head(link[Slave]).type = "WAKEUP" /\ Packet(Slave).type = "WAKEUP"
      /\ Answer(Slave, <<>>) /\ task' = [task EXCEPT ![Slave] = "run"]
      /\ up' = up /\ sc' = sc /\ said' = said /\ heard' = heard /\ pending' = pending
      /\ ctx' = ctx /\ refCount' = refCount /\ chan' = chan /\ listed' = listed
  BY DEF WakeupArrives, Receives, Packet, sockets
<1>3. task[Slave] = "none"
  BY <1>1, <1>2, PacketType DEF Proper
<1>4. /\ ctx' \in [Ends -> [Ids -> Context]] /\ refCount' \in [Ends -> Nat]
      /\ \A f \in Ends : CountStep(f) /\ \A k \in Ids : CtxStep(f, k)
  BY <1>1, <1>2, SameContexts
<1>5. /\ link' \in [Ends -> Seq(Packets(Conns, Most))] /\ \A f \in Ends : LinkStep(f)
      /\ link'[Slave] = Tail(link[Slave])
  BY <1>1, <1>2, GoodNone, Answering
<1>6. task' \in [Ends -> {"none", "run", "told", "stopped", "gone"}] /\ \A e \in Ends : TaskStep(e)
  BY <1>1, <1>2, <1>3, <1>5 DEF TaskStep
<1>7. /\ \A e \in Ends, c \in Conns : PendingStep(e, c)
      /\ pending' \in [Ends -> [Conns -> Seq(1..Most)]] /\ chan' \in {"up", "asked", "dead", "gone"}
  BY <1>1, <1>2 DEF TypeOK, PendingStep
<1> QED
  BY <1>2, <1>4, <1>5, <1>6, <1>7, SameListed, Collect

LEMMA CheckKeeps == ASSUME IInv, CheckArrives PROVE IInv'
<1> DEFINE y == Freed(Malloced("none"))
<1>1. /\ TypeOK /\ Master \in Ends /\ Slave \in Ends /\ Slave # Master /\ Listen \in Ids /\ Listen \notin Conns
  BY ScenarioFacts, EndFacts DEF IInv
<1>2. /\ link[Slave] # <<>> /\ Head(link[Slave]).type = "CHECK" /\ task[Slave] = "run"
      /\ ctx[Slave][Listen].st = "none" /\ refCount' = [refCount EXCEPT ![Slave] = @ + 1]
      /\ ctx' = [ctx EXCEPT ![Slave][Listen] = y]
      /\ up' = up /\ UNCHANGED <<sc, sockets, task, up, chan>> /\ listed' = listed
  BY DEF CheckArrives, Dispatches, Receives, MallocContext
<1>3. y \in Context /\ Counts(y) /\ y.inMap /\ ~y.ready
  BY MallocedFacts, FreedFacts DEF Counts
<1> HIDE DEF y
<1>4. IsMade(Slave, Listen, y)
  BY <1>1, <1>2, <1>3 DEF IsMade
<1>5. /\ ctx' \in [Ends -> [Ids -> Context]] /\ refCount' \in [Ends -> Nat]
      /\ \A f \in Ends : CountStep(f) /\ \A k \in Ids : CtxStep(f, k)
  BY <1>1, <1>2, <1>3, <1>4, OneContext
<1>6. PICK ps : GoodSeq(ps) /\ Answer(Slave, ps)
  <2>1. GoodSeq(<<FreeCtx(Listen)>> \o Finish) /\ GoodSeq(<<CheckResult>>)
    BY <1>1, GoodPlain, GoodTwo
  <2> QED
    BY <2>1 DEF CheckArrives
<1>7. link' \in [Ends -> Seq(Packets(Conns, Most))] /\ \A f \in Ends : LinkStep(f)
  BY <1>1, <1>2, <1>6, Answering
<1> QED
  BY <1>2, <1>5, <1>7, SameListed, Steady

LEMMA ContinueFacts ==
    ASSUME NEW x \in Context, NEW ok \in BOOLEAN, x.st = "live"
    PROVE  LET y == SetupPointContinue(x, ok)
           IN  /\ y \in Context /\ Counts(y) /\ y.inMap = x.inMap
               /\ y.ready => ok \/ x.ready
  BY FreedFacts DEF SetupPointContinue, Context, Counts

LEMMA ActiveSlaveKeeps == ASSUME IInv, ActiveSlaveArrives PROVE IInv'
<1> DEFINE i == Packet(Slave).id
<1>1. /\ TypeOK /\ Master \in Ends /\ Slave \in Ends /\ Slave # Master /\ Conns \subseteq Ids
  BY ScenarioFacts, EndFacts DEF IInv
<1>2. /\ link[Slave] # <<>> /\ Head(link[Slave]).type = "ACTIVE_SLAVE" /\ task[Slave] = "run"
      /\ Packet(Slave).type = "ACTIVE_SLAVE"
      /\ ctx[Slave][i].st = "none" /\ refCount' = [refCount EXCEPT ![Slave] = @ + 1]
      /\ up' = up /\ UNCHANGED <<sc, sockets, task, up, chan>> /\ listed' = listed
  BY DEF ActiveSlaveArrives, Dispatches, Receives, MallocContext, Packet
<1>3. i \in Conns /\ ctx[Master][i].st # "none"
  BY <1>1, <1>2, PacketType, PacketIds DEF Proper
<1>4. \/ SetupTCPPoint(i)
      \/ SetupFilePoint(i)
  BY DEF ActiveSlaveArrives
<1> HIDE DEF i
<1>5. PICK y \in Context, ps \in {<<>>, <<ActiveMaster(i)>>, <<FreeCtx(i)>> \o Finish} :
         /\ ctx' = [ctx EXCEPT ![Slave][i] = y] /\ Answer(Slave, ps)
         /\ Counts(y) /\ y.inMap
  <2>1. CASE SetupTCPPoint(i)
    <3>1. Malloced("made") \in Context /\ Counts(Malloced("made")) /\ Malloced("made").inMap
      BY MallocedFacts DEF Counts
    <3> QED
      BY <2>1, <3>1 DEF SetupTCPPoint
  <2>2. ASSUME NEW ok \in BOOLEAN,
               ctx' = [ctx EXCEPT ![Slave][i] = SetupPointContinue(Malloced("made"), ok)],
               Answer(Slave, IF ok THEN <<ActiveMaster(i)>> ELSE <<FreeCtx(i)>> \o Finish)
        PROVE  \E y \in Context, ps \in {<<>>, <<ActiveMaster(i)>>, <<FreeCtx(i)>> \o Finish} :
                  /\ ctx' = [ctx EXCEPT ![Slave][i] = y] /\ Answer(Slave, ps)
                  /\ Counts(y) /\ y.inMap
    <3> DEFINE y == SetupPointContinue(Malloced("made"), ok)
    <3>1. y \in Context /\ Counts(y) /\ y.inMap
      BY MallocedFacts, ContinueFacts
    <3> HIDE DEF y
    <3> QED
      BY <2>2, <3>1 DEF y
  <2> QED
    BY <1>4, <2>1, <2>2 DEF SetupFilePoint
<1>6. IsMade(Slave, i, y)
  BY <1>1, <1>2, <1>3, <1>5 DEF IsMade
<1>7. /\ ctx' \in [Ends -> [Ids -> Context]] /\ refCount' \in [Ends -> Nat]
      /\ \A f \in Ends : CountStep(f) /\ \A k \in Ids : CtxStep(f, k)
      /\ ctx'[Slave][i] = y
  <2>1. TypeOK /\ Slave \in Ends /\ i \in Ids /\ ctx' = [ctx EXCEPT ![Slave][i] = y]
    BY <1>1, <1>3, <1>5
  <2> QED
    BY ONLY <2>1, <1>6, OneContext
<1>8. GoodSeq(ps)
  <2>1. ActiveMaster(i) \in Packets(Conns, Most)
    BY <1>3 DEF ActiveMaster, Packets
  <2>2. Sends(ActiveMaster(i))
    BY <1>5, <1>7 DEF ActiveMaster, Sends, Counts
  <2>3. GoodSeq(<<ActiveMaster(i)>>)
    BY <2>1, <2>2, GoodOne
  <2>4. GoodSeq(<<FreeCtx(i)>> \o Finish)
    BY <1>1, <1>3, GoodPlain, GoodTwo
  <2> QED
    BY <1>5, <2>3, <2>4, GoodNone
<1>9. link' \in [Ends -> Seq(Packets(Conns, Most))] /\ \A f \in Ends : LinkStep(f)
  BY <1>1, <1>2, <1>5, <1>8, Answering
<1> QED
  BY <1>2, <1>7, <1>9, SameListed, Steady

LEMMA ConnectKeeps == ASSUME IInv, NEW c \in Conns, ConnectTarget(c) PROVE IInv'
<1>1. /\ TypeOK /\ Made /\ Master \in Ends /\ Slave \in Ends /\ Slave # Master /\ c \in Ids
      /\ ctx \in [Ends -> [Ids -> Context]]
  BY ScenarioFacts, EndFacts DEF IInv, TypeOK
<1>2. /\ ctx[Slave][c].st = "live" /\ refCount' = refCount
      /\ up' = up /\ UNCHANGED <<sc, sockets, task, up, chan>> /\ listed' = listed
  BY DEF ConnectTarget
<1>3. PICK ok \in BOOLEAN :
         /\ ctx' = [ctx EXCEPT ![Slave][c] = SetupPointContinue(@, ok /\ up)]
         /\ link' = Sent(link, Slave, IF ok THEN <<ActiveMaster(c)>> ELSE <<FreeCtx(c)>>)
  BY DEF ConnectTarget
<1> DEFINE y == SetupPointContinue(ctx[Slave][c], ok /\ up)
<1>4. ctx' = [ctx EXCEPT ![Slave][c] = y]
  BY <1>1, <1>3
<1>5. ctx[Slave][c] \in Context /\ ctx[Slave][c].inMap
  BY <1>1, <1>2 DEF Made
<1>6. y \in Context /\ Counts(y) /\ y.inMap
  <2>1. (ok /\ up) \in BOOLEAN
    OBVIOUS
  <2> QED
    BY <1>2, <1>5, <2>1, ContinueFacts
<1> HIDE DEF y
<1>7. GoesOn(Slave, c, y)
  BY <1>1, <1>2, <1>6 DEF GoesOn, Counts
<1>8. /\ ctx' \in [Ends -> [Ids -> Context]] /\ refCount' \in [Ends -> Nat]
      /\ \A f \in Ends : CountStep(f) /\ \A k \in Ids : CtxStep(f, k)
      /\ ctx'[Slave][c] = y
  BY <1>1, <1>4, <1>6, <1>7, OneContext, ZenonT(30)
<1>9. PICK ps : GoodSeq(ps) /\ link' = Sent(link, Slave, ps)
  <2>1. ActiveMaster(c) \in Packets(Conns, Most)
    BY DEF ActiveMaster, Packets
  <2>2. Sends(ActiveMaster(c))
    BY <1>6, <1>8 DEF ActiveMaster, Sends, Counts
  <2>3. GoodSeq(<<ActiveMaster(c)>>)
    BY <2>1, <2>2, GoodOne
  <2> QED
    BY <1>1, <1>3, <2>3, GoodPlain
<1>10. link' \in [Ends -> Seq(Packets(Conns, Most))] /\ \A f \in Ends : LinkStep(f)
  BY <1>1, <1>2, <1>9, Sending
<1> QED
  BY <1>2, <1>8, <1>10, SameListed, Steady

--------------------------------------------------------------------------------
(* The end of a context. *)

\* Context i of end e is freed.
LEMMA Freeing ==
    ASSUME TypeOK, Made, NEW e \in Ends, NEW i \in Ids, ctx' = [ctx EXCEPT ![e][i] = Freed(@)], refCount' = refCount
    PROVE  /\ ctx' \in [Ends -> [Ids -> Context]] /\ refCount' \in [Ends -> Nat]
           /\ \A f \in Ends : CountStep(f) /\ \A k \in Ids : CtxStep(f, k)
           /\ ctx'[e][i].st # "live"
<1> DEFINE y == Freed(ctx[e][i])
<1>1. ctx[e][i] \in Context /\ ctx' = [ctx EXCEPT ![e][i] = y]
  BY DEF TypeOK
<1>2. /\ y \in Context /\ y.st # "live" /\ y.ready = ctx[e][i].ready
      /\ (Counts(y) <=> Counts(ctx[e][i])) /\ (ctx[e][i].st # "live" => y = ctx[e][i])
  BY <1>1, FreedFacts
<1> HIDE DEF y
<1>3. GoesOn(e, i, y)
  BY <1>2 DEF GoesOn
<1>4. /\ TypeOK /\ y \in Context /\ ctx' = [ctx EXCEPT ![e][i] = y]
      /\ e \in Ends /\ i \in Ids
  BY <1>1, <1>2
<1>5. /\ ctx' \in [Ends -> [Ids -> Context]] /\ refCount' \in [Ends -> Nat]
      /\ \A f \in Ends : CountStep(f) /\ \A k \in Ids : CtxStep(f, k)
      /\ ctx'[e][i] = y
  BY ONLY <1>3, <1>4, OneContext
<1> QED
  BY <1>2, <1>5

LEMMA ReadEndsKeeps == ASSUME IInv, NEW e \in Ends, NEW c \in Conns, ReadEnds(e, c) PROVE IInv'
<1>1. TypeOK /\ Made /\ c \in Ids
  BY ScenarioFacts DEF IInv
<1>2. /\ ctx' = [ctx EXCEPT ![e][c] = Freed(@)] /\ refCount' = refCount /\ link' = Sent(link, e, Notice(e, c))
      /\ up' = up /\ UNCHANGED <<sc, sockets, task, up, chan>> /\ listed' = listed
  BY DEF ReadEnds
<1>3. /\ ctx' \in [Ends -> [Ids -> Context]] /\ refCount' \in [Ends -> Nat]
      /\ \A f \in Ends : CountStep(f) /\ \A k \in Ids : CtxStep(f, k)
  BY <1>1, <1>2, Freeing
<1>4. link' \in [Ends -> Seq(Packets(Conns, Most))] /\ \A f \in Ends : LinkStep(f)
  BY <1>1, <1>2, NoticeGood, Sending
<1> QED
  BY <1>2, <1>3, <1>4, SameListed, Steady

LEMMA WriteFailsKeeps == ASSUME IInv, NEW e \in Ends, NEW c \in Conns, WriteFails(e, c) PROVE IInv'
<1>1. /\ TypeOK /\ Made /\ c \in Ids
      /\ pending \in [Ends -> [Conns -> Seq(1..Most)]] /\ chan \in {"up", "asked", "dead", "gone"}
      /\ task \in [Ends -> {"none", "run", "told", "stopped", "gone"}]
  BY ScenarioFacts DEF IInv, TypeOK
<1>2. /\ ctx' = [ctx EXCEPT ![e][c] = Freed(@)] /\ refCount' = refCount /\ link' = Sent(link, e, Notice(e, c))
      /\ pending' = [pending EXCEPT ![e][c] = <<>>]
      /\ up' = up /\ sc' = sc /\ said' = said /\ heard' = heard /\ task' = task /\ chan' = chan
      /\ listed' = listed
  BY DEF WriteFails
<1>3. /\ ctx' \in [Ends -> [Ids -> Context]] /\ refCount' \in [Ends -> Nat]
      /\ \A f \in Ends : CountStep(f) /\ \A k \in Ids : CtxStep(f, k)
      /\ ctx'[e][c].st # "live"
  BY <1>1, <1>2, Freeing
<1>4. link' \in [Ends -> Seq(Packets(Conns, Most))] /\ \A f \in Ends : LinkStep(f)
  BY <1>1, <1>2, NoticeGood, Sending
<1>5. pending' \in [Ends -> [Conns -> Seq(1..Most)]] /\ \A f \in Ends, d \in Conns : PendingStep(f, d)
  <2>1. <<>> \in Seq(1..Most)
    OBVIOUS
  <2> QED
    BY <1>1, <1>2, <1>3, <2>1 DEF PendingStep
<1>6. \A f \in Ends : TaskStep(f)
  BY <1>2 DEF TaskStep
<1> QED
  BY <1>1, <1>2, <1>3, <1>4, <1>5, <1>6, SameListed, Collect

LEMMA FreeContextKeeps == ASSUME IInv, NEW e \in Ends, FreeContextArrives(e) PROVE IInv'
<1> DEFINE i == Packet(e).id
<1>1. TypeOK /\ Made
  BY DEF IInv
<1>2. /\ link[e] # <<>> /\ Head(link[e]).type = "FREE_CONTEXT" /\ Packet(e).type = "FREE_CONTEXT"
      /\ ctx' = [ctx EXCEPT ![e][i] = IF Known(e, i) THEN Freed(@) ELSE @]
      /\ refCount' = refCount /\ Answer(e, <<>>)
      /\ up' = up /\ UNCHANGED <<sc, sockets, task, up, chan>> /\ listed' = listed
  BY DEF FreeContextArrives, Dispatches, Receives, Packet
<1>3. i \in Ids
  BY <1>2, PacketType, PacketIds
<1> HIDE DEF i
<1>4. /\ ctx' \in [Ends -> [Ids -> Context]] /\ refCount' \in [Ends -> Nat]
      /\ \A f \in Ends : CountStep(f) /\ \A k \in Ids : CtxStep(f, k)
  <2>1. CASE Known(e, i)
    <3>1. ctx' = [ctx EXCEPT ![e][i] = Freed(@)]
      BY <1>2, <2>1
    <3> QED
      BY <1>1, <1>2, <1>3, <3>1, Freeing
  <2>2. CASE ~Known(e, i)
    <3>1. ctx' = [ctx EXCEPT ![e][i] = @]
      BY <1>2, <2>2
    <3>2. ctx' = ctx
      BY <1>1, <3>1 DEF TypeOK
    <3> QED
      BY <1>1, <1>2, <3>2, SameContexts
  <2> QED
    BY <2>1, <2>2
<1>5. link' \in [Ends -> Seq(Packets(Conns, Most))] /\ \A f \in Ends : LinkStep(f)
  BY <1>2, GoodNone, Answering
<1> QED
  BY <1>2, <1>4, <1>5, SameListed, Steady

LEMMA HandleClosedKeeps == ASSUME IInv, NEW e \in Ends, NEW i \in Ids, HandleClosed(e, i) PROVE IInv'
<1> DEFINE y == [ctx[e][i] EXCEPT !.st = "next"]
<1>1. /\ TypeOK /\ Made /\ ctx \in [Ends -> [Ids -> Context]] /\ ctx[e][i] \in Context
      /\ pending \in [Ends -> [Conns -> Seq(1..Most)]] /\ chan \in {"up", "asked", "dead", "gone"}
      /\ task \in [Ends -> {"none", "run", "told", "stopped", "gone"}]
  BY DEF IInv, TypeOK
<1>2. /\ ctx[e][i].st = "closing" /\ ctx' = [ctx EXCEPT ![e][i] = y] /\ refCount' = refCount
      /\ up' = up /\ sc' = sc /\ said' = said /\ heard' = heard /\ task' = task /\ chan' = chan
      /\ listed' = listed /\ link' = link
      /\ pending' = IF i \in Conns THEN [pending EXCEPT ![e][i] = <<>>] ELSE pending
  BY <1>1 DEF HandleClosed
<1>3. y \in Context /\ y.st = "next" /\ y.ready = ctx[e][i].ready
  BY <1>1 DEF Context
<1> HIDE DEF y
<1>4. GoesOn(e, i, y)
  BY <1>2, <1>3 DEF GoesOn, Counts
<1>5. /\ ctx' \in [Ends -> [Ids -> Context]] /\ refCount' \in [Ends -> Nat]
      /\ \A f \in Ends : CountStep(f) /\ \A k \in Ids : CtxStep(f, k)
      /\ ctx'[e][i] = y
  <2>1. /\ TypeOK /\ y \in Context /\ ctx' = [ctx EXCEPT ![e][i] = y]
        /\ e \in Ends /\ i \in Ids
    BY <1>1, <1>2, <1>3
  <2> QED
    BY ONLY <1>4, <2>1, OneContext
<1>6. pending' \in [Ends -> [Conns -> Seq(1..Most)]] /\ \A f \in Ends, d \in Conns : PendingStep(f, d)
  <2>1. <<>> \in Seq(1..Most)
    OBVIOUS
  <2> QED
    BY <1>1, <1>2, <1>3, <1>5, <2>1 DEF PendingStep
<1>7. /\ \A f \in Ends : TaskStep(f) /\ LinkStep(f)
      /\ link' \in [Ends -> Seq(Packets(Conns, Most))]
  BY <1>2, SameLinks DEF TaskStep
<1> QED
  BY <1>1, <1>2, <1>5, <1>6, <1>7, SameListed, Collect

LEMMA FreeCallBackKeeps == ASSUME IInv, NEW e \in Ends, NEW i \in Ids, FreeContextCallBack(e, i) PROVE IInv'
<1> DEFINE y == [ctx[e][i] EXCEPT !.st = "deleted", !.inMap = FALSE]
<1>1. /\ TypeOK /\ ctx \in [Ends -> [Ids -> Context]] /\ ctx[e][i] \in Context
  BY DEF IInv, TypeOK
<1>2. /\ ctx[e][i].st = "next" /\ ctx' = [ctx EXCEPT ![e][i] = y]
      /\ refCount' = [refCount EXCEPT ![e] = IF @ > 0 THEN @ - 1 ELSE 0]
      /\ UNCHANGED <<sc, sockets, task, up, chan>> /\ link' = link /\ listed' = listed
  BY <1>1 DEF FreeContextCallBack
<1>3. y \in Context /\ y.st = "deleted" /\ y.ready = ctx[e][i].ready
  BY <1>1 DEF Context
<1> HIDE DEF y
<1>4. IsDeleted(e, i, y)
  BY <1>2, <1>3 DEF IsDeleted
<1>5. /\ ctx' \in [Ends -> [Ids -> Context]] /\ refCount' \in [Ends -> Nat]
      /\ \A f \in Ends : CountStep(f) /\ \A k \in Ids : CtxStep(f, k)
  BY <1>1, <1>2, <1>3, <1>4, OneContext
<1> QED
  BY <1>2, <1>5, SameLinks, SameListed, Steady

--------------------------------------------------------------------------------
(* The end of a task, of the channel and of the session. *)

\* Steps that leave the contexts alone.
LEMMA Apart ==
    ASSUME IInv, sc' = sc, UNCHANGED sockets, ctx' = ctx, refCount' = refCount, up' = up, listed' \in BOOLEAN,
           chan' \in {"up", "asked", "dead", "gone"},
           chan' \in {"up", "asked"} => chan \in {"up", "asked"},
           link' \in [Ends -> Seq(Packets(Conns, Most))], \A e \in Ends : LinkStep(e),
           task' \in [Ends -> {"none", "run", "told", "stopped", "gone"}],
           \A e \in Ends : TaskStep(e)
    PROVE  IInv'
<1>1. TypeOK
  BY DEF IInv
<1>2. /\ said' = said /\ heard' = heard /\ pending' = pending
  BY DEF sockets
<1>3. /\ ctx' \in [Ends -> [Ids -> Context]] /\ refCount' \in [Ends -> Nat]
      /\ \A f \in Ends : CountStep(f) /\ \A k \in Ids : CtxStep(f, k)
  BY <1>1, SameContexts
<1>4. pending' \in [Ends -> [Conns -> Seq(1..Most)]] /\ \A e \in Ends, c \in Conns : PendingStep(e, c)
  BY <1>1, <1>2 DEF TypeOK, PendingStep
<1> QED
  BY <1>2, <1>3, <1>4, Collect

LEMMA ToldFacts ==
    ASSUME TypeOK, NEW e \in Ends, task' = Told(e)
    PROVE  task' \in [Ends -> {"none", "run", "told", "stopped", "gone"}] /\ \A f \in Ends : TaskStep(f)
  BY DEF TypeOK, Told, TaskStep

LEMMA SameTasks ==
    ASSUME TypeOK, task' = task
    PROVE  task' \in [Ends -> {"none", "run", "told", "stopped", "gone"}] /\ \A f \in Ends : TaskStep(f)
  BY DEF TypeOK, TaskStep

LEMMA StopKeeps == ASSUME IInv, NEW e \in Ends, StopTask(e) PROVE IInv'
<1>1. /\ TypeOK /\ Made /\ ctx \in [Ends -> [Ids -> Context]]
      /\ task \in [Ends -> {"none", "run", "told", "stopped", "gone"}]
      /\ chan \in {"up", "asked", "dead", "gone"} /\ pending \in [Ends -> [Conns -> Seq(1..Most)]]
  BY DEF IInv, TypeOK
<1>2. /\ task[e] = "told" /\ task' = [task EXCEPT ![e] = "stopped"] /\ refCount' = refCount
      /\ up' = up /\ sc' = sc /\ said' = said /\ heard' = heard /\ pending' = pending /\ chan' = chan
      /\ link' = link /\ listed' = listed
  BY DEF StopTask, sockets
<1> DEFINE z(i) == [(IF Known(e, i) THEN Freed(ctx[e][i]) ELSE ctx[e][i]) EXCEPT !.inMap = FALSE]
<1>3. ctx' = [ctx EXCEPT ![e] = [i \in Ids |-> z(i)]]
  BY DEF StopTask
<1>4. ASSUME NEW i \in Ids
      PROVE  /\ z(i) \in Context /\ z(i).st # "live" /\ (Counts(z(i)) <=> Counts(ctx[e][i]))
             /\ z(i).ready = ctx[e][i].ready
             /\ ctx[e][i].st = "none" => z(i) = ctx[e][i]
             /\ ctx[e][i].st = "deleted" => z(i).st = "deleted"
  <2> DEFINE x == IF Known(e, i) THEN Freed(ctx[e][i]) ELSE ctx[e][i]
  <2>1. ctx[e][i] \in Context
    BY <1>1
  <2>2. /\ x \in Context /\ (Counts(x) <=> Counts(ctx[e][i])) /\ x.ready = ctx[e][i].ready
        /\ ctx[e][i].st # "live" => x = ctx[e][i]
    BY <2>1, FreedFacts
  <2>3. x.st # "live"
    BY <1>1, <2>1, FreedFacts DEF Made, Known
  <2> HIDE DEF x
  <2>4. z(i) = [x EXCEPT !.inMap = FALSE]
    BY DEF x
  <2>5. z(i) \in Context /\ z(i).st = x.st /\ z(i).ready = x.ready
    BY <2>2, <2>4 DEF Context
  <2>6. ctx[e][i].st = "none" => z(i) = ctx[e][i]
    <3>1. ctx[e][i].st = "none" => ctx[e][i] = NoCtx
      BY <1>1 DEF Made
    <3>2. ASSUME x = NoCtx
          PROVE  [x EXCEPT !.inMap = FALSE] = x
      <4>1. x \in Context /\ x = [x EXCEPT !.inMap = x.inMap] /\ x.inMap = FALSE
        BY <2>2, <3>2 DEF Context, NoCtx
      <4> QED
        BY <4>1
    <3> QED
      BY <2>2, <2>4, <3>1, <3>2 DEF NoCtx
  <2> QED
    BY <2>2, <2>3, <2>5, <2>6 DEF Counts
<1> HIDE DEF z
<1>5. /\ ctx' \in [Ends -> [Ids -> Context]] /\ \A i \in Ids : ctx'[e][i] = z(i)
      /\ \A f \in Ends : f # e => ctx'[f] = ctx[f]
  <2>1. [i \in Ids |-> z(i)] \in [Ids -> Context]
    BY <1>4
  <2> QED
    BY <1>1, <1>3, <2>1
<1>6. \A f \in Ends, i \in Ids : CtxStep(f, i)
  BY <1>4, <1>5 DEF CtxStep, Counts
<1>7. refCount' \in [Ends -> Nat] /\ \A f \in Ends : CountStep(f)
  <2>1. refCount' \in [Ends -> Nat]
    BY <1>1, <1>2, ScenarioFacts, FS_CardinalityType DEF TypeOK
  <2> QED
    BY <1>2, <1>4, <1>5, <2>1 DEF CountStep
<1>8. /\ task' \in [Ends -> {"none", "run", "told", "stopped", "gone"}]
      /\ \A f \in Ends : TaskStep(f)
  BY <1>1, <1>2, <1>4, <1>5 DEF TaskStep
<1>9. \A f \in Ends, c \in Conns : PendingStep(f, c)
  BY <1>2 DEF PendingStep
<1> QED
  BY <1>1, <1>2, <1>5, <1>6, <1>7, <1>8, <1>9, SameLinks, SameListed, Collect

LEMMA TaskGoneKeeps == ASSUME IInv, NEW e \in Ends, TaskGone(e) PROVE IInv'
<1>1. /\ TypeOK /\ Counted /\ ctx \in [Ends -> [Ids -> Context]]
      /\ task \in [Ends -> {"none", "run", "told", "stopped", "gone"}] /\ chan \in {"up", "asked", "dead", "gone"}
      /\ IsFiniteSet(Ids)
  BY ScenarioFacts DEF IInv, TypeOK
<1>2. /\ task[e] = "stopped" /\ refCount[e] = 0 /\ task' = [task EXCEPT ![e] = "gone"]
      /\ sc' = sc /\ UNCHANGED sockets /\ ctx' = ctx /\ refCount' = refCount /\ up' = up /\ chan' = chan
      /\ link' = link /\ listed' = listed
  BY DEF TaskGone
<1>3. \A i \in Ids : ctx[e][i].st \in {"none", "deleted"}
  <2>1. Cardinality(Busy(e)) = 0 /\ Busy(e) \subseteq Ids
    BY <1>1, <1>2 DEF Counted, Busy
  <2>2. Busy(e) = {}
    BY <1>1, <2>1, FS_Subset, FS_EmptySet
  <2> QED
    BY <2>2 DEF Busy
<1>4. /\ task' \in [Ends -> {"none", "run", "told", "stopped", "gone"}] /\ \A f \in Ends : TaskStep(f)
  BY <1>1, <1>2, <1>3 DEF TaskStep
<1> QED
  BY <1>1, <1>2, <1>4, SameLinks, SameListed, Apart

LEMMA CloseKeeps == ASSUME IInv, NEW e \in Ends, CloseArrives(e) PROVE IInv'
<1>1. TypeOK /\ chan \in {"up", "asked", "dead", "gone"}
  BY DEF IInv, TypeOK
<1>2. /\ link[e] # <<>> /\ Head(link[e]).type = "CLOSE" /\ task' = Told(e)
      /\ Answer(e, IF Packet(e).count = 1 THEN <<Close(0)>> ELSE <<>>)
      /\ chan' = IF e = "host" /\ chan = "up" THEN "asked" ELSE chan
      /\ sc' = sc /\ UNCHANGED sockets /\ ctx' = ctx /\ refCount' = refCount /\ up' = up /\ listed' = listed
  BY DEF CloseArrives, Receives
<1>3. link' \in [Ends -> Seq(Packets(Conns, Most))] /\ \A f \in Ends : LinkStep(f)
  <2>1. PICK ps : GoodSeq(ps) /\ Answer(e, ps)
    BY <1>2, GoodNone, GoodPlain
  <2> QED
    BY <1>2, <2>1, Answering
<1> QED
  BY <1>1, <1>2, <1>3, ToldFacts, SameListed, Apart

LEMMA ChannelKeeps == ASSUME IInv, FreeChannel \/ DeatchChannel PROVE IInv'
<1>1. TypeOK /\ "host" \in Ends
  BY DEF IInv, Ends
<1>2. CASE FreeChannel
  <2>1. /\ chan' = "dead" /\ task' = task /\ link' = link
        /\ sc' = sc /\ UNCHANGED sockets /\ ctx' = ctx /\ refCount' = refCount /\ up' = up /\ listed' = listed
    BY <1>2 DEF FreeChannel
  <2> QED
    BY <1>1, <2>1, SameTasks, SameLinks, SameListed, Apart
<1>3. CASE DeatchChannel
  <2>1. /\ chan' = "gone" /\ task' = Told("host") /\ link' = Sent(link, "host", <<Close(0)>>)
        /\ sc' = sc /\ UNCHANGED sockets /\ ctx' = ctx /\ refCount' = refCount /\ up' = up /\ listed' = listed
    BY <1>3 DEF DeatchChannel
  <2>2. link' \in [Ends -> Seq(Packets(Conns, Most))] /\ \A f \in Ends : LinkStep(f)
    BY <1>1, <2>1, GoodPlain, Sending
  <2> QED
    BY <1>1, <2>1, <2>2, ToldFacts, SameListed, Apart
<1> QED
  BY <1>2, <1>3

LEMMA RemoveKeeps == ASSUME IInv, RemoveFportkey PROVE IInv'
<1>1. TypeOK /\ "host" \in Ends /\ chan \in {"up", "asked", "dead", "gone"}
  BY DEF IInv, Ends, TypeOK
<1>2. /\ listed' = FALSE /\ link' = link
      /\ sc' = sc /\ UNCHANGED sockets /\ ctx' = ctx /\ refCount' = refCount /\ up' = up
      /\ \/ task' = Told("host") /\ chan' = (IF chan = "up" THEN "asked" ELSE chan)
         \/ task' = task /\ chan' = chan
  BY DEF RemoveFportkey
<1>3. /\ task' \in [Ends -> {"none", "run", "told", "stopped", "gone"}] /\ \A f \in Ends : TaskStep(f)
  BY <1>1, <1>2, ToldFacts, SameTasks
<1>4. chan' \in {"up", "asked", "dead", "gone"} /\ (chan' \in {"up", "asked"} => chan \in {"up", "asked"})
  BY <1>1, <1>2
<1>5. listed' \in BOOLEAN
  BY <1>2
<1> QED
  BY <1>1, <1>2, <1>3, <1>4, <1>5, SameLinks, Apart

LEMMA DroppedKeeps == ASSUME IInv, NEW e \in Ends, Dropped(e) PROVE IInv'
<1>1. TypeOK /\ chan \in {"up", "asked", "dead", "gone"}
  BY DEF IInv, TypeOK
<1>2. /\ link[e] # <<>> /\ Packet(e) = Head(link[e])
      /\ \/ e = "host" /\ chan \in {"dead", "gone"}
         \/ Packet(e).type \notin {"WAKEUP", "CLOSE", "FORWARD_SUCCESS"} /\ task[e] # "run"
      /\ Answer(e, IF e = "host" /\ chan = "gone" THEN <<Close(0)>> ELSE <<>>)
      /\ sc' = sc /\ UNCHANGED sockets /\ ctx' = ctx /\ refCount' = refCount /\ up' = up /\ listed' = listed
      /\ task' = task /\ chan' = chan
  BY DEF Dropped, Packet
<1>3. Head(link[e]).type = "DATA" => ~TakesNext(e, Head(link[e]).id)
  BY <1>2 DEF TakesNext
<1>4. link' \in [Ends -> Seq(Packets(Conns, Most))] /\ \A f \in Ends : LinkStep(f)
  <2>1. PICK ps : GoodSeq(ps) /\ Answer(e, ps)
    BY <1>2, GoodNone, GoodPlain
  <2> QED
    BY <1>2, <1>3, <2>1, Answering
<1> QED
  BY <1>1, <1>2, <1>4, SameTasks, SameListed, Apart

LEMMA LostKeeps == ASSUME IInv, SessionLost PROVE IInv'
<1>1. /\ TypeOK /\ chan \in {"up", "asked", "dead", "gone"} /\ up
      /\ task \in [Ends -> {"none", "run", "told", "stopped", "gone"}]
  BY DEF IInv, TypeOK, SessionLost
<1>2. /\ up' = FALSE /\ link' = [e \in Ends |-> <<>>] /\ listed' = FALSE
      /\ task' = [e \in Ends |-> IF task[e] = "run" THEN "told" ELSE task[e]]
      /\ chan' = IF chan = "up" THEN "asked" ELSE chan
      /\ sc' = sc /\ said' = said /\ heard' = heard /\ pending' = pending /\ ctx' = ctx /\ refCount' = refCount
  BY DEF SessionLost, sockets
<1>3. /\ ctx' \in [Ends -> [Ids -> Context]] /\ refCount' \in [Ends -> Nat]
      /\ \A f \in Ends : CountStep(f) /\ \A k \in Ids : CtxStep(f, k)
  BY <1>1, <1>2, SameContexts
<1>4. /\ link' \in [Ends -> Seq(Packets(Conns, Most))] /\ \A f \in Ends : LinkStep(f)
  <2>1. <<>> \in Seq(Packets(Conns, Most))
    OBVIOUS
  <2> QED
    BY <1>2, <2>1 DEF LinkStep
<1>5. /\ task' \in [Ends -> {"none", "run", "told", "stopped", "gone"}] /\ \A f \in Ends : TaskStep(f)
  BY <1>1, <1>2 DEF TaskStep
<1>6. /\ pending' \in [Ends -> [Conns -> Seq(1..Most)]] /\ \A e \in Ends, c \in Conns : PendingStep(e, c)
  BY <1>1, <1>2 DEF TypeOK, PendingStep
<1>7. TypesStep
  <2>1. up' \in BOOLEAN /\ listed' \in BOOLEAN
    BY <1>2
  <2>2. chan' \in {"up", "asked", "dead", "gone"}
    BY <1>1, <1>2
  <2> QED
    BY <1>2, <1>3, <1>4, <1>5, <1>6, <2>1, <2>2 DEF TypesStep
<1>8. ~up' => \A e \in Ends : link'[e] = <<>> /\ task'[e] # "run"
  BY <1>1, <1>2
<1>9. Quiet
  BY <1>1, <1>2, <1>3, <1>4, <1>5, <1>6, <1>7, <1>8 DEF Quiet
<1> QED
  BY <1>9, QuietKeeps

--------------------------------------------------------------------------------
(* The steps that move a piece. *)

\* Such a step leaves everything else alone.
LEMMA Still ==
    ASSUME IInv, UNCHANGED <<sc, ctx, refCount, task, up, chan, listed>>,
           link' \in [Ends -> Seq(Packets(Conns, Most))], said' \in [Ends -> [Conns -> 0..Most]],
           heard' \in [Ends -> [Conns -> Seq(1..Most)]], pending' \in [Ends -> [Conns -> Seq(1..Most)]],
           \A e \in Ends : \/ link'[e] = link[e]
                           \/ link[e] # <<>> /\ link'[e] = Tail(link[e])
                           \/ up /\ \E c \in Conns, n \in 1..Most :
                                 link'[e] = link[e] \o <<Data(c, n)>> /\ ctx[Slave][c].st # "none",
           Begun', Ordered', Flowing'
    PROVE  IInv'
<1>1. /\ TypeOK /\ Made /\ Links /\ Tasks /\ Stopped /\ Counted
  BY DEF IInv
<1>2. /\ sc' = sc /\ ctx' = ctx /\ refCount' = refCount /\ task' = task /\ up' = up /\ chan' = chan
      /\ listed' = listed
      /\ Conns' = Conns /\ Ids' = Ids /\ Master' = Master /\ Slave' = Slave /\ Most' = Most
  BY SameNames
<1>3. TypeOK'
  <2>1. up' \in BOOLEAN /\ listed' \in BOOLEAN
    BY <1>1, <1>2, Zenon DEF TypeOK
  <2> QED
    BY <1>1, <1>2, <2>1 DEF TypeOK
<1>4. Made' /\ Stopped' /\ Counted'
  BY <1>1, <1>2 DEF Made, Stopped, Counted, Busy
<1>5. Tasks'
  <2>1. ~up => \A e \in Ends : link'[e] = <<>>
    BY <1>1 DEF Tasks
  <2> QED
    BY <1>1, <1>2, <2>1 DEF Tasks
<1>6. Links'
  <2> SUFFICES ASSUME NEW e \in Ends, NEW j \in DOMAIN link'[e]
               PROVE  Proper(e, link'[e][j], j)
    BY <1>2 DEF Links, Proper
  <2> DEFINE S == Packets(Conns, Most)
  <2>1. link[e] \in Seq(S)
    BY <1>1 DEF TypeOK
  <2> HIDE DEF S
  <2>2. CASE link'[e] = link[e]
    BY <1>1, <2>2 DEF Links
  <2>3. CASE link[e] # <<>> /\ link'[e] = Tail(link[e])
    <3>1. link'[e][j] = link[e][j + 1] /\ j + 1 \in DOMAIN link[e] /\ j + 1 # 1
      BY <2>1, <2>3, TailFacts
    <3> QED
      BY <1>1, <3>1 DEF Links, Proper
  <2>4. ASSUME NEW c \in Conns, NEW n \in 1..Most, link'[e] = link[e] \o <<Data(c, n)>>, ctx[Slave][c].st # "none"
        PROVE  Proper(e, link'[e][j], j)
    <3>1. \/ j \in DOMAIN link[e] /\ link'[e][j] = link[e][j]
          \/ link'[e][j] = Data(c, n)
      BY <2>1, <2>4
    <3>2. Proper(e, Data(c, n), j)
      BY <2>4 DEF Data, Proper
    <3> QED
      BY <1>1, <3>1, <3>2 DEF Links
  <2> QED
    BY <2>2, <2>3, <2>4
<1> QED
  BY <1>3, <1>4, <1>5, <1>6 DEF IInv

LEMMA ReadKeeps == ASSUME IInv, NEW e \in Ends, NEW c \in Conns, ReadForwardBuf(e, c) PROVE IInv'
<1> DEFINE S == Packets(Conns, Most)
           o == Other(e)
           m == said[e][c]
<1>1. /\ TypeOK /\ Begun /\ Ordered /\ Flowing /\ Tasks
      /\ link \in [Ends -> Seq(S)] /\ said \in [Ends -> [Conns -> 0..Most]]
  BY DEF IInv, TypeOK
<1>2. /\ o \in Ends /\ o # e /\ Other(o) = e /\ Ends = {e, o} /\ Master \in Ends /\ Slave \in Ends /\ Slave # Master
      /\ sc.pieces[e] \in Nat /\ sc.pieces[e] <= Most /\ Most \in Nat
  BY <1>1, EndFacts, ScenarioFacts
<1>3. /\ ctx[e][c].st = "live" /\ ctx[e][c].ready /\ m < sc.pieces[e]
      /\ said' = [said EXCEPT ![e][c] = @ + 1]
      /\ UNCHANGED <<sc, ctx, refCount, task, up, chan, listed>> /\ pending' = pending /\ heard' = heard
      /\ ctx' = ctx /\ task' = task /\ chan' = chan /\ sc' = sc
      /\ link' = Sent(link, e, <<Data(c, said'[e][c])>>)
  BY DEF ReadForwardBuf
<1>4. m \in Nat /\ m + 1 \in 1..Most /\ m + 1 \in 0..Most
  <2>1. m \in 0..Most
    BY <1>1
  <2> QED
    BY <1>2, <1>3, <2>1
<1>5. /\ said' \in [Ends -> [Conns -> 0..Most]] /\ said'[e][c] = m + 1
      /\ \A f \in Ends, d \in Conns : f # e \/ d # c => said'[f][d] = said[f][d]
  BY <1>1, <1>3, <1>4
<1>6. ctx[Slave][c].st # "none"
  BY <1>1, <1>2, <1>3 DEF Begun
<1> HIDE DEF o, m
<1>7. /\ link' \in [Ends -> Seq(S)] /\ link'[e] = link[e]
      /\ link'[o] = link[o] \/ up
      /\ up => link'[o] = link[o] \o <<Data(c, m + 1)>>
  <2>1. Data(c, m + 1) \in S
    BY <1>4 DEF Data, Packets
  <2> HIDE DEF S
  <2>2. CASE up
    <3>1. link' = [link EXCEPT ![o] = @ \o <<Data(c, m + 1)>>]
      BY <1>3, <1>5, <2>2 DEF Sent, o
    <3>2. link[o] \o <<Data(c, m + 1)>> \in Seq(S)
      BY <1>1, <1>2, <2>1
    <3> QED
      BY <1>1, <1>2, <2>2, <3>1, <3>2
  <2>3. CASE ~up
    BY <1>1, <1>3, <2>3 DEF Sent
  <2> QED
    BY <2>2, <2>3
<1>8. Conns' = Conns /\ Ids' = Ids /\ Master' = Master /\ Slave' = Slave
  BY <1>3, SameNames
<1>9. Begun'
  BY <1>1, <1>3, <1>5, <1>6, <1>8 DEF Begun
<1>10. Ordered'
  BY <1>1, <1>3, <1>8 DEF Ordered
<1>11. Flowing'
  <2> SUFFICES ASSUME NEW f \in Ends, NEW d \in Conns, Takes(f, d)
               PROVE  Carries(link'[f], d, Queued(f, d), said'[Other(f)][d])
    BY <1>3, <1>8 DEF Flowing, Takes, Queued
  <2>1. Carries(link[f], d, Queued(f, d), said[Other(f)][d])
    BY <1>1 DEF Flowing
  <2>2. CASE f = e
    <3>1. said'[Other(f)][d] = said[Other(f)][d]
      BY <1>2, <1>5, <2>2 DEF o
    <3> QED
      BY <1>7, <2>1, <2>2, <3>1
  <2>3. CASE f = o
    <3>1. up
      BY <1>1, <2>3 DEF Takes, Tasks
    <3>2. link'[o] = link[o] \o <<Data(c, m + 1)>> /\ link[o] \in Seq(S) /\ Data(c, m + 1) \in S
      <4>1. Data(c, m + 1) \in S
        BY <1>4 DEF Data, Packets
      <4> QED
        BY <1>1, <1>2, <1>7, <3>1, <4>1
    <3>3. Queued(o, d) \in Nat /\ said[e][d] \in Nat
      BY <1>1, <1>2, QueuedType
    <3>4. Carries(link[o], d, Queued(o, d), said[e][d])
      BY <1>2, <2>1, <2>3
    <3>5. CASE d = c
      <4>1. \A j \in DOMAIN link[o] : IsData(link[o][j], c) => link[o][j].piece \in Nat
        <5>1. \A j \in DOMAIN link[o] : link[o][j] \in S
          BY <3>2
        <5> QED
          BY <1>2, <5>1, PacketIds DEF IsData
      <4> HIDE DEF S
      <4>3. Carries(link[o] \o <<Data(c, m + 1)>>, c, Queued(o, c), m + 1)
        BY <1>4, <3>2, <3>3, <3>4, <3>5, <4>1, CarriesOne DEF m
      <4> QED
        BY <1>2, <1>5, <2>3, <3>2, <3>5, <4>3
    <3>6. CASE d # c
      <4> DEFINE ps == <<Data(c, m + 1)>>
      <4>1. ps \in Seq(S) /\ \A j \in DOMAIN ps : ~IsData(ps[j], d)
        BY <3>2, <3>6 DEF Data, IsData
      <4> HIDE DEF ps
      <4>2. Carries(link[o] \o ps, d, Queued(o, d), said[e][d])
        BY <3>2, <3>3, <3>4, <4>1, CarriesMore
      <4>3. said'[Other(f)][d] = said[e][d]
        BY <1>2, <1>5, <2>3, <3>6
      <4> QED
        BY <2>3, <3>2, <4>2, <4>3 DEF ps
    <3> QED
      BY <3>5, <3>6
  <2> QED
    BY <1>2, <2>2, <2>3
<1>12. \A f \in Ends : \/ link'[f] = link[f]
                       \/ up /\ \E d \in Conns, n \in 1..Most :
                             link'[f] = link[f] \o <<Data(d, n)>> /\ ctx[Slave][d].st # "none"
  BY <1>2, <1>4, <1>6, <1>7
<1>13. heard' \in [Ends -> [Conns -> Seq(1..Most)]] /\ pending' \in [Ends -> [Conns -> Seq(1..Most)]]
  BY <1>1, <1>3 DEF TypeOK
<1> QED
  BY <1>3, <1>5, <1>7, <1>9, <1>10, <1>11, <1>12, <1>13, Still

LEMMA AppendFacts ==
    ASSUME NEW S, NEW s \in Seq(S), NEW x \in S
    PROVE  /\ Append(s, x) \in Seq(S) /\ Len(Append(s, x)) = Len(s) + 1
           /\ \A k \in DOMAIN Append(s, x) :
                 \/ k \in DOMAIN s /\ Append(s, x)[k] = s[k]
                 \/ k = Len(s) + 1 /\ Append(s, x)[k] = x
  OBVIOUS

LEMMA DataKeeps == ASSUME IInv, NEW e \in Ends, DataArrives(e) PROVE IInv'
<1> DEFINE i == Packet(e).id
           n == Packet(e).piece
           S == Packets(Conns, Most)
<1>1. /\ TypeOK /\ Made /\ Begun /\ Ordered /\ Flowing /\ Tasks
      /\ link \in [Ends -> Seq(S)] /\ pending \in [Ends -> [Conns -> Seq(1..Most)]]
  BY DEF IInv, TypeOK
<1>2. /\ link[e] # <<>> /\ Head(link[e]).type = "DATA" /\ Packet(e).type = "DATA" /\ Packet(e) = Head(link[e])
      /\ e = "host" => chan \in {"up", "asked"}
      /\ task[e] = "run"
      /\ sc' = sc /\ said' = said /\ heard' = heard /\ refCount' = refCount /\ task' = task /\ up' = up
      /\ chan' = chan /\ listed' = listed
  BY DEF DataArrives, Dispatches, Receives, Packet
<1>3. i \in Conns /\ n \in 1..Most /\ ctx[Slave][i].st # "none" /\ Packet(e) \in S
  BY <1>2, PacketType, PacketIds DEF Proper
<1>4. Conns \subseteq Ids
  BY <1>1, ScenarioFacts
<1> HIDE DEF i, n, S
<1>5. CASE /\ Known(e, i) /\ ctx[e][i].st = "live"
           /\ pending' = [pending EXCEPT ![e][i] = Append(@, n)]
           /\ Answer(e, <<>>) /\ UNCHANGED ctx
  <2> DEFINE q == Queued(e, i)
             m == said[Other(e)][i]
             l == link[e]
             p == Append(pending[e][i], n)
             h == Len(heard[e][i])
             g == Len(pending[e][i])
  <2>1. l \in Seq(S) /\ l # <<>> /\ Head(l) = Packet(e)
    BY <1>1, <1>2
  <2>2. /\ Other(e) \in Ends /\ Other(e) # e /\ Ends = {e, Other(e)}
    BY EndFacts
  <2>3. up
    BY <1>1, <1>2 DEF Tasks
  <2>4. /\ link' \in [Ends -> Seq(S)] /\ link'[e] = Tail(l) /\ \A f \in Ends : f # e => link'[f] = link[f]
    <3>1. link' = [[link EXCEPT ![e] = Tail(@)] EXCEPT ![Other(e)] = @ \o <<>>]
      BY <1>5, <2>3 DEF Answer, Sent
    <3>2. Tail(l) \in Seq(S) /\ link[Other(e)] \in Seq(S)
      BY <1>1, <2>1, <2>2
    <3>3. \A s \in Seq(S) : s \o <<>> = s
      OBVIOUS
    <3> QED
      BY <1>1, <2>2, <3>1, <3>2, <3>3
  <2>5. q \in Nat /\ m \in Nat /\ pending[e][i] \in Seq(1..Most) /\ h \in Nat /\ g \in Nat /\ q = h + g
    <3>1. said[Other(e)][i] \in 0..Most
      BY <1>1, <1>3, <2>2 DEF TypeOK
    <3>2. q \in Nat /\ pending[e][i] \in Seq(1..Most) /\ h \in Nat /\ g \in Nat
      BY <1>1, <1>3, QueuedType
    <3>3. q = h + g
      BY DEF Queued
    <3> HIDE DEF q, h, g
    <3> QED
      BY <3>1, <3>2, <3>3
  <2>6. Carries(l, i, q, m)
    BY <1>1, <1>2, <1>3, <1>5 DEF Flowing, Takes
  <2> HIDE DEF q, m, l, p, h, g
  <2>7. n = q + 1 /\ Carries(Tail(l), i, q + 1, m)
    <3>1. IsData(Head(l), i) /\ Head(l).piece = n /\ n \in Nat
      BY <1>2, <1>3, <2>1 DEF IsData, i, n
    <3> QED
      BY <2>1, <2>5, <2>6, <3>1, CarriesHead
  <2>8. /\ p \in Seq(1..Most) /\ Len(p) = g + 1
        /\ \A k \in DOMAIN p :
              \/ k \in DOMAIN pending[e][i] /\ p[k] = pending[e][i][k]
              \/ k = g + 1 /\ p[k] = n
    BY <1>3, <2>5, AppendFacts DEF p, g
  <2>9. /\ pending' \in [Ends -> [Conns -> Seq(1..Most)]] /\ pending'[e][i] = p
        /\ \A f \in Ends, d \in Conns : f # e \/ d # i => pending'[f][d] = pending[f][d]
    BY <1>1, <1>3, <1>5, <2>8 DEF p
  <2>10. Conns' = Conns /\ Ids' = Ids /\ Master' = Master /\ Slave' = Slave
    BY <1>2, SameNames
  <2>11. Begun'
    BY <1>1, <1>2, <1>3, <1>5, <2>9, <2>10 DEF Begun
  <2>12. Ordered'
    <3> SUFFICES ASSUME NEW f \in Ends, NEW d \in Conns
                 PROVE  /\ \A k \in DOMAIN heard[f][d] : heard[f][d][k] = k
                        /\ \A k \in DOMAIN pending'[f][d] : pending'[f][d][k] = Len(heard[f][d]) + k
      BY <1>2, <2>10 DEF Ordered
    <3>1. /\ \A k \in DOMAIN heard[f][d] : heard[f][d][k] = k
          /\ \A k \in DOMAIN pending[f][d] : pending[f][d][k] = Len(heard[f][d]) + k
      BY <1>1 DEF Ordered
    <3>2. CASE f # e \/ d # i
      BY <2>9, <3>1, <3>2
    <3>3. CASE f = e /\ d = i
      <4>1. n = h + (g + 1)
        BY <2>5, <2>7
      <4>2. \A k \in DOMAIN p : p[k] = h + k
        BY <2>8, <3>1, <3>3, <4>1 DEF h
      <4> QED
        BY <2>9, <3>1, <3>3, <4>2 DEF h
    <3> QED
      BY <3>2, <3>3
  <2>13. Flowing'
    <3> SUFFICES ASSUME NEW f \in Ends, NEW d \in Conns, Takes(f, d)
                 PROVE  Carries(link'[f], d, Queued(f, d)', said[Other(f)][d])
      BY <1>2, <1>5, <2>10 DEF Flowing, Takes
    <3>1. Carries(link[f], d, Queued(f, d), said[Other(f)][d])
      BY <1>1 DEF Flowing
    <3>2. CASE f # e
      BY <1>2, <2>4, <2>9, <3>1, <3>2 DEF Queued
    <3>3. CASE f = e /\ d = i
      <4>1. Queued(f, d)' = Len(heard'[f][d]) + Len(pending'[f][d])
        BY DEF Queued
      <4>2. heard'[f][d] = heard[e][i] /\ pending'[f][d] = p
        BY <1>2, <2>9, <3>3
      <4>3. Queued(f, d)' = q + 1
        <5>1. Len(heard'[f][d]) = h /\ Len(pending'[f][d]) = g + 1
          BY <2>8, <4>2 DEF h
        <5>2. Queued(f, d)' = h + (g + 1)
          BY ONLY <4>1, <5>1
        <5> QED
          BY <2>5, <5>2
      <4> QED
        BY <2>4, <2>7, <3>3, <4>3 DEF m
    <3>4. CASE f = e /\ d # i
      <4>1. ~IsData(Head(l), d)
        BY <2>1, <3>4 DEF IsData, i
      <4>2. Queued(f, d) \in Nat /\ said[Other(f)][d] \in Nat
        <5>1. said[Other(f)][d] \in 0..Most
          BY <1>1, <2>2, <3>4 DEF TypeOK
        <5> QED
          BY <1>1, <5>1, QueuedType
      <4>3. Carries(Tail(l), d, Queued(f, d), said[Other(f)][d])
        BY <2>1, <3>1, <3>4, <4>1, <4>2, CarriesTail DEF l
      <4>4. Queued(f, d)' = Queued(f, d)
        BY <1>2, <2>9, <3>4 DEF Queued
      <4> QED
        BY <2>4, <3>4, <4>3, <4>4
    <3> QED
      BY <3>2, <3>3, <3>4
  <2>14. \A f \in Ends : link'[f] = link[f] \/ (link[f] # <<>> /\ link'[f] = Tail(link[f]))
    BY <1>2, <2>4 DEF l
  <2>15. /\ said' \in [Ends -> [Conns -> 0..Most]] /\ heard' \in [Ends -> [Conns -> Seq(1..Most)]]
    BY <1>1, <1>2 DEF TypeOK
  <2>16. UNCHANGED <<sc, ctx, refCount, task, up, chan, listed>>
    BY <1>2, <1>5
  <2> QED
    BY <2>4, <2>9, <2>11, <2>12, <2>13, <2>14, <2>15, <2>16, Still DEF S
<1>6. CASE /\ ctx' = [ctx EXCEPT ![e][i] = Freed(@)]
           /\ Answer(e, Notice(e, i)) /\ UNCHANGED pending
  <2>1. /\ ctx' \in [Ends -> [Ids -> Context]] /\ refCount' \in [Ends -> Nat]
        /\ \A f \in Ends : CountStep(f) /\ \A k \in Ids : CtxStep(f, k)
        /\ ctx'[e][i].st # "live"
    BY <1>1, <1>2, <1>3, <1>4, <1>6, Freeing
  <2>2. ~TakesNext(e, Head(link[e]).id)
    BY <1>2, <2>1 DEF TakesNext, i
  <2>3. link' \in [Ends -> Seq(Packets(Conns, Most))] /\ \A f \in Ends : LinkStep(f)
    BY <1>2, <1>3, <1>4, <1>6, <2>2, NoticeGood, Answering
  <2>4. UNCHANGED <<sc, sockets, task, up, chan>>
    BY <1>2, <1>6 DEF sockets
  <2> QED
    BY <1>2, <2>1, <2>3, <2>4, SameListed, Steady
<1>7. CASE ~(Known(e, i) /\ ctx[e][i].st = "live") /\ Answer(e, <<>>) /\ UNCHANGED <<ctx, pending>>
  <2>1. ctx[e][i].st # "live"
    BY <1>1, <1>3, <1>4, <1>7 DEF Made, Known
  <2>2. ~TakesNext(e, Head(link[e]).id)
    BY <1>2, <1>7, <2>1 DEF TakesNext, i
  <2>3. link' \in [Ends -> Seq(Packets(Conns, Most))] /\ \A f \in Ends : LinkStep(f)
    BY <1>2, <1>7, <2>2, GoodNone, Answering
  <2>4. UNCHANGED <<sc, sockets, task, up, chan>>
    BY <1>2, <1>7 DEF sockets
  <2>5. /\ ctx' \in [Ends -> [Ids -> Context]] /\ refCount' \in [Ends -> Nat]
        /\ \A f \in Ends : CountStep(f) /\ \A k \in Ids : CtxStep(f, k)
    BY <1>1, <1>2, <1>7, SameContexts
  <2> QED
    BY <1>2, <2>3, <2>4, <2>5, SameListed, Steady
<1> QED
  BY <1>5, <1>6, <1>7 DEF DataArrives, i, n

LEMMA WriteKeeps == ASSUME IInv, NEW e \in Ends, NEW c \in Conns, WriteDone(e, c) PROVE IInv'
<1> DEFINE H == heard[e][c]
           P == pending[e][c]
           h == Len(H)
           x == Head(P)
<1>1. /\ TypeOK /\ Made /\ Begun /\ Ordered /\ Flowing
      /\ heard \in [Ends -> [Conns -> Seq(1..Most)]] /\ pending \in [Ends -> [Conns -> Seq(1..Most)]]
  BY DEF IInv, TypeOK
<1>2. /\ P # <<>>
      /\ heard' = [heard EXCEPT ![e][c] = Append(@, x)]
      /\ pending' = [pending EXCEPT ![e][c] = Tail(@)]
      /\ sc' = sc /\ said' = said /\ link' = link /\ ctx' = ctx /\ task' = task /\ chan' = chan
      /\ UNCHANGED <<sc, ctx, refCount, task, up, chan, listed>>
  BY DEF WriteDone
<1>3. /\ H \in Seq(1..Most) /\ P \in Seq(1..Most) /\ h \in Nat /\ Len(P) \in Nat
      /\ \A k \in DOMAIN H : H[k] = k
      /\ \A k \in DOMAIN P : P[k] = h + k
  BY <1>1, QueuedType DEF Ordered
<1> HIDE DEF H, P, h
<1>4. /\ 1 \in DOMAIN P /\ x = P[1] /\ x \in 1..Most /\ Tail(P) \in Seq(1..Most)
      /\ \A k \in DOMAIN Tail(P) : k + 1 \in DOMAIN P /\ Tail(P)[k] = P[k + 1]
  <2> DEFINE S == 1..Most
  <2>1. P \in Seq(S) /\ P # <<>>
    BY <1>2, <1>3
  <2> HIDE DEF S
  <2>2. /\ Tail(P) \in Seq(S) /\ Head(P) \in S /\ Head(P) = P[1] /\ 1 \in DOMAIN P
        /\ \A j \in DOMAIN Tail(P) : Tail(P)[j] = P[j + 1] /\ j + 1 \in DOMAIN P
    BY ONLY <2>1, TailFacts
  <2> QED
    BY ONLY <2>2 DEF S, x
<1>t. Len(Tail(P)) = Len(P) - 1 /\ \A k \in DOMAIN Tail(P) : k \in Nat
  <2>1. P \in Seq(1..Most) /\ P # <<>>
    BY <1>2, <1>3
  <2> QED
    BY ONLY <2>1
<1>5. x = h + 1
  BY <1>3, <1>4
<1> HIDE DEF x
<1> DEFINE a == Append(H, x)
           t == Tail(P)
<1>6. /\ a \in Seq(1..Most) /\ Len(a) = h + 1
      /\ \A k \in DOMAIN a :
            \/ k \in DOMAIN H /\ a[k] = H[k]
            \/ k = h + 1 /\ a[k] = x
  BY <1>3, <1>4, AppendFacts DEF h
<1>7. t \in Seq(1..Most) /\ Len(t) = Len(P) - 1 /\ \A k \in DOMAIN t : t[k] = (h + 1) + k
  BY <1>3, <1>4, <1>t
<1>8. \A k \in DOMAIN a : a[k] = k
  BY <1>3, <1>5, <1>6
<1>9. heard' = [heard EXCEPT ![e][c] = a] /\ pending' = [pending EXCEPT ![e][c] = t]
  BY <1>1, <1>2 DEF H, P
<1> HIDE DEF a, t
<1>10. /\ heard' \in [Ends -> [Conns -> Seq(1..Most)]] /\ pending' \in [Ends -> [Conns -> Seq(1..Most)]]
       /\ heard'[e][c] = a /\ pending'[e][c] = t
       /\ \A f \in Ends, d \in Conns : f # e \/ d # c => heard'[f][d] = heard[f][d] /\ pending'[f][d] = pending[f][d]
  BY <1>1, <1>6, <1>7, <1>9
<1>11. Conns' = Conns /\ Ids' = Ids /\ Master' = Master /\ Slave' = Slave
  BY <1>2, SameNames
<1>12. Begun'
  <2>1. ctx[Slave][c].st # "none"
    BY <1>1, <1>2 DEF Begun, P
  <2> QED
    BY <1>1, <1>2, <1>10, <1>11, <2>1 DEF Begun
<1>13. Ordered'
  <2> SUFFICES ASSUME NEW f \in Ends, NEW d \in Conns
               PROVE  /\ \A k \in DOMAIN heard'[f][d] : heard'[f][d][k] = k
                      /\ \A k \in DOMAIN pending'[f][d] : pending'[f][d][k] = Len(heard'[f][d]) + k
    BY <1>11 DEF Ordered
  <2>1. CASE f = e /\ d = c
    BY <1>6, <1>7, <1>8, <1>10, <2>1
  <2>2. CASE f # e \/ d # c
    BY <1>1, <1>10, <2>2, SMTT(30) DEF Ordered
  <2> QED
    BY <2>1, <2>2
<1>14. \A f \in Ends, d \in Conns : Queued(f, d)' = Queued(f, d)
  <2> TAKE f \in Ends, d \in Conns
  <2>1. CASE f = e /\ d = c
    <3>1. /\ Queued(f, d)' = Len(heard'[f][d]) + Len(pending'[f][d])
          /\ Queued(f, d) = Len(heard[f][d]) + Len(pending[f][d])
      BY DEF Queued
    <3>2. Len(heard'[f][d]) = h + 1 /\ Len(pending'[f][d]) = Len(P) - 1
      BY <1>6, <1>7, <1>10, <2>1
    <3>3. Len(heard[f][d]) = h /\ Len(pending[f][d]) = Len(P)
      BY <2>1 DEF h, H, P
    <3>4. Queued(f, d)' = (h + 1) + (Len(P) - 1) /\ Queued(f, d) = h + Len(P)
      BY ONLY <3>1, <3>2, <3>3
    <3> QED
      BY <1>3, <3>4
  <2>2. CASE f # e \/ d # c
    <3>1. heard'[f][d] = heard[f][d] /\ pending'[f][d] = pending[f][d]
      BY <1>10, <2>2
    <3> QED
      BY <3>1 DEF Queued
  <2> QED
    BY <2>1, <2>2
<1>15. Flowing'
  BY <1>1, <1>2, <1>11, <1>14 DEF Flowing, Takes
<1>16. /\ link' \in [Ends -> Seq(Packets(Conns, Most))] /\ said' \in [Ends -> [Conns -> 0..Most]]
       /\ \A f \in Ends : link'[f] = link[f]
  BY <1>1, <1>2 DEF TypeOK
<1> QED
  BY <1>2, <1>10, <1>12, <1>13, <1>15, <1>16, Still

--------------------------------------------------------------------------------
(* The invariant, and what follows. *)

LEMMA InitHolds == Init => IInv
<1> SUFFICES ASSUME Init
             PROVE  IInv
  OBVIOUS
<1>1. sc \in Scenarios
  BY DEF Init
<1>2. sc.master \in Ends /\ IsFiniteSet(sc.conns) /\ sc.pieces \in [Ends -> Nat]
  BY <1>1, ScenariosAssumption
<1>3. Master \in Ends /\ Slave \in Ends /\ Slave # Master /\ Most \in Nat /\ IsFiniteSet(Ids) /\ Conns \subseteq Ids
  <2>1. IsFiniteSet(Ids)
    BY <1>2, FS_AddElement DEF Ids, Conns
  <2> QED
    BY <1>2, <2>1 DEF Master, Slave, Ends, Other, Most, Ids
<1>4. Cardinality(Ids) \in Nat
  BY <1>3, FS_CardinalityType
<1>5. /\ ctx = [e \in Ends |-> [i \in Ids |-> NoCtx]] /\ NoCtx \in Context /\ NoCtx.st = "none"
      /\ ~NoCtx.ready
  BY DEF Init, NoCtx, Context
<1>6. /\ said \in [Ends -> [Conns -> 0..Most]] /\ \A e \in Ends, c \in Conns : said[e][c] = 0
      /\ pending \in [Ends -> [Conns -> Seq(1..Most)]] /\ \A e \in Ends, c \in Conns : pending[e][c] = <<>>
      /\ heard \in [Ends -> [Conns -> Seq(1..Most)]] /\ \A e \in Ends, c \in Conns : heard[e][c] = <<>>
  <2>1. <<>> \in Seq(1..Most) /\ 0 \in 0..Most
    BY <1>3
  <2> QED
    BY <2>1 DEF Init
<1>7. /\ link \in [Ends -> Seq(Packets(Conns, Most))]
      /\ link[Master] = <<>> /\ link[Slave] = <<Wakeup>>
  <2>1. Wakeup \in Packets(Conns, Most)
    BY DEF Wakeup, Packets
  <2>2. <<>> \in Seq(Packets(Conns, Most)) /\ <<Wakeup>> \in Seq(Packets(Conns, Most))
    BY <2>1
  <2> QED
    BY <1>3, <2>2 DEF Init
<1>8. /\ task \in [Ends -> {"none", "run", "told", "stopped", "gone"}]
      /\ task[Master] = "run" /\ task[Slave] = "none"
      /\ up = TRUE /\ chan = "up" /\ listed = FALSE
      /\ refCount = [e \in Ends |-> 0]
  BY <1>3 DEF Init
<1>9. refCount \in [Ends -> 0..Cardinality(Ids)]
  BY <1>4, <1>8
<1>10. TypeOK
  <2>1. ctx \in [Ends -> [Ids -> Context]]
    BY <1>5
  <2> QED
    BY <1>1, <1>6, <1>7, <1>8, <1>9, <2>1 DEF TypeOK
<1>11. Made /\ Begun /\ Stopped
  BY <1>3, <1>5, <1>6, <1>8 DEF Made, Begun, Stopped
<1>12. Tasks
  BY <1>3, <1>5, <1>8 DEF Tasks
<1>13. Ends = {Master, Slave}
  BY <1>3 DEF Ends
<1>14. Links
  <2> SUFFICES ASSUME NEW e \in Ends, NEW j \in DOMAIN link[e]
               PROVE  Proper(e, link[e][j], j)
    BY DEF Links
  <2>1. e = Slave /\ j = 1 /\ link[e][j] = Wakeup
    BY <1>7, <1>13
  <2> QED
    BY <1>8, <2>1 DEF Proper, Wakeup
<1>15. Ordered
  <2>1. DOMAIN <<>> = {}
    OBVIOUS
  <2> QED
    BY <1>6, <2>1 DEF Ordered
<1>16. Flowing
  BY <1>3, <1>5 DEF Flowing, Takes
<1>17. Counted
  <2> SUFFICES ASSUME NEW e \in Ends
               PROVE  refCount[e] = Cardinality(Busy(e))
    BY DEF Counted
  <2>1. Busy(e) = {}
    BY <1>5 DEF Busy
  <2> QED
    BY <1>8, <2>1, FS_EmptySet
<1> QED
  BY <1>10, <1>11, <1>12, <1>14, <1>15, <1>16, <1>17 DEF IInv

LEMMA NextKeeps == IInv /\ [Next]_vars => IInv'
<1> SUFFICES ASSUME IInv, [Next]_vars
             PROVE  IInv'
  OBVIOUS
<1>1. CASE Loops
  BY <1>1, BeginKeeps, CheckResultKeeps, SuccessKeeps, ActiveMasterKeeps, WakeupKeeps, CheckKeeps,
     ActiveSlaveKeeps, ConnectKeeps, DataKeeps, FreeContextKeeps, CloseKeeps, StopKeeps, TaskGoneKeeps,
     DroppedKeeps, HandleClosedKeeps, FreeCallBackKeeps, ChannelKeeps DEF Loops
<1>2. CASE Outside
  BY <1>2, RemoveKeeps, LostKeeps, ListenKeeps, ReadKeeps, ReadEndsKeeps, WriteKeeps, WriteFailsKeeps DEF Outside
<1>3. CASE UNCHANGED vars
  <2>1. TypeOK /\ UNCHANGED <<sc, sockets, task, up, chan>> /\ ctx' = ctx /\ refCount' = refCount /\ link' = link
        /\ listed' = listed
    BY <1>3 DEF vars, IInv, sockets
  <2> QED
    BY <2>1, SameContexts, SameLinks, SameListed, Steady
<1> QED
  BY <1>1, <1>2, <1>3 DEF Next

LEMMA Invariant == Spec => []IInv
<1>1. Init => IInv
  BY InitHolds
<1>2. IInv /\ [Next]_vars => IInv'
  BY NextKeeps
<1> QED
  BY <1>1, <1>2, PTL DEF Spec

\* The variables of a forward keep their types.
THEOREM Types == Spec => []TypeOK
<1>1. IInv => TypeOK
  BY DEF IInv
<1> QED
  BY <1>1, Invariant, PTL

LEMMA PrefixHolds == IInv => StreamIsPrefix
<1> SUFFICES ASSUME IInv, NEW e \in Ends, NEW c \in Conns
             PROVE  heard[e][c] = [k \in 1..Len(heard[e][c]) |-> k]
  BY DEF StreamIsPrefix
<1>1. heard[e][c] \in Seq(1..Most) /\ \A k \in DOMAIN heard[e][c] : heard[e][c][k] = k
  BY QueuedType DEF IInv, Ordered
<1> QED
  BY <1>1

\* The peer of each socket of a forward receives the pieces that the peer of its counterpart
\* has sent, in order and without a gap, for any number of connections and pieces
\* (ReadForwardBuf, SendForwardBuf, ForwardCommandDispatch).
THEOREM Prefix == Spec => []StreamIsPrefix
  BY Invariant, PrefixHolds, PTL

--------------------------------------------------------------------------------
(* The point that is a device: it is let go before it is deleted, for any number of *)
(* pieces either way.  The reference of the reader is what holds the deletion back,  *)
(* so the invariant says when it is there (ReaderRef), and how far the deletion has  *)
(* come when nobody frees the point any more (PointOrder).                           *)

\* The reader has its reference until it leaves its loop.
ReaderRef == refIO = IF reader \in {"check", "select", "call"} THEN 1 ELSE 0

\* Setting up, freeing once, deleting the object, deleting the context.
PointOrder ==
    /\ point = "none" <=> object = "none"
    /\ point = "none" => reader = "none" /\ writer = "none"
    /\ point \in {"none", "live"} => frees = 0
    /\ frees <= 1
    /\ point = "live" => object = "alive"
    /\ object \in {"dying", "deleted"} => reader \in {"none", "out", "gone"}

PointInv == Device!TypeOK /\ ReaderRef /\ PointOrder

\* TypeOK in two parts: what is TRUE or FALSE, and the rest.
PointFlags == workContinue \in BOOLEAN /\ stray \in BOOLEAN

PointRest ==
    /\ point \in {"none", "live", "finish", "closing", "next", "deleted"}
    /\ frees \in Nat
    /\ fd \in {"none", "open", "closed", "other"}
    /\ object \in {"none", "alive", "dying", "deleted"}
    /\ refIO \in Nat
    /\ reader \in {"none", "check", "select", "call", "out", "gone"}
    /\ pieces \in Nat
    /\ writer \in {"none", "top", "pop", "lock", "write", "wait", "gone"}
    /\ writeMutex \in {"free", "writer"}
    /\ writeQueue \in Seq(Nat) /\ writing \in Nat /\ wants \in Nat /\ arrived \in Nat
    /\ written \in Seq(Nat)

LEMMA PointParts == PointInv <=> PointFlags /\ PointRest /\ ReaderRef /\ PointOrder
  BY Zenon DEF PointInv, Device!TypeOK, PointFlags, PointRest

LEMMA InitPoint == Device!Init => PointInv
<1> SUFFICES ASSUME Device!Init PROVE PointFlags /\ PointRest /\ ReaderRef /\ PointOrder
  BY PointParts, Zenon
<1>1. PointFlags
  BY Zenon DEF Device!Init, PointFlags
<1>2. PointRest /\ ReaderRef /\ PointOrder
  BY DEF Device!Init, PointRest, ReaderRef, PointOrder
<1> QED
  BY <1>1, <1>2, Zenon

LEMMA StepPoint == PointInv /\ [Device!Next]_(Device!vars) => PointInv'
<1> SUFFICES ASSUME PointInv, [Device!Next]_(Device!vars) PROVE PointInv'
  OBVIOUS
<1>0. PointFlags /\ PointRest /\ ReaderRef /\ PointOrder
  BY PointParts, Zenon
<1> SUFFICES PointFlags' /\ PointRest' /\ ReaderRef' /\ PointOrder'
  BY Zenon DEF PointInv, Device!TypeOK, PointFlags, PointRest
<1>1. CASE Device!SetupDevicePoint
  <2>1. PointFlags'
    BY <1>0, <1>1, Zenon
       DEF PointFlags, Device!SetupDevicePoint, Device!LoopIsFree, Device!StartWorkOnThread,
           Device!StopWorkOnThread
  <2>2. PointRest' /\ ReaderRef' /\ PointOrder'
    BY <1>0, <1>1
       DEF PointRest, ReaderRef, PointOrder, Device!SetupDevicePoint, Device!LoopIsFree,
           Device!StartWorkOnThread, Device!StopWorkOnThread
  <2> QED
    BY <2>1, <2>2, Zenon
<1>2. CASE Device!DataArrives
  <2>1. PointFlags'
    BY <1>0, <1>2, Zenon
       DEF PointFlags, Device!DataArrives, Device!LoopIsFree, Device!readerVars, Device!writerVars
  <2>2. PointRest' /\ ReaderRef' /\ PointOrder'
    BY <1>0, <1>2
       DEF PointRest, ReaderRef, PointOrder, Device!DataArrives, Device!LoopIsFree,
           Device!readerVars, Device!writerVars
  <2> QED
    BY <2>1, <2>2, Zenon
<1>3. CASE Device!FreeContextArrives
  <2>1. PointFlags'
    BY <1>0, <1>3, Zenon
       DEF PointFlags, Device!FreeContextArrives, Device!LoopIsFree, Device!FreeContext,
           Device!FreeJDWP, Device!StopWorkOnThread, Device!readerVars, Device!writerVars
  <2>2. PointRest' /\ ReaderRef' /\ PointOrder'
    BY <1>0, <1>3
       DEF PointRest, ReaderRef, PointOrder, Device!FreeContextArrives, Device!LoopIsFree,
           Device!FreeContext, Device!FreeJDWP, Device!StopWorkOnThread, Device!readerVars,
           Device!writerVars
  <2> QED
    BY <2>1, <2>2, Zenon
<1>4. CASE Device!PushWrite
  <2>1. PointFlags'
    BY <1>0, <1>4, Zenon DEF PointFlags, Device!PushWrite, Device!readerVars, Device!writerVars
  <2>2. PointRest' /\ ReaderRef' /\ PointOrder'
    BY <1>0, <1>4
       DEF PointRest, ReaderRef, PointOrder, Device!PushWrite, Device!readerVars, Device!writerVars
  <2> QED
    BY <2>1, <2>2, Zenon
<1>5. CASE Device!DeleteBegins
  <2>1. PointFlags'
    BY <1>0, <1>5, Zenon
       DEF PointFlags, Device!DeleteBegins, Device!LoopIsFree, Device!ReadyForRelease,
           Device!loopVars, Device!readerVars, Device!writerVars
  <2>2. PointRest' /\ ReaderRef' /\ PointOrder'
    BY <1>0, <1>5
       DEF PointRest, ReaderRef, PointOrder, Device!DeleteBegins, Device!LoopIsFree,
           Device!ReadyForRelease, Device!loopVars, Device!readerVars, Device!writerVars
  <2> QED
    BY <2>1, <2>2, Zenon
<1>6. CASE Device!DeleteEnds
  <2>1. PointFlags'
    BY <1>0, <1>6, Zenon DEF PointFlags, Device!DeleteEnds, Device!readerVars, Device!writerVars
  <2>2. PointRest' /\ ReaderRef' /\ PointOrder'
    BY <1>0, <1>6
       DEF PointRest, ReaderRef, PointOrder, Device!DeleteEnds, Device!readerVars, Device!writerVars
  <2> QED
    BY <2>1, <2>2, Zenon
<1>7. CASE Device!FreeContextCallBack
  <2>1. PointFlags'
    BY <1>0, <1>7, Zenon
       DEF PointFlags, Device!FreeContextCallBack, Device!LoopIsFree, Device!readerVars,
           Device!writerVars
  <2>2. PointRest' /\ ReaderRef' /\ PointOrder'
    BY <1>0, <1>7
       DEF PointRest, ReaderRef, PointOrder, Device!FreeContextCallBack, Device!LoopIsFree,
           Device!readerVars, Device!writerVars
  <2> QED
    BY <2>1, <2>2, Zenon
<1>8. CASE Device!ReaderChecks
  <2>1. PointFlags'
    BY <1>0, <1>8, Zenon
       DEF PointFlags, Device!ReaderChecks, Device!Out, Device!loopVars, Device!writerVars
  <2>2. PointRest' /\ ReaderRef' /\ PointOrder'
    BY <1>0, <1>8
       DEF PointRest, ReaderRef, PointOrder, Device!ReaderChecks, Device!Out, Device!loopVars,
           Device!writerVars
  <2> QED
    BY <2>1, <2>2, Zenon
<1>9. CASE Device!Selected
  <2>1. PointFlags'
    BY <1>0, <1>9, Zenon
       DEF PointFlags, Device!Selected, Device!Out, Device!loopVars, Device!writerVars
  <2>2. PointRest' /\ ReaderRef' /\ PointOrder'
    BY <1>0, <1>9
       DEF PointRest, ReaderRef, PointOrder, Device!Selected, Device!Out, Device!loopVars,
           Device!writerVars
  <2> QED
    BY <2>1, <2>2, Zenon
<1>10. CASE Device!ReadReturns
  <2>1. PointFlags'
    BY <1>0, <1>10, Zenon
       DEF PointFlags, Device!ReadReturns, Device!Out, Device!loopVars, Device!writerVars
  <2>2. PointRest' /\ ReaderRef' /\ PointOrder'
    BY <1>0, <1>10
       DEF PointRest, ReaderRef, PointOrder, Device!ReadReturns, Device!Out, Device!loopVars,
           Device!writerVars
  <2> QED
    BY <2>1, <2>2, Zenon
<1>11. CASE Device!ReaderFinishes
  <2>1. PointFlags'
    BY <1>0, <1>11, Zenon
       DEF PointFlags, Device!ReaderFinishes, Device!FreeContext, Device!FreeJDWP,
           Device!StopWorkOnThread, Device!writerVars
  <2>2. PointRest' /\ ReaderRef' /\ PointOrder'
    BY <1>0, <1>11
       DEF PointRest, ReaderRef, PointOrder, Device!ReaderFinishes, Device!FreeContext,
           Device!FreeJDWP, Device!StopWorkOnThread, Device!writerVars
  <2> QED
    BY <2>1, <2>2, Zenon
<1>12. CASE Device!WriterTop
  <2>1. PointFlags'
    BY <1>0, <1>12, Zenon DEF PointFlags, Device!WriterTop, Device!loopVars, Device!readerVars
  <2>2. PointRest' /\ ReaderRef' /\ PointOrder'
    BY <1>0, <1>12
       DEF PointRest, ReaderRef, PointOrder, Device!WriterTop, Device!loopVars, Device!readerVars
  <2> QED
    BY <2>1, <2>2, Zenon
<1>13. CASE Device!PopWrite
  <2>1. PointFlags'
    BY <1>0, <1>13, Zenon DEF PointFlags, Device!PopWrite, Device!loopVars, Device!readerVars
  <2>2. PointRest' /\ ReaderRef' /\ PointOrder'
    <3>1. CASE writeQueue = <<>>
      BY <1>0, <1>13, <3>1
         DEF PointRest, ReaderRef, PointOrder, Device!PopWrite, Device!loopVars, Device!readerVars
    <3>2. CASE writeQueue # <<>>
      <4>1. Head(writeQueue) \in Nat /\ Tail(writeQueue) \in Seq(Nat)
        BY <1>0, <3>2 DEF PointRest
      <4> QED
        BY <1>0, <1>13, <3>2, <4>1
           DEF PointRest, ReaderRef, PointOrder, Device!PopWrite, Device!loopVars, Device!readerVars
    <3> QED
      BY <3>1, <3>2
  <2> QED
    BY <2>1, <2>2, Zenon
<1>14. CASE Device!WriteBegins
  <2>1. PointFlags'
    BY <1>0, <1>14, Zenon DEF PointFlags, Device!WriteBegins, Device!loopVars, Device!readerVars
  <2>2. PointRest' /\ ReaderRef' /\ PointOrder'
    BY <1>0, <1>14
       DEF PointRest, ReaderRef, PointOrder, Device!WriteBegins, Device!loopVars, Device!readerVars
  <2> QED
    BY <2>1, <2>2, Zenon
<1>15. CASE Device!WriteEnds
  <2>1. PointFlags'
    BY <1>0, <1>15, Zenon DEF PointFlags, Device!WriteEnds, Device!loopVars, Device!readerVars
  <2>2. PointRest' /\ ReaderRef' /\ PointOrder'
    <3>1. Append(written, writing) \in Seq(Nat)
      BY <1>0 DEF PointRest
    <3>2. written' \in Seq(Nat)
      <4>1. written' = written \/ written' = Append(written, writing)
        BY <1>15, Zenon DEF Device!WriteEnds
      <4> QED
        BY <1>0, <3>1, <4>1 DEF PointRest
    <3>3. /\ writer = "write" /\ writer' = "pop" /\ writeMutex' = "free" /\ writing' = 0
          /\ UNCHANGED <<Device!loopVars, fd, object, workContinue, Device!readerVars, writeQueue>>
      BY <1>15, Zenon DEF Device!WriteEnds
    <3> QED
      BY <1>0, <3>2, <3>3 DEF PointRest, ReaderRef, PointOrder, Device!loopVars, Device!readerVars
  <2> QED
    BY <2>1, <2>2, Zenon
<1>16. CASE Device!WaitWrite
  <2>1. PointFlags'
    BY <1>0, <1>16, Zenon DEF PointFlags, Device!WaitWrite, Device!loopVars, Device!readerVars
  <2>2. PointRest' /\ ReaderRef' /\ PointOrder'
    BY <1>0, <1>16
       DEF PointRest, ReaderRef, PointOrder, Device!WaitWrite, Device!loopVars, Device!readerVars
  <2> QED
    BY <2>1, <2>2, Zenon
<1>17. CASE Device!Reopened
  <2>1. PointFlags'
    BY <1>0, <1>17, Zenon
       DEF PointFlags, Device!Reopened, Device!loopVars, Device!readerVars, Device!writerVars
  <2>2. PointRest' /\ ReaderRef' /\ PointOrder'
    BY <1>0, <1>17
       DEF PointRest, ReaderRef, PointOrder, Device!Reopened, Device!loopVars, Device!readerVars,
           Device!writerVars
  <2> QED
    BY <2>1, <2>2, Zenon
<1>18. CASE UNCHANGED Device!vars
  <2>1. PointFlags'
    BY <1>0, <1>18, Zenon
       DEF PointFlags, Device!vars, Device!loopVars, Device!readerVars, Device!writerVars
  <2>2. PointRest' /\ ReaderRef' /\ PointOrder'
    BY <1>0, <1>18
       DEF PointRest, ReaderRef, PointOrder, Device!vars, Device!loopVars, Device!readerVars,
           Device!writerVars
  <2> QED
    BY <2>1, <2>2, Zenon
<1> QED
  BY <1>1, <1>2, <1>3, <1>4, <1>5, <1>6, <1>7, <1>8, <1>9, <1>10, <1>11, <1>12, <1>13, <1>14,
     <1>15, <1>16, <1>17, <1>18
     DEF Device!Next, Device!LoopRuns, Device!ReaderRuns, Device!WriterRuns

LEMMA PointInvariance == Device!Spec => []PointInv
<1>1. Device!Init => PointInv
  BY InitPoint
<1>2. PointInv /\ [Device!Next]_(Device!vars) => PointInv'
  BY StepPoint
<1> QED
  BY <1>1, <1>2, PTL DEF Device!Spec

\* Every reachable state is well typed, whatever the bounds on the pieces
\* (file_descriptor.h, ContextForward).
THEOREM PointTypes == Device!Spec => []Device!TypeOK
<1>1. PointInv => Device!TypeOK
  BY DEF PointInv
<1> QED
  BY <1>1, PointInvariance, PTL

--------------------------------------------------------------------------------
(* The order of the pieces.  They are numbered as they come; each is in one place on *)
(* its way to the device, and the places are in the reverse order of the numbers.    *)

Rises(s) == \A i, j \in DOMAIN s : i < j => s[i] < s[j]
AllBelow(s, n) == \A i \in DOMAIN s : s[i] < n
AllAbove(s, n) == \A i \in DOMAIN s : n < s[i]

OnTheWay ==
    /\ Rises(written) /\ Rises(writeQueue)
    /\ AllBelow(written, arrived + 1) /\ AllBelow(writeQueue, arrived + 1)
    /\ AllAbove(writeQueue, 0) /\ writing <= arrived
    /\ writing # 0 <=> writer \in {"lock", "write"}
    /\ writing # 0 => AllBelow(written, writing) /\ AllAbove(writeQueue, writing)
    /\ \A i \in DOMAIN writeQueue : AllBelow(written, writeQueue[i])
    /\ wants # 0 => /\ wants = arrived /\ writing < wants
                    /\ AllBelow(written, wants) /\ AllBelow(writeQueue, wants)

\* What is put at the end of a sequence that rises.
LEMMA AppendRises ==
  ASSUME NEW s \in Seq(Nat), NEW n \in Nat, Rises(s), AllBelow(s, n)
  PROVE  Rises(Append(s, n))
  BY DEF Rises, AllBelow

LEMMA AppendBelow ==
  ASSUME NEW s \in Seq(Nat), NEW n \in Nat, NEW m \in Nat, AllBelow(s, m), n < m
  PROVE  AllBelow(Append(s, n), m)
  BY DEF AllBelow

LEMMA AppendAbove ==
  ASSUME NEW s \in Seq(Nat), NEW n \in Nat, NEW m \in Nat, AllAbove(s, m), m < n
  PROVE  AllAbove(Append(s, n), m)
  BY DEF AllAbove

\* What is taken from the head of one.
LEMMA HeadIsLeast ==
  ASSUME NEW s \in Seq(Nat), s # <<>>, Rises(s)
  PROVE  /\ Head(s) \in Nat /\ Tail(s) \in Seq(Nat)
         /\ Rises(Tail(s)) /\ AllAbove(Tail(s), Head(s))
         /\ \A i \in DOMAIN Tail(s) : i + 1 \in DOMAIN s /\ Tail(s)[i] = s[i + 1]
         /\ 1 \in DOMAIN s /\ Head(s) = s[1]
<1>1. /\ Len(s) \in Nat /\ DOMAIN s = 1..Len(s) /\ 1 \in DOMAIN s /\ Head(s) = s[1]
      /\ Tail(s) \in Seq(Nat) /\ DOMAIN Tail(s) = 1..(Len(s) - 1)
      /\ \A i \in DOMAIN s : s[i] \in Nat
  OBVIOUS
<1>2. \A i \in DOMAIN Tail(s) : i + 1 \in DOMAIN s /\ Tail(s)[i] = s[i + 1] /\ i \in Nat
  BY <1>1
<1>3. \A i, j \in DOMAIN s : i < j => s[i] < s[j]
  BY DEF Rises
<1>4. Rises(Tail(s))
  <2>1. \A i, j \in DOMAIN Tail(s) : i < j => i + 1 < j + 1
    BY ONLY <1>2
  <2> QED
    BY ONLY <1>2, <1>3, <2>1 DEF Rises
<1>5. AllAbove(Tail(s), Head(s))
  <2>1. \A i \in DOMAIN Tail(s) : 1 < i + 1
    BY ONLY <1>1
  <2> QED
    BY ONLY <1>1, <1>2, <1>3, <2>1 DEF AllAbove
<1> QED
  BY <1>1, <1>2, <1>4, <1>5

DeviceInv == PointInv /\ OnTheWay

LEMMA InitDevice == Device!Init => DeviceInv
<1> SUFFICES ASSUME Device!Init PROVE DeviceInv
  OBVIOUS
<1>1. OnTheWay
  BY DEF Device!Init, OnTheWay, Rises, AllBelow, AllAbove
<1> QED
  BY <1>1, InitPoint, Zenon DEF DeviceInv

LEMMA StepDevice == DeviceInv /\ [Device!Next]_(Device!vars) => DeviceInv'
<1> SUFFICES ASSUME DeviceInv, [Device!Next]_(Device!vars) PROVE DeviceInv'
  OBVIOUS
<1>0. /\ PointRest /\ PointRest' /\ OnTheWay /\ PointInv'
  BY PointParts, StepPoint, Zenon DEF DeviceInv, PointInv, Device!TypeOK, PointRest
<1> SUFFICES OnTheWay'
  BY <1>0, Zenon DEF DeviceInv
<1> DEFINE way == <<written, writer, writeQueue, writing, wants, arrived>>
<1>1. CASE Device!DataArrives
  <2>1. /\ wants = 0 /\ arrived' = arrived + 1 /\ wants' = arrived + 1
        /\ UNCHANGED <<written, writer, writeQueue, writing>>
    BY <1>1, Zenon DEF Device!DataArrives, Device!LoopIsFree, Device!writerVars
  <2> QED
    BY <1>0, <2>1 DEF PointRest, OnTheWay, Rises, AllBelow, AllAbove
<1>2. CASE Device!PushWrite
  <2>1. /\ wants # 0 /\ wants' = 0 /\ writeQueue' = Append(writeQueue, wants)
        /\ UNCHANGED <<written, writer, writing, arrived>>
    BY <1>2, Zenon DEF Device!PushWrite, Device!writerVars
  <2>2. Rises(writeQueue') /\ AllBelow(writeQueue', arrived + 1)
    BY <1>0, <2>1, AppendRises, AppendBelow DEF PointRest, OnTheWay
  <2>2a. AllAbove(writeQueue', 0)
    BY <1>0, <2>1, AppendAbove DEF PointRest, OnTheWay
  <2>3. writing # 0 => AllAbove(writeQueue', writing)
    BY <1>0, <2>1, AppendAbove DEF PointRest, OnTheWay
  <2>4. \A i \in DOMAIN writeQueue' : AllBelow(written, writeQueue'[i])
    BY <1>0, <2>1 DEF PointRest, OnTheWay
  <2> QED
    BY <1>0, <2>1, <2>2, <2>2a, <2>3, <2>4 DEF PointRest, OnTheWay
<1>3. CASE Device!PopWrite
  <2>1. CASE writeQueue = <<>>
    <3>1. /\ writer = "pop" /\ writer' = "wait"
          /\ UNCHANGED <<written, writeQueue, writing, wants, arrived>>
      BY <1>3, <2>1, Zenon DEF Device!PopWrite, Device!loopVars
    <3> QED
      BY <1>0, <3>1 DEF PointRest, OnTheWay, Rises, AllBelow, AllAbove
  <2>2. CASE writeQueue # <<>>
    <3>1. /\ writer = "pop" /\ writer' = "lock"
          /\ writing' = Head(writeQueue) /\ writeQueue' = Tail(writeQueue)
          /\ UNCHANGED <<written, wants, arrived>>
      BY <1>3, <2>2, Zenon DEF Device!PopWrite, Device!loopVars
    <3>2. /\ Rises(writeQueue') /\ AllAbove(writeQueue', writing') /\ writing' \in Nat
          /\ \A i \in DOMAIN writeQueue' : /\ i + 1 \in DOMAIN writeQueue
                                           /\ writeQueue'[i] = writeQueue[i + 1]
          /\ 1 \in DOMAIN writeQueue /\ writing' = writeQueue[1]
      BY <1>0, <2>2, <3>1, HeadIsLeast DEF PointRest, OnTheWay
    <3>3. AllBelow(written, writing') /\ writing' < arrived + 1
      BY <1>0, <3>2 DEF PointRest, OnTheWay, AllBelow
    <3>4. AllBelow(writeQueue', arrived + 1)
      BY <1>0, <3>2 DEF PointRest, OnTheWay, AllBelow
    <3>5. \A i \in DOMAIN writeQueue' : AllBelow(written, writeQueue'[i])
      BY <1>0, <3>2 DEF PointRest, OnTheWay
    <3>6. wants # 0 => writing' < wants /\ AllBelow(writeQueue', wants)
      BY <1>0, <3>2 DEF PointRest, OnTheWay, AllBelow
    <3>7. writing' # 0 /\ AllAbove(writeQueue', 0)
      BY <1>0, <3>1, <3>2 DEF PointRest, OnTheWay, AllAbove
    <3> QED
      BY <1>0, <3>1, <3>2, <3>3, <3>4, <3>5, <3>6, <3>7 DEF PointRest, OnTheWay
  <2> QED
    BY <2>1, <2>2
<1>4. CASE Device!WriteBegins
  <2>1. /\ writer = "lock" /\ writer' = "write"
        /\ UNCHANGED <<written, writeQueue, writing, wants, arrived>>
    BY <1>4, Zenon DEF Device!WriteBegins, Device!loopVars
  <2> QED
    BY <1>0, <2>1 DEF OnTheWay
<1>5. CASE Device!WriteEnds
  <2>1. /\ writer = "write" /\ writer' = "pop" /\ writing' = 0
        /\ UNCHANGED <<writeQueue, wants, arrived>>
        /\ written' = written \/ written' = Append(written, writing)
    BY <1>5, Zenon DEF Device!WriteEnds, Device!loopVars
  <2>2. CASE written' = written
    BY <1>0, <2>1, <2>2 DEF PointRest, OnTheWay
  <2>3. CASE written' = Append(written, writing)
    <3>1. writing # 0 /\ writing < arrived + 1
      BY <1>0, <2>1 DEF PointRest, OnTheWay
    <3>2. Rises(written') /\ AllBelow(written', arrived + 1)
      BY <1>0, <2>3, <3>1, AppendRises, AppendBelow, SMTT(30) DEF PointRest, OnTheWay
    <3>3. \A i \in DOMAIN writeQueue : writing < writeQueue[i] /\ writeQueue[i] \in Nat
      <4>1. writeQueue \in Seq(Nat) /\ AllAbove(writeQueue, writing)
        BY <1>0, <3>1 DEF PointRest, OnTheWay
      <4> QED
        BY ONLY <4>1 DEF AllAbove
    <3>4. \A i \in DOMAIN writeQueue : AllBelow(written', writeQueue[i])
      <4>1. /\ written \in Seq(Nat) /\ writing \in Nat
            /\ \A i \in DOMAIN writeQueue : AllBelow(written, writeQueue[i])
        BY <1>0 DEF PointRest, OnTheWay
      <4> QED
        BY ONLY <2>3, <3>3, <4>1, AppendBelow
    <3>5. wants # 0 => AllBelow(written', wants)
      BY <1>0, <2>3, <3>1, AppendBelow DEF PointRest, OnTheWay
    <3> QED
      BY <1>0, <2>1, <3>2, <3>4, <3>5 DEF PointRest, OnTheWay
  <2> QED
    BY <2>1, <2>2, <2>3
<1>6. CASE Device!WriterTop \/ Device!WaitWrite
  <2>1. /\ writer \in {"top", "wait"} /\ writer' \in {"top", "pop", "gone"}
        /\ UNCHANGED <<written, writeQueue, writing, wants, arrived>>
    BY <1>6, SMT DEF Device!WriterTop, Device!WaitWrite, Device!loopVars
  <2> QED
    BY <1>0, <2>1 DEF OnTheWay
<1>7. CASE Device!SetupDevicePoint
  <2>1. /\ point = "none" /\ writer' = "top"
        /\ UNCHANGED <<written, writeQueue, writing, wants, arrived>>
    BY <1>7, Zenon DEF Device!SetupDevicePoint
  <2> QED
    BY <1>0, <2>1, PointParts DEF OnTheWay, DeviceInv, PointInv, PointOrder
<1>8. CASE UNCHANGED way
  BY <1>0, <1>8 DEF OnTheWay
<1>9. CASE /\ \/ Device!FreeContextArrives \/ Device!DeleteBegins \/ Device!DeleteEnds \/ Device!FreeContextCallBack
              \/ Device!ReaderRuns \/ Device!Reopened \/ UNCHANGED Device!vars
  <2>1. UNCHANGED way
    BY <1>9, Zenon
       DEF Device!FreeContextArrives, Device!DeleteBegins, Device!DeleteEnds,
           Device!FreeContextCallBack, Device!ReaderRuns, Device!ReaderChecks, Device!Selected,
           Device!ReadReturns, Device!ReaderFinishes, Device!Reopened, Device!vars,
           Device!loopVars, Device!readerVars, Device!writerVars
  <2> QED
    BY <1>8, <2>1
<1> QED
  BY <1>1, <1>2, <1>3, <1>4, <1>5, <1>6, <1>7, <1>9, Zenon
     DEF Device!Next, Device!LoopRuns, Device!WriterRuns

\* The device gets the pieces in the order they came in, none twice, whatever becomes of
\* the point and whichever pieces an error drops (IOWriteThread, CtxFileIOWrite).
THEOREM PiecesInOrder == Device!Spec => []Device!DeviceInOrder
<1>1. DeviceInv => Device!DeviceInOrder
  BY DEF DeviceInv, OnTheWay, Rises, Device!DeviceInOrder
<1> QED
  BY <1>1, InitDevice, StepDevice, PTL DEF Device!Spec

--------------------------------------------------------------------------------
(* The forward beside that point. *)

\* A step is of the forward or of the device, and leaves the other alone.
LEMMA BesideEach ==
    ASSUME [MCNext]_<<vars, deviceVars>>
    PROVE  [Next]_vars /\ [Device!Next]_(Device!vars)
<1>1. deviceVars' = deviceVars => Device!vars' = Device!vars
  BY DEF deviceVars, Device!vars, Device!loopVars, Device!readerVars, Device!writerVars
<1>2. CASE Forward(Next)
  BY <1>1, <1>2 DEF Forward
<1>3. CASE OfDevice(Device!Next)
  BY <1>3 DEF OfDevice
<1>4. CASE UNCHANGED <<vars, deviceVars>>
  BY <1>1, <1>4
<1> QED
  BY <1>2, <1>3, <1>4 DEF MCNext

LEMMA BothKeep == MCSpec => [](IInv /\ DeviceInv)
<1>1. MCInit => IInv /\ DeviceInv
  BY InitHolds, InitDevice DEF MCInit
<1>2. IInv /\ DeviceInv /\ [MCNext]_<<vars, deviceVars>> => IInv' /\ DeviceInv'
  BY BesideEach, NextKeeps, StepDevice
<1> QED
  BY <1>1, <1>2, PTL DEF MCSpec

\* No context outlives its task, of any number of connections and pieces: what a context
\* has begun, and who else frees it, does not matter (FreeContextCallBack, ReadyForRelease
\* of HdcTaskBase).
THEOREM NothingLeft == MCSpec => []GoneIsEmpty
<1>1. IInv => GoneIsEmpty
  BY DEF IInv, Stopped, GoneIsEmpty
<1> QED
  BY <1>1, BothKeep, PTL

\* The device of the instance gets its pieces in their order, however many come.
THEOREM InOrderBeside == MCSpec => []DeviceInOrder
<1>1. DeviceInv => DeviceInOrder
  BY DEF DeviceInv, PointInv, PointOrder, OnTheWay, Rises, Device!DeviceInOrder, DeviceInOrder
<1> QED
  BY <1>1, BothKeep, PTL

\* Each peer hears what the other has said, in order, in the instance with the device too.
THEOREM PrefixBeside == MCSpec => []StreamIsPrefix
  BY BothKeep, PrefixHolds, PTL
===============================================================================

------------------------------ MODULE TabProofs ------------------------------
(* What reaches a tab: theorems about the tail of the event log (EventTail),   *)
(* for every size of a batch and any number of writes and lost connections,    *)
(* and about the assistant (ChatAgent), for every limit and number of messages. *)
EXTENDS ChatAgent, EventTail, SequenceTheorems, FiniteSetTheorems, WellFoundedInduction, TLAPS

-----------------------------------------------------------------------------
(***************************************************************************)
(* The tail of the event log.  That no event is skipped needs the whole way  *)
(* of an event: what the gateway has passed is on the socket or in the tab,  *)
(* what it holds in a batch leaves no gap, and the socket keeps the order.   *)
(***************************************************************************)

Numbered == {k \in DOMAIN socket : socket[k].id # 0}

\* Where the gateway reads on, and what it has read.
Reading ==
    /\ conn.st \in {"off", "accepted", "greeted"} =>
         conn.batch = {} /\ Numbered = {}
    /\ conn.st \in {"greeted", "tailing"} => page.cursor <= conn.cursor
    /\ \A m \in conn.batch : m.id \in (conn.cursor + 1)..LogHead
    /\ \A m, o \in conn.batch : m.id = o.id => m = o
    /\ \A m \in conn.batch, id \in Ids :
         conn.cursor < id /\ id <= m.id => \E o \in conn.batch : o.id = id

\* What the gateway has passed; of a tail that died, what its socket still has.
Passed == IF conn.st = "mute" THEN {id \in Nat : \E k \in Numbered : id <= socket[k].id}
          ELSE 0..conn.cursor
InOrder ==
    /\ \A k \in Numbered : /\ page.cursor < socket[k].id /\ socket[k].id <= LogHead
                           /\ socket[k].id \in Passed
    /\ \A k, n \in Numbered : k < n => socket[k].id < socket[n].id

\* Of what the gateway has passed, the page's first event and everything after
\* it that the page has not applied is on the socket.
Sent == {socket[k].id : k \in Numbered}
OnTheWay ==
    \A id \in Ids \cap Passed :
        /\ conn.st # "off" /\ conn.st # "accepted" /\ page.cursor # 0 /\ page.cursor < id => id \in Sent
        /\ \A k \in Numbered : socket[k].id <= id => id \in Sent

\* A page has a cursor from its first event on.
Begun == page.cursor = 0 <=> seen = {}

TailInv == TailTypeOK /\ Begun /\ Reading /\ InOrder /\ OnTheWay /\ NoneSkipped

-----------------------------------------------------------------------------
(* Numbers *)

LEMMA NatMin ==
    ASSUME NEW S, S \subseteq Nat, S # {}
    PROVE  \E i \in S : \A j \in S : i <= j
<1>1. \E i \in S : \A j \in S : ~(<<j, i>> \in OpToRel(<, Nat))
  <2> HIDE DEF OpToRel
  <2> QED BY NatLessThanWellFounded, WFMin
<1>2. \A i, j \in Nat : j < i => <<j, i>> \in OpToRel(<, Nat)
  BY DEF OpToRel
<1> HIDE DEF OpToRel
<1>3. PICK i \in S : \A j \in S : ~(<<j, i>> \in OpToRel(<, Nat))
  BY <1>1
<1>4. ASSUME NEW j \in S PROVE i <= j
  <2>1. i \in Nat /\ j \in Nat
    OBVIOUS
  <2>2. ~(j < i)
    BY <1>2, <1>3, <2>1
  <2> QED BY <2>1, <2>2
<1> QED BY <1>4

LEMMA MinIn ==
    ASSUME NEW S, S \subseteq Nat, S # {}
    PROVE  Min(S) \in S /\ \A i \in S : Min(S) <= i
  BY NatMin DEF Min

\* A finite set of numbers has a greatest one: of the sets that have none, one
\* would be the smallest.
LEMMA FiniteMax ==
    ASSUME NEW S, S \subseteq Nat, IsFiniteSet(S), S # {}
    PROVE  \E i \in S : \A j \in S : i >= j
<1> DEFINE Endless(U) == U # {} /\ \A i \in U : \E j \in U : ~(i >= j)
           Sizes == {Cardinality(U) : U \in {V \in SUBSET S : Endless(V)}}
<1>1. SUFFICES ASSUME Endless(S) PROVE FALSE
  OBVIOUS
<1>2. \A U \in SUBSET S : IsFiniteSet(U) /\ Cardinality(U) \in Nat
  BY FS_Subset, FS_CardinalityType
<1>3. Sizes \subseteq Nat /\ Sizes # {}
  <2>1. Cardinality(S) \in Sizes
    BY <1>1
  <2> QED BY <1>2, <2>1
<1>4. PICK U \in SUBSET S : Endless(U) /\ \A n \in Sizes : Cardinality(U) <= n
  <2>1. PICK least \in Sizes : \A n \in Sizes : least <= n
    <3> HIDE DEF Sizes
    <3> QED BY <1>3, NatMin
  <2> QED BY <2>1
<1>5. PICK x \in U : TRUE
  BY <1>4
<1>6. Cardinality(U \ {x}) = Cardinality(U) - 1 /\ U \ {x} \in SUBSET S
  BY <1>2, <1>5, FS_RemoveElement
<1>7. ~Endless(U \ {x})
  <2>1. SUFFICES ASSUME Endless(U \ {x}) PROVE FALSE
    OBVIOUS
  <2>2. Cardinality(U \ {x}) \in Sizes
    BY <1>6, <2>1
  <2>3. Cardinality(U) <= Cardinality(U) - 1
    BY <1>4, <1>6, <2>2
  <2> QED BY <1>2, <2>3
<1>8. CASE U \ {x} = {}
  <2>1. U = {x} /\ x \in Nat
    BY <1>5, <1>8
  <2> QED BY <1>4, <2>1
<1>9. CASE U \ {x} # {}
  <2>1. PICK y \in U \ {x} : \A j \in U \ {x} : y >= j
    BY <1>7, <1>9
  <2>2. x \in Nat /\ y \in Nat /\ U \subseteq Nat
    OBVIOUS
  <2>3. CASE y >= x
    BY <1>4, <2>1, <2>2, <2>3
  <2>4. CASE ~(y >= x)
    <3>1. \A j \in U : x >= j
      BY <2>1, <2>2, <2>4
    <3> QED BY <1>4, <3>1
  <2> QED BY <2>3, <2>4
<1> QED BY <1>8, <1>9

LEMMA TopFacts ==
    ASSUME NEW S, S \subseteq Nat, IsFiniteSet(S)
    PROVE  /\ TopOf(S) \in Nat /\ \A i \in S : i <= TopOf(S)
           /\ S # {} => TopOf(S) \in S
<1>1. CASE S = {}
  BY <1>1 DEF TopOf
<1>2. CASE S # {}
  <2>1. Max(S) \in S /\ \A j \in S : Max(S) >= j
    BY <1>2, FiniteMax DEF Max
  <2>2. TopOf(S) = Max(S)
    BY <1>2 DEF TopOf
  <2>3. \A j \in S : j <= Max(S)
    BY <2>1
  <2> QED BY <2>1, <2>2, <2>3
<1> QED BY <1>1, <1>2

\* The greatest is the only one.
LEMMA TopIs ==
    ASSUME NEW S, S \subseteq Nat, IsFiniteSet(S), NEW n \in S, \A i \in S : i <= n
    PROVE  TopOf(S) = n
<1>1. TopOf(S) \in S /\ n <= TopOf(S)
  BY TopFacts
<1>2. TopOf(S) <= n /\ TopOf(S) \in Nat /\ n \in Nat
  BY <1>1
<1> QED BY <1>1, <1>2

-----------------------------------------------------------------------------
(* The log *)

LEMMA HeadFacts ==
    ASSUME TailTypeOK
    PROVE  LogHead \in Nat /\ \A id \in Ids : id \in 1..LogHead
<1>1. Ids \subseteq Nat /\ IsFiniteSet(Ids)
  BY DEF TailTypeOK
<1>2. LogHead \in Nat /\ \A id \in Ids : id <= LogHead
  BY <1>1, TopFacts DEF LogHead
<1> QED BY <1>2 DEF TailTypeOK

\* An append, with the compaction of a frame or without, adds the next id.
Grows ==
    /\ Ids' \subseteq Ids \cup {LogHead + 1} /\ LogHead' = LogHead + 1
    /\ IsFiniteSet(Ids') /\ log' \in [Ids' -> Types]

LEMMA AppendGrows ==
    ASSUME TailTypeOK, NEW e \in Types
    PROVE  /\ Appended(e) => Grows
           /\ log' = CompactedLog(AppendedTo(log, e)) => Grows
<1> DEFINE l == AppendedTo(log, e)
           all == Ids \cup {LogHead + 1}
<1>1. LogHead \in Nat /\ \A id \in Ids : id \in 1..LogHead
  BY HeadFacts
<1>2. all \subseteq Nat /\ IsFiniteSet(all)
  BY <1>1, FS_AddElement DEF TailTypeOK
<1>3. l \in [all -> Types] /\ DOMAIN l = all
  <2>1. l = [id \in all |-> IF id \in Ids THEN log[id] ELSE e]
    BY DEF AppendedTo, Ids, LogHead
  <2>2. \A id \in Ids : log[id] \in Types
    BY DEF TailTypeOK
  <2> HIDE DEF l
  <2> QED BY <2>1, <2>2
<1>4. TopOf(all) = LogHead + 1
  BY <1>1, <1>2, TopIs
<1>5. ASSUME Appended(e) PROVE Grows
  <2>1. log' = l
    BY <1>5 DEF Appended
  <2>2. Ids' = all /\ LogHead' = TopOf(all)
    BY <1>3, <2>1 DEF Ids, LogHead
  <2> HIDE DEF l
  <2> QED BY <1>2, <1>3, <1>4, <2>1, <2>2 DEF Grows
<1>6. ASSUME log' = CompactedLog(l) PROVE Grows
  <2> DEFINE kept == {i \in all : i = LogHead + 1 \/ l[i] # "frame"}
  <2>1. log' = [id \in kept |-> l[id]]
    <3> HIDE DEF l
    <3> QED BY <1>3, <1>4, <1>6 DEF CompactedLog
  <2>2. kept \subseteq all /\ LogHead + 1 \in kept
    OBVIOUS
  <2>3. IsFiniteSet(kept)
    <3> HIDE DEF kept
    <3> QED BY <1>2, <2>2, FS_Subset
  <2>4. TopOf(kept) = LogHead + 1
    <3>1. kept \subseteq Nat /\ \A i \in kept : i <= LogHead + 1
      <4>1. \A i \in all : i <= LogHead + 1
        BY <1>1
      <4> HIDE DEF kept, all
      <4> QED BY <1>2, <2>2, <4>1
    <3> HIDE DEF kept
    <3> QED BY <2>2, <2>3, <3>1, TopIs
  <2>5. Ids' = kept /\ LogHead' = TopOf(kept)
    <3> HIDE DEF kept
    <3> QED BY <2>1 DEF Ids, LogHead
  <2>6. log' \in [kept -> Types]
    <3> HIDE DEF kept, l
    <3> QED BY <1>3, <2>1, <2>2
  <2> HIDE DEF kept
  <2> QED BY <2>2, <2>3, <2>4, <2>5, <2>6 DEF Grows
<1> QED BY <1>5, <1>6

-----------------------------------------------------------------------------
(* Steps that move no event *)

Calm ==
    /\ log' = log \/ Grows
    /\ conn'.cursor = conn.cursor /\ conn'.batch = conn.batch
    /\ conn'.st = conn.st \/ (conn.st = "greeted" /\ conn'.st = "tailing")
    /\ page'.cursor = page.cursor /\ seen' = seen
    /\ Numbered' = Numbered /\ \A k \in Numbered : socket'[k].id = socket[k].id

LEMMA HeadStays == ASSUME TailTypeOK, log' = log \/ Grows
                   PROVE /\ LogHead \in Nat /\ LogHead' \in Nat /\ LogHead <= LogHead'
                         /\ \A id \in Ids' : id \in Ids \/ id = LogHead + 1
<1>1. LogHead \in Nat
  BY HeadFacts
<1>2. CASE log' = log
  BY <1>1, <1>2 DEF LogHead, Ids
<1>3. CASE Grows
  BY <1>1, <1>3 DEF Grows
<1> QED BY <1>2, <1>3

LEMMA SocketIds ==
    ASSUME TailTypeOK
    PROVE  /\ DOMAIN socket = 1..Len(socket) /\ Len(socket) \in Nat
           /\ \A k \in DOMAIN socket : socket[k] \in Notice /\ socket[k].id \in Nat
           /\ \A k \in Numbered : k \in 1..Len(socket) /\ socket[k].id \in Nat \ {0}
<1>1. socket \in Seq(Notice)
  BY DEF TailTypeOK
<1>2. DOMAIN socket = 1..Len(socket) /\ Len(socket) \in Nat /\ \A k \in 1..Len(socket) : socket[k] \in Notice
  BY <1>1, ElementOfSeq, LenProperties
<1>3. \A m \in Notice : m.id \in Nat
  BY DEF Notice
<1> QED BY <1>2, <1>3 DEF Numbered

LEMMA PassedUpToHead ==
    ASSUME TailTypeOK, InOrder PROVE \A id \in Passed : id \in Nat /\ id <= LogHead
<1>1. LogHead \in Nat
  BY HeadFacts
<1>2. \A k \in Numbered : socket[k].id \in Nat /\ socket[k].id <= LogHead
  BY SocketIds DEF InOrder
<1>3. conn.cursor \in Nat /\ conn.cursor <= LogHead
  BY <1>1 DEF TailTypeOK
<1> QED BY <1>1, <1>2, <1>3 DEF Passed

LEMMA CalmKeeps == ASSUME TailInv, Calm PROVE Reading' /\ Begun' /\ InOrder' /\ OnTheWay' /\ NoneSkipped'
<1> USE DEF TailInv
<1>1. /\ LogHead \in Nat /\ LogHead' \in Nat /\ LogHead <= LogHead'
      /\ \A id \in Ids' : id \in Ids \/ id = LogHead + 1
  BY HeadStays DEF Calm
<1>2. /\ conn.cursor \in Nat /\ conn.cursor <= LogHead
      /\ page.cursor \in Nat /\ page.cursor <= LogHead
  BY <1>1 DEF TailTypeOK
<1>3. \A m \in conn.batch : m.id \in Nat
  BY DEF TailTypeOK, Notice
<1>4. Reading'
  <2>1. conn'.st \in {"off", "accepted", "greeted"} => conn'.batch = {} /\ Numbered' = {}
    BY DEF Calm, Reading
  <2>2. conn'.st \in {"greeted", "tailing"} => page'.cursor <= conn'.cursor
    BY DEF Calm, Reading
  <2>3. \A m \in conn'.batch : m.id \in (conn'.cursor + 1)..LogHead'
    BY <1>1, <1>2, <1>3 DEF Calm, Reading
  <2>4. \A m, o \in conn'.batch : m.id = o.id => m = o
    BY DEF Calm, Reading
  <2>5. ASSUME NEW m \in conn'.batch, NEW id \in Ids', conn'.cursor < id, id <= m.id
        PROVE  \E o \in conn'.batch : o.id = id
    <3>1. m.id <= LogHead /\ m \in conn.batch
      BY <1>1, <1>2 DEF Calm, Reading
    <3>2. id \in Ids
      BY <1>1, <1>3, <2>5, <3>1
    <3> QED BY <2>5, <3>1, <3>2 DEF Calm, Reading
  <2> QED BY <2>1, <2>2, <2>3, <2>4, <2>5 DEF Reading
<1>5. Begun'
  BY DEF Calm, Begun
<1>6. Passed' = Passed /\ Sent' = Sent
  <2>1. conn'.st = "mute" <=> conn.st = "mute"
    BY DEF Calm
  <2> QED BY <2>1 DEF Calm, Passed, Sent
<1>7. InOrder'
  <2>1. \A k \in Numbered' : socket'[k].id = socket[k].id /\ k \in Numbered /\ socket[k].id \in Nat
    BY SocketIds DEF Calm
  <2>2. ASSUME NEW k \in Numbered'
        PROVE  /\ page'.cursor < socket'[k].id /\ socket'[k].id <= LogHead'
               /\ socket'[k].id \in Passed'
    <3>1. socket[k].id <= LogHead'
      BY <1>1, <2>1 DEF InOrder
    <3> QED BY <1>6, <2>1, <3>1 DEF InOrder, Calm
  <2>3. ASSUME NEW k \in Numbered', NEW n \in Numbered', k < n
        PROVE  socket'[k].id < socket'[n].id
    BY <2>1, <2>3 DEF InOrder
  <2> QED BY <2>2, <2>3 DEF InOrder
<1>8. OnTheWay'
  <2>1. SUFFICES ASSUME NEW id \in Ids' \cap Passed'
        PROVE /\ conn'.st # "off" /\ conn'.st # "accepted" /\ page'.cursor # 0 /\ page'.cursor < id => id \in Sent
              /\ \A k \in Numbered' : socket'[k].id <= id => id \in Sent
    BY <1>6 DEF OnTheWay
  <2>2. id \in Ids
    <3>1. LogHead + 1 \in Nat /\ ~(LogHead + 1 <= LogHead)
      BY <1>1
    <3> QED BY <1>1, <1>6, <2>1, <3>1, PassedUpToHead
  <2> QED BY <1>6, <2>1, <2>2 DEF OnTheWay, Calm
<1>9. NoneSkipped'
  <2>1. \A id \in Ids' : id <= page.cursor => id \in Ids
    BY <1>1, <1>2
  <2> QED BY <2>1 DEF NoneSkipped, Calm
<1> QED BY <1>4, <1>5, <1>7, <1>8, <1>9

-----------------------------------------------------------------------------
(* The gateway's steps *)

Kept == Begun /\ Reading /\ InOrder /\ OnTheWay /\ NoneSkipped

LEMMA PagesFacts ==
    ASSUME TailTypeOK
    PROVE  /\ LogHead \in Nat /\ conn.cursor \in 0..LogHead /\ page.cursor \in 0..LogHead
           /\ \A m \in conn.batch : m \in Notice /\ m.id \in Nat
           /\ \A id \in Ids : id \in 1..LogHead
<1>1. LogHead \in Nat /\ \A id \in Ids : id \in 1..LogHead
  BY HeadFacts
<1>2. \A m \in Notice : m.id \in Nat
  BY DEF Notice
<1> QED BY <1>1, <1>2 DEF TailTypeOK

\* A connection that is new or gone has nothing on the way.
LEMMA EmptyKeeps ==
    ASSUME TailInv, log' = log, page'.cursor = page.cursor, seen' = seen,
           conn'.st \in {"off", "accepted"}, conn'.cursor = 0, conn'.batch = {}, Numbered' = {}
    PROVE  Kept'
<1> USE DEF TailInv
<1>1. Ids' = Ids /\ LogHead' = LogHead /\ \A id \in Ids : id \in 1..LogHead
  BY PagesFacts DEF Ids, LogHead
<1>2. Reading' /\ InOrder'
  BY DEF Reading, InOrder
<1>3. OnTheWay'
  <2>1. Passed' = 0..0
    BY DEF Passed
  <2>2. Ids' \cap Passed' = {}
    BY <1>1, <2>1
  <2> QED BY <2>2 DEF OnTheWay
<1>4. Begun' /\ NoneSkipped'
  BY <1>1 DEF Begun, NoneSkipped
<1> QED BY <1>2, <1>3, <1>4 DEF Kept

LEMMA ConnectKeeps == ASSUME TailInv, Connect PROVE Kept'
<1>1. conn.st = "off" /\ conn' = [st |-> "accepted", cursor |-> 0, batch |-> {}]
  BY DEF Connect, Registered, Off
<1>2. Numbered' = {}
  BY <1>1 DEF Connect, Numbered, TailInv, Reading
<1> QED BY <1>1, <1>2, EmptyKeeps DEF Connect, server

LEMMA LostKeeps == ASSUME TailInv, Disconnect \/ ReloadPage PROVE Kept'
<1>1. conn' = [st |-> "off", cursor |-> 0, batch |-> {}] /\ socket' = <<>>
  BY DEF Disconnect, ReloadPage, Lose, Off
<1>2. Numbered' = {}
  <2>1. DOMAIN socket' = {}
    BY <1>1
  <2> QED BY <2>1 DEF Numbered
<1>3. log' = log /\ page'.cursor = page.cursor /\ seen' = seen
  BY DEF Disconnect, ReloadPage, Lose, FreshTab, server
<1> QED BY <1>1, <1>2, <1>3, EmptyKeeps

LEMMA AppendedSocket ==
    ASSUME TailTypeOK, NEW m \in Notice, socket' = Append(socket, m)
    PROVE  /\ Len(socket) \in Nat
           /\ \A k \in Numbered : k \in 1..Len(socket) /\ socket'[k] = socket[k]
           /\ socket'[Len(socket) + 1] = m
           /\ m.id = 0 => Numbered' = Numbered
           /\ m.id # 0 => Numbered' = Numbered \cup {Len(socket) + 1}
           /\ socket' \in Seq(Notice)
<1>1. socket \in Seq(Notice)
  BY DEF TailTypeOK
<1>2. DOMAIN socket = 1..Len(socket) /\ Len(socket) \in Nat
  BY SocketIds
<1>3. /\ socket' \in Seq(Notice) /\ Len(socket') = Len(socket) + 1
      /\ \A k \in 1..Len(socket) : socket'[k] = socket[k]
      /\ socket'[Len(socket) + 1] = m
  BY <1>1, AppendProperties
<1>4. DOMAIN socket' = 1..(Len(socket) + 1)
  BY <1>3, LenProperties
<1>5. DOMAIN socket' = DOMAIN socket \cup {Len(socket) + 1}
  BY <1>2, <1>4
<1>6. Numbered \subseteq 1..Len(socket)
  BY <1>2 DEF Numbered
<1>7. \A k \in DOMAIN socket : socket'[k] = socket[k]
  BY <1>2, <1>3
<1>8. (m.id = 0 => Numbered' = Numbered) /\ (m.id # 0 => Numbered' = Numbered \cup {Len(socket) + 1})
  BY <1>3, <1>5, <1>7 DEF Numbered
<1> QED BY <1>2, <1>3, <1>6, <1>8

LEMMA UnnumberedIn == \A type \in Types \cup {"connected"} : Unnumbered(type) \in Notice /\ Unnumbered(type).id = 0
  BY DEF Unnumbered, WsMessage, Notice

\* A message without an id is no event of the log.
LEMMA ToldCalm ==
    ASSUME TailTypeOK, NEW m \in Notice, m.id = 0, socket' = socket \/ socket' = Append(socket, m)
    PROVE  Numbered' = Numbered /\ \A k \in Numbered : socket'[k].id = socket[k].id
<1>1. CASE socket' = socket
  BY <1>1 DEF Numbered
<1>2. CASE socket' = Append(socket, m)
  BY <1>2, AppendedSocket
<1> QED BY <1>1, <1>2

LEMMA SameSocket ==
    ASSUME socket' = socket
    PROVE  Numbered' = Numbered /\ \A k \in Numbered : socket'[k].id = socket[k].id
  BY DEF Numbered

LEMMA GreetKeeps == ASSUME TailInv, Greet PROVE Kept'
<1> USE DEF TailInv
<1>1. /\ LogHead \in Nat /\ page.cursor \in 0..LogHead
      /\ \A id \in Ids : id \in 1..LogHead
  BY PagesFacts
<1>2. StartAt(page.cursor) = IF page.cursor = 0 THEN LogHead ELSE page.cursor
  <2>1. CASE page.cursor = 0
    BY <2>1 DEF StartAt
  <2>2. CASE page.cursor # 0
    <3>1. Min({page.cursor, LogHead}) \in {page.cursor, LogHead} /\ Min({page.cursor, LogHead}) <= page.cursor
      BY <1>1, MinIn
    <3> QED BY <1>1, <2>2, <3>1 DEF StartAt
  <2> QED BY <2>1, <2>2
<1>3. /\ conn.st = "accepted" /\ conn'.st = "greeted" /\ conn'.cursor = StartAt(page.cursor)
      /\ conn'.batch = {}
  <2>1. conn.batch = {}
    BY DEF Greet, Reading
  <2> QED BY <2>1 DEF Greet, TailTypeOK
<1>4. Numbered' = {} /\ log' = log /\ page' = page /\ seen' = seen
  <2>1. Numbered' = Numbered
    BY UnnumberedIn, ToldCalm DEF Greet
  <2> QED BY <1>3, <2>1 DEF Greet, server, Reading
<1>5. Ids' = Ids /\ LogHead' = LogHead
  BY <1>4 DEF Ids, LogHead
<1>6. Reading'
  BY <1>1, <1>2, <1>3, <1>4 DEF Reading
<1>7. InOrder'
  BY <1>4 DEF InOrder
<1>8. OnTheWay'
  <2>1. SUFFICES ASSUME NEW id \in Ids \cap Passed', page.cursor # 0, page.cursor < id PROVE FALSE
    BY <1>4, <1>5 DEF OnTheWay
  <2>2. id \in 0..page.cursor
    BY <1>2, <1>3, <2>1 DEF Passed
  <2> QED BY <1>1, <2>1, <2>2
<1>9. Begun' /\ NoneSkipped'
  BY <1>4, <1>5 DEF Begun, NoneSkipped
<1> QED BY <1>6, <1>7, <1>8, <1>9 DEF Kept

LEMMA FirstOfBehind ==
    ASSUME TailTypeOK, NEW id \in Behind, NEW i \in Behind, i <= id,
           Cardinality({n \in Behind : n <= id}) <= BatchSize
    PROVE  Cardinality({n \in Behind : n <= i}) <= BatchSize
<1> DEFINE U == {n \in Behind : n <= id}
           V == {n \in Behind : n <= i}
<1>1. Behind \subseteq Nat /\ IsFiniteSet(Behind)
  BY FS_Subset DEF Behind, TailTypeOK
<1>2. V \subseteq U /\ U \subseteq Behind
  <2>1. i \in Nat /\ id \in Nat
    BY <1>1
  <2>2. \A n \in Nat : n <= i => n <= id
    BY <2>1
  <2> QED BY <1>1, <2>2
<1>3. IsFiniteSet(U) /\ IsFiniteSet(V) /\ Cardinality(V) <= Cardinality(U)
  <2> HIDE DEF U, V
  <2> QED BY <1>1, <1>2, FS_Subset
<1>4. Cardinality(U) \in Nat /\ Cardinality(V) \in Nat
  <2> HIDE DEF U, V
  <2> QED BY <1>3, FS_CardinalityType
<1> HIDE DEF U, V
<1>5. Cardinality(U) <= BatchSize
  BY DEF U
<1>6. Cardinality(V) <= BatchSize
  BY <1>3, <1>4, <1>5, BatchAssumption
<1> QED BY <1>6 DEF V

LEMMA QueryKeeps == ASSUME TailInv, QueryLog PROVE Kept'
<1> USE DEF TailInv
<1> DEFINE first == {id \in Behind : Cardinality({i \in Behind : i <= id}) <= BatchSize}
           found == {WsMessage(id, log[id]) : id \in first}
<1>1. conn.st = "tailing" /\ conn' = [conn EXCEPT !.batch = found]
  BY DEF QueryLog
<1>2. log' = log /\ socket' = socket /\ page' = page /\ seen' = seen
  BY DEF QueryLog, server
<1>3. /\ conn'.st = "tailing" /\ conn'.cursor = conn.cursor /\ conn'.batch = found
  <2> HIDE DEF found
  <2> QED BY <1>1 DEF TailTypeOK
<1>4. /\ Ids' = Ids /\ LogHead' = LogHead /\ Numbered' = Numbered
      /\ Passed' = Passed /\ Sent' = Sent
  BY <1>1, <1>2, <1>3 DEF Ids, LogHead, Numbered, Passed, Sent
<1>5. ASSUME NEW m \in found PROVE m.id \in first /\ m = WsMessage(m.id, log[m.id])
  <2>1. PICK id \in first : m = WsMessage(id, log[id])
    <3> HIDE DEF first
    <3> QED BY <1>5
  <2>2. m.id = id
    BY <2>1 DEF WsMessage
  <2> HIDE DEF first
  <2> QED BY <2>1, <2>2
<1>6. ASSUME NEW id \in first PROVE \E o \in found : o.id = id
  <2> DEFINE o == WsMessage(id, log[id])
  <2>1. o \in found /\ o.id = id
    <3> HIDE DEF first
    <3> QED BY <1>6 DEF WsMessage
  <2> HIDE DEF o, found
  <2> QED BY <2>1
<1>7. first \subseteq Behind
  OBVIOUS
<1>8. \A id \in first, i \in Behind : i <= id => i \in first
  BY FirstOfBehind
<1> HIDE DEF first, found
<1>9. \A id \in Behind : id \in (conn.cursor + 1)..LogHead
  BY PagesFacts DEF Behind
<1>10. Reading'
  <2>1. ASSUME NEW m \in found, NEW id \in Ids, conn.cursor < id, id <= m.id
        PROVE  \E o \in found : o.id = id
    <3>1. id \in Behind
      BY <2>1 DEF Behind
    <3>2. id \in first
      BY <1>5, <1>8, <2>1, <3>1
    <3> QED BY <1>6, <3>2
  <2>2. \A m \in found : m.id \in (conn.cursor + 1)..LogHead
    BY <1>5, <1>7, <1>9
  <2>3. \A m, o \in found : m.id = o.id => m = o
    BY <1>5
  <2>4. page.cursor <= conn.cursor
    BY <1>1 DEF Reading
  <2> QED BY <1>2, <1>3, <1>4, <2>1, <2>2, <2>3, <2>4 DEF Reading
<1>11. InOrder'
  BY <1>2, <1>4 DEF InOrder
<1>12. OnTheWay'
  BY <1>1, <1>2, <1>3, <1>4 DEF OnTheWay
<1>13. Begun' /\ NoneSkipped'
  BY <1>2, <1>4 DEF Begun, NoneSkipped
<1> QED BY <1>10, <1>11, <1>12, <1>13 DEF Kept

LEMMA SendNextKeeps == ASSUME TailInv, SendNext PROVE Kept'
<1> USE DEF TailInv
<1>1. PICK m \in conn.batch :
        /\ \A o \in conn.batch : m.id <= o.id
        /\ conn' = [conn EXCEPT !.batch = @ \ {m}, !.cursor = m.id]
        /\ socket' = Append(socket, m)
  BY DEF SendNext
<1>2. /\ LogHead \in Nat /\ conn.cursor \in Nat /\ page.cursor \in Nat
      /\ \A o \in conn.batch : o \in Notice /\ o.id \in Nat
      /\ \A id \in Ids : id \in Nat
  BY PagesFacts
<1>3. conn.st = "tailing" /\ log' = log /\ page' = page /\ seen' = seen
  BY DEF SendNext, server
<1>4. conn'.st = "tailing" /\ conn'.cursor = m.id /\ conn'.batch = conn.batch \ {m}
  BY <1>1, <1>3 DEF TailTypeOK
<1>5. m.id > conn.cursor /\ m.id <= LogHead /\ page.cursor <= conn.cursor /\ m.id # 0
  BY <1>2, <1>3 DEF Reading
<1> DEFINE n == Len(socket) + 1
<1>6. /\ Numbered' = Numbered \cup {n} /\ socket'[n] = m /\ Len(socket) \in Nat
      /\ \A k \in Numbered : k \in 1..Len(socket) /\ socket'[k] = socket[k]
  BY <1>1, <1>2, <1>5, AppendedSocket
<1>7. Ids' = Ids /\ LogHead' = LogHead
  BY <1>3 DEF Ids, LogHead
<1>8. Passed = 0..conn.cursor /\ Passed' = 0..m.id
  BY <1>3, <1>4 DEF Passed
<1>9. \A k \in Numbered : socket[k].id \in Nat \ {0} /\ socket[k].id <= conn.cursor
  BY <1>2, <1>8, SocketIds DEF InOrder
<1>10. Reading'
  <2>1. ASSUME NEW o \in conn.batch \ {m} PROVE o.id \in (m.id + 1)..LogHead
    <3>1. o.id # m.id /\ m.id <= o.id /\ o.id <= LogHead
      BY <1>1, <1>2 DEF Reading
    <3> QED BY <1>2, <3>1
  <2>2. ASSUME NEW o \in conn.batch \ {m}, NEW id \in Ids, m.id < id, id <= o.id
        PROVE  \E p \in conn.batch \ {m} : p.id = id
    <3>1. conn.cursor < id
      BY <1>2, <1>5, <2>2
    <3>2. PICK p \in conn.batch : p.id = id
      BY <2>2, <3>1 DEF Reading
    <3>3. p # m
      BY <1>2, <2>2, <3>2
    <3> QED BY <3>2, <3>3
  <2>3. page.cursor <= m.id
    BY <1>2, <1>5
  <2>4. \A p, o \in conn.batch \ {m} : p.id = o.id => p = o
    BY DEF Reading
  <2> QED BY <1>3, <1>4, <1>7, <2>1, <2>2, <2>3, <2>4 DEF Reading
<1>11. InOrder'
  <2>1. ASSUME NEW k \in Numbered
        PROVE  /\ page.cursor < socket'[k].id /\ socket'[k].id <= LogHead
               /\ socket'[k].id \in 0..m.id
    BY <1>2, <1>5, <1>6, <1>9 DEF InOrder
  <2>2. page.cursor < socket'[n].id /\ socket'[n].id <= LogHead /\ socket'[n].id \in 0..m.id
    BY <1>2, <1>5, <1>6
  <2>3. ASSUME NEW k \in Numbered', NEW j \in Numbered', k < j
        PROVE  socket'[k].id < socket'[j].id
    <3>1. CASE k \in Numbered /\ j \in Numbered
      BY <1>6, <2>3, <3>1 DEF InOrder
    <3>2. CASE k \in Numbered /\ j = n
      BY <1>2, <1>5, <1>6, <1>9, <3>2
    <3>3. CASE k = n
      BY <1>6, <2>3, <3>3
    <3> QED BY <1>6, <3>1, <3>2, <3>3
  <2> QED BY <1>3, <1>6, <1>7, <1>8, <2>1, <2>2, <2>3 DEF InOrder
<1>12. OnTheWay'
  <2>1. Sent' = Sent \cup {m.id}
    BY <1>6 DEF Sent
  <2>2. SUFFICES ASSUME NEW id \in Ids, id \in 0..m.id
        PROVE  /\ page.cursor < id /\ page.cursor # 0 => id \in Sent'
               /\ \A k \in Numbered' : socket'[k].id <= id => id \in Sent'
    BY <1>3, <1>7, <1>8 DEF OnTheWay
  <2>3. CASE id <= conn.cursor
    <3>1. id \in Passed
      BY <1>2, <1>8, <2>3
    <3>2. page.cursor < id /\ page.cursor # 0 => id \in Sent
      BY <1>3, <3>1 DEF OnTheWay
    <3>3. ASSUME NEW k \in Numbered', socket'[k].id <= id PROVE id \in Sent'
      <4>1. k \in Numbered
        BY <1>2, <1>5, <1>6, <2>3, <3>3
      <4>2. socket[k].id <= id
        BY <1>6, <3>3, <4>1
      <4> QED BY <2>1, <3>1, <4>1, <4>2 DEF OnTheWay
    <3> QED BY <2>1, <3>2, <3>3
  <2>4. CASE conn.cursor < id
    <3>1. PICK o \in conn.batch : o.id = id
      BY <2>2, <2>4 DEF Reading
    <3>2. id = m.id
      BY <1>1, <1>2, <2>2, <3>1
    <3> QED BY <2>1, <3>2
  <2> QED BY <1>2, <2>3, <2>4
<1>13. Begun' /\ NoneSkipped'
  BY <1>3, <1>7 DEF Begun, NoneSkipped
<1> QED BY <1>10, <1>11, <1>12, <1>13 DEF Kept

LEMMA DiesKeeps == ASSUME TailInv, TailDies PROVE Kept'
<1> USE DEF TailInv
<1>1. conn.st = "tailing" /\ conn' = [st |-> "mute", cursor |-> 0, batch |-> {}]
  BY DEF TailDies, Off
<1>2. log' = log /\ socket' = socket /\ page' = page /\ seen' = seen
  BY DEF TailDies, server
<1>3. Ids' = Ids /\ LogHead' = LogHead /\ Numbered' = Numbered /\ Sent' = Sent
  BY <1>2 DEF Ids, LogHead, Numbered, Sent
<1>4. /\ Passed = 0..conn.cursor
      /\ Passed' = {id \in Nat : \E k \in Numbered : id <= socket[k].id}
  BY <1>1, <1>2, <1>3 DEF Passed
<1>5. \A k \in Numbered : socket[k].id \in Nat /\ socket[k].id \in Passed
  BY SocketIds DEF InOrder
<1>6. Passed' \subseteq Passed
  <2>1. conn.cursor \in Nat
    BY PagesFacts
  <2> QED BY <1>4, <1>5, <2>1
<1>7. InOrder'
  <2>1. \A k \in Numbered : socket[k].id \in Passed'
    BY <1>4, <1>5
  <2> QED BY <1>2, <1>3, <2>1 DEF InOrder
<1>8. OnTheWay'
  BY <1>1, <1>2, <1>3, <1>6 DEF OnTheWay
<1>9. Reading'
  BY <1>1 DEF Reading
<1>10. Begun' /\ NoneSkipped'
  BY <1>2, <1>3 DEF Begun, NoneSkipped
<1> QED BY <1>7, <1>8, <1>9, <1>10 DEF Kept

-----------------------------------------------------------------------------
(* The page's steps *)

LEMMA MessageCursor ==
    ASSUME TailTypeOK, NEW m \in Notice
    PROVE  OnMessage(page, m).cursor = IF m.id = 0 THEN page.cursor ELSE m.id
<1>1. DOMAIN page = {"cursor", "view", "runQuery", "stale"}
  BY DEF TailTypeOK
<1> QED BY <1>1 DEF OnMessage, Asking, Noted

\* What is left of the socket when its first message is taken.
LEMMA TakenSocket ==
    ASSUME TailTypeOK, socket # <<>>, socket' = Tail(socket)
    PROVE  /\ 1 \in DOMAIN socket /\ socket[1] \in Notice /\ socket' \in Seq(Notice)
           /\ \A k \in Numbered' : k \in Nat \ {0} /\ k + 1 \in Numbered /\ socket'[k] = socket[k + 1]
           /\ \A k \in Numbered : k # 1 => k - 1 \in Numbered' /\ socket'[k - 1] = socket[k]
<1>1. socket \in Seq(Notice) /\ DOMAIN socket = 1..Len(socket) /\ Len(socket) \in Nat
  BY SocketIds DEF TailTypeOK
<1>2. /\ socket' \in Seq(Notice) /\ Len(socket') = Len(socket) - 1 /\ Len(socket') \in Nat
      /\ DOMAIN socket' = 1..Len(socket')
      /\ \A k \in 1..Len(socket') : socket'[k] = socket[k + 1]
  <2>1. /\ socket' \in Seq(Notice) /\ Len(socket') = Len(socket) - 1
        /\ \A k \in 1..Len(socket') : socket'[k] = socket[k + 1]
    BY <1>1, HeadTailProperties
  <2> QED BY <2>1, LenProperties
<1>3. 1 \in DOMAIN socket
  BY <1>1, <1>2
<1>4. \A k \in Numbered' : k \in Nat \ {0} /\ k + 1 \in Numbered /\ socket'[k] = socket[k + 1]
  <2>1. \A k \in 1..Len(socket') : k \in Nat \ {0} /\ k + 1 \in 1..Len(socket)
    BY <1>1, <1>2
  <2> QED BY <1>1, <1>2, <2>1 DEF Numbered
<1>5. ASSUME NEW k \in Numbered, k # 1 PROVE k - 1 \in Numbered' /\ socket'[k - 1] = socket[k]
  <2>1. k \in 1..Len(socket) /\ socket[k].id # 0
    BY <1>1 DEF Numbered
  <2>2. k - 1 \in 1..Len(socket') /\ (k - 1) + 1 = k
    BY <1>1, <1>2, <1>5, <2>1
  <2>3. socket'[k - 1] = socket[k]
    BY <1>2, <2>2
  <2> QED BY <1>2, <2>1, <2>2, <2>3 DEF Numbered
<1> QED BY <1>1, <1>2, <1>3, <1>4, <1>5, SocketIds

LEMMA ReceiveKeeps == ASSUME TailInv, Receive PROVE Kept'
<1> USE DEF TailInv
<1> DEFINE m == socket[1]
<1>1. /\ 1 \in DOMAIN socket /\ m \in Notice /\ m.id \in Nat
      /\ \A k \in Numbered' : k \in Nat \ {0} /\ k + 1 \in Numbered /\ socket'[k] = socket[k + 1]
      /\ \A k \in Numbered : k # 1 => k - 1 \in Numbered' /\ socket'[k - 1] = socket[k]
  BY TakenSocket, SocketIds DEF Receive
<1>2. log' = log /\ conn' = conn
  BY DEF Receive, server
<1>3. Ids' = Ids /\ LogHead' = LogHead
  BY <1>2 DEF Ids, LogHead
<1>4. /\ LogHead \in Nat /\ conn.cursor \in Nat /\ page.cursor \in Nat
      /\ \A id \in Ids : id \in Nat \ {0}
  BY PagesFacts
<1>5. 1 \in Numbered <=> m.id # 0
  BY <1>1 DEF Numbered
<1>6. /\ page'.cursor = IF m.id = 0 THEN page.cursor ELSE m.id
      /\ seen' = IF m.id = 0 THEN seen ELSE seen \cup {m.id}
  <2>1. ~Known(m)
    <3>1. m.id # 0 => page.cursor < m.id
      BY <1>5 DEF InOrder
    <3> HIDE DEF m
    <3>2. m.id \in Nat
      BY <1>1
    <3> QED BY <1>4, <3>1, <3>2 DEF Known
  <2>2. page' = OnMessage(page, m) /\ seen' = IF m.id = 0 THEN seen ELSE seen \cup {m.id}
    BY <2>1 DEF Receive
  <2> QED BY <1>1, <2>2, MessageCursor
<1>7. \A k \in Numbered : socket[k].id \in Nat \ {0} /\ k \in Nat \ {0}
  BY SocketIds
<1>8. 1 \in Numbered => \A k \in Numbered : k # 1 => m.id < socket[k].id
  BY <1>7 DEF InOrder
<1>9. Passed' \subseteq Passed /\ \A k \in Numbered' : socket'[k].id \in Passed'
  <2>1. CASE conn.st = "mute"
    <3>1. \A k \in Numbered' : k + 1 \in Numbered /\ socket'[k].id = socket[k + 1].id /\ socket'[k].id \in Nat
      BY <1>1, <1>7
    <3> QED BY <1>2, <2>1, <3>1 DEF Passed
  <2>2. CASE conn.st # "mute"
    <3>1. Passed' = Passed
      BY <1>2, <2>2 DEF Passed
    <3> QED BY <1>1, <3>1 DEF InOrder
  <2> QED BY <2>1, <2>2
<1> HIDE DEF m
<1>10. Reading'
  <2>1. conn.st \in {"off", "accepted", "greeted"} => Numbered' = {}
    BY <1>1 DEF Reading
  <2>2. ASSUME conn.st \in {"greeted", "tailing"} PROVE page'.cursor <= conn.cursor
    <3>1. CASE m.id = 0
      BY <1>6, <2>2, <3>1 DEF Reading
    <3>2. CASE m.id # 0
      <4>1. m.id \in Passed
        BY <1>5, <3>2 DEF InOrder, m
      <4> QED BY <1>4, <1>6, <2>2, <3>2, <4>1 DEF Passed
    <3> QED BY <3>1, <3>2
  <2> QED BY <1>2, <1>3, <2>1, <2>2 DEF Reading
<1>11. InOrder'
  <2>1. ASSUME NEW k \in Numbered' PROVE page'.cursor < socket'[k].id /\ socket'[k].id <= LogHead
    <3>1. k + 1 \in Numbered /\ k + 1 # 1 /\ socket'[k] = socket[k + 1]
      BY <1>1
    <3>2. page.cursor < socket[k + 1].id /\ socket[k + 1].id <= LogHead
      BY <3>1 DEF InOrder
    <3>3. m.id # 0 => m.id < socket[k + 1].id
      BY <1>5, <1>8, <3>1
    <3> QED BY <1>6, <3>1, <3>2, <3>3
  <2>2. ASSUME NEW k \in Numbered', NEW j \in Numbered', k < j PROVE socket'[k].id < socket'[j].id
    <3>1. k + 1 \in Numbered /\ j + 1 \in Numbered /\ k + 1 < j + 1
      BY <1>1, <2>2
    <3> QED BY <1>1, <3>1 DEF InOrder
  <2> QED BY <1>3, <1>9, <2>1, <2>2 DEF InOrder
<1>12. \A id \in Sent : id # m.id => id \in Sent'
  <2>1. SUFFICES ASSUME NEW k \in Numbered, socket[k].id # m.id PROVE socket[k].id \in Sent'
    BY DEF Sent
  <2>2. k # 1
    BY <2>1 DEF m
  <2> QED BY <1>1, <2>2 DEF Sent
<1>13. OnTheWay'
  <2>1. SUFFICES ASSUME NEW id \in Ids \cap Passed
        PROVE  /\ conn.st # "off" /\ conn.st # "accepted" /\ page'.cursor # 0 /\ page'.cursor < id => id \in Sent'
               /\ \A k \in Numbered' : socket'[k].id <= id => id \in Sent'
    BY <1>2, <1>3, <1>9 DEF OnTheWay
  <2>2. ASSUME conn.st # "off", conn.st # "accepted", page'.cursor # 0, page'.cursor < id
        PROVE  id \in Sent'
    <3>1. CASE m.id = 0
      BY <1>4, <1>6, <1>12, <2>1, <2>2, <3>1 DEF OnTheWay
    <3>2. CASE m.id # 0
      <4>1. id # m.id /\ m.id <= id
        BY <1>1, <1>4, <1>6, <2>2, <3>2 DEF m
      <4>2. id \in Sent
        BY <1>5, <2>1, <3>2, <4>1 DEF OnTheWay, m
      <4> QED BY <1>12, <4>1, <4>2
    <3> QED BY <3>1, <3>2
  <2>3. ASSUME NEW k \in Numbered', socket'[k].id <= id PROVE id \in Sent'
    <3>1. k + 1 \in Numbered /\ k + 1 # 1 /\ socket[k + 1].id <= id /\ socket[k + 1].id \in Nat
      BY <1>1, <1>7, <2>3
    <3>2. id \in Sent
      BY <2>1, <3>1 DEF OnTheWay
    <3>3. id # m.id
      <4>1. CASE m.id = 0
        BY <1>4, <4>1
      <4>2. CASE m.id # 0
        <5>1. m.id < socket[k + 1].id
          BY <1>5, <1>8, <3>1, <4>2
        <5>2. m.id \in Nat /\ id \in Nat
          BY <1>1, <1>4 DEF m
        <5> QED BY <3>1, <5>1, <5>2
      <4> QED BY <4>1, <4>2
    <3> QED BY <1>12, <3>2, <3>3
  <2> QED BY <2>2, <2>3
<1>14. Begun'
  <2>1. m.id # 0 => page'.cursor # 0 /\ seen' # {}
    BY <1>6
  <2> QED BY <1>6, <2>1 DEF Begun
<1>15. NoneSkipped'
  <2>1. CASE m.id = 0
    BY <1>3, <1>6, <2>1 DEF NoneSkipped
  <2>2. CASE m.id # 0
    <3>1. /\ page'.cursor = m.id /\ seen' = seen \cup {m.id} /\ m.id \in Nat
          /\ seen \subseteq 1..page.cursor /\ page.cursor < m.id
      BY <1>1, <1>5, <1>6, <2>2 DEF TailTypeOK, InOrder, m
    <3>2. SUFFICES ASSUME NEW id \in Ids, Min(seen \cup {m.id}) <= id, id <= m.id PROVE id \in seen \cup {m.id}
      BY <1>3, <3>1 DEF NoneSkipped
    <3>3. CASE seen = {}
      <4>1. Min({m.id}) = m.id
        BY <3>1, MinIn
      <4> QED BY <1>4, <3>1, <3>2, <3>3, <4>1
    <3>4. CASE seen # {} /\ id <= page.cursor
      <4>1. seen \subseteq Nat
        BY <1>4, <3>1
      <4>2. Min(seen) \in seen /\ \A i \in seen : Min(seen) <= i
        BY <3>4, <4>1, MinIn
      <4>3. Min(seen \cup {m.id}) \in seen \cup {m.id}
        BY <3>1, <4>1, MinIn
      <4>4. Min(seen) <= id
        <5>1. CASE Min(seen \cup {m.id}) \in seen
          <6>1. Min(seen) <= Min(seen \cup {m.id})
            BY <4>2, <5>1
          <6>2. Min(seen) \in Nat /\ Min(seen \cup {m.id}) \in Nat /\ id \in Nat
            BY <1>4, <4>1, <4>2, <5>1
          <6> QED BY <3>2, <6>1, <6>2
        <5>2. CASE Min(seen \cup {m.id}) = m.id
          BY <1>4, <3>1, <3>2, <3>4, <5>2
        <5> QED BY <4>3, <5>1, <5>2
      <4> QED BY <3>4, <4>4 DEF NoneSkipped
    <3>5. CASE seen # {} /\ ~(id <= page.cursor)
      <4>1. 1 \in Numbered /\ m.id \in Passed
        BY <1>5, <2>2 DEF InOrder, m
      <4>2. conn.st # "off" /\ conn.st # "accepted"
        BY <4>1 DEF Reading
      <4>3. id \in Passed
        <5>1. CASE conn.st = "mute"
          BY <1>4, <3>2, <4>1, <5>1 DEF Passed, m
        <5>2. CASE conn.st # "mute"
          BY <1>4, <3>1, <3>2, <4>1, <5>2 DEF Passed
        <5> QED BY <5>1, <5>2
      <4>4. page.cursor # 0 /\ page.cursor < id
        BY <1>4, <3>5 DEF Begun
      <4>5. id \in Sent
        BY <4>2, <4>3, <4>4 DEF OnTheWay
      <4>6. PICK k \in Numbered : socket[k].id = id
        BY <4>5 DEF Sent
      <4>7. k = 1
        <5>1. k # 1 => m.id < id
          BY <1>8, <4>1, <4>6
        <5> QED BY <1>4, <3>1, <3>2, <5>1
      <4> QED BY <4>6, <4>7 DEF m
    <3> QED BY <3>3, <3>4, <3>5
  <2> QED BY <2>1, <2>2
<1> QED BY <1>10, <1>11, <1>13, <1>14, <1>15 DEF Kept

-----------------------------------------------------------------------------
(* Types *)

LEMMA HeadKept ==
    ASSUME TailTypeOK, log' = log \/ Grows, NEW n \in 0..LogHead
    PROVE  n \in 0..LogHead'
  BY HeadStays

Upstream == Progress \/ Frame \/ EnterGate \/ LeaveGate \/ EndRun \/ Announce \/ UserStep
LEMMA UpstreamStays ==
    ASSUME TailTypeOK, Upstream
    PROVE  /\ log' = log \/ Grows
           /\ UNCHANGED <<conn, socket, page, seen>>
<1>1. ASSUME Progress PROVE Grows
  BY <1>1, AppendGrows DEF Progress, Types
<1>2. ASSUME Frame PROVE Grows
  BY <1>2, AppendGrows DEF Frame, Types
<1>3. ASSUME EndRun PROVE Grows
  BY <1>3, AppendGrows DEF EndRun, Types
<1>4. ASSUME Announce PROVE Grows
  <2>1. say \in Types
    BY <1>4 DEF Announce, TailTypeOK, Types, Quiet
  <2> QED BY <1>4, <2>1, AppendGrows DEF Announce
<1>5. CASE Progress
  BY <1>1, <1>5 DEF Progress
<1>6. CASE Frame
  BY <1>2, <1>6 DEF Frame
<1>7. CASE EndRun
  BY <1>3, <1>7 DEF EndRun
<1>8. CASE Announce
  BY <1>4, <1>8 DEF Announce
<1>9. CASE EnterGate \/ LeaveGate \/ UserStep
  BY <1>9 DEF EnterGate, LeaveGate, UserStep, StartRun, EndByGateway
<1> QED BY <1>5, <1>6, <1>7, <1>8, <1>9 DEF Upstream

LEMMA LogType ==
    ASSUME TailTypeOK, log' = log \/ Grows
    PROVE  Ids' \subseteq Nat \ {0} /\ IsFiniteSet(Ids') /\ log' \in [Ids' -> Types]
<1>1. CASE log' = log
  BY <1>1 DEF TailTypeOK, Ids
<1>2. CASE Grows
  BY <1>2, HeadFacts DEF TailTypeOK, Grows
<1> QED BY <1>1, <1>2

LEMMA UpstreamType == ASSUME TailTypeOK, Upstream PROVE TailTypeOK'
<1>1. /\ log' = log \/ Grows
      /\ UNCHANGED <<conn, socket, page, seen>>
  BY UpstreamStays
<1>2. Ids' \subseteq Nat \ {0} /\ IsFiniteSet(Ids') /\ log' \in [Ids' -> Types]
  BY <1>1, LogType
<1>3. LogHead \in Nat /\ LogHead' \in Nat /\ LogHead <= LogHead'
  BY <1>1, HeadStays
<1>4. run' \in Statuses /\ say' \in {Quiet, "started", "gate", "confirmed"} /\ sends' \subseteq Types
  BY DEF Upstream, Progress, Frame, EnterGate, LeaveGate, EndRun, Announce, UserStep, StartRun,
         EndByGateway, TailTypeOK, Statuses, Types, Endings
<1>5. conn \in [st : {"off", "accepted", "greeted", "tailing", "mute"},
                cursor : 0..LogHead', batch : SUBSET Notice]
  BY <1>3 DEF TailTypeOK
<1>6. page \in [cursor : 0..LogHead', view : View, runQuery : Statuses \cup {NoQuery, Asked}, stale : BOOLEAN]
  BY <1>3 DEF TailTypeOK
<1> QED BY <1>1, <1>2, <1>4, <1>5, <1>6 DEF TailTypeOK

\* The rest of the steps leaves the engine's side alone, but for what is sent.
LEMMA DownstreamType ==
    ASSUME TailTypeOK, UNCHANGED <<log, run, say>>, sends' \subseteq sends,
           conn' \in [st : {"off", "accepted", "greeted", "tailing", "mute"},
                      cursor : 0..LogHead, batch : SUBSET Notice],
           socket' \in Seq(Notice),
           page' \in [cursor : 0..LogHead, view : View, runQuery : Statuses \cup {NoQuery, Asked},
                      stale : BOOLEAN],
           page'.view.gate => page'.view.busy /\ page'.view.known,
           seen' \subseteq 1..page'.cursor
    PROVE  TailTypeOK'
<1>1. Ids' = Ids /\ LogHead' = LogHead
  BY DEF Ids, LogHead
<1> QED BY <1>1 DEF TailTypeOK

LEMMA GatewayType == ASSUME TailInv, GatewayStep \/ TailDies PROVE TailTypeOK'
<1> USE DEF TailInv
<1>1. /\ LogHead \in Nat /\ conn.cursor \in 0..LogHead /\ page.cursor \in 0..LogHead
      /\ \A m \in conn.batch : m \in Notice /\ m.id \in Nat
      /\ \A id \in Ids : id \in 1..LogHead
  BY PagesFacts
<1>2. UNCHANGED <<log, run, say, page, seen>> /\ sends' \subseteq sends
  BY DEF GatewayStep, TailDies, Connect, Greet, Hydrate, QueryLog, SendNext, Broadcast, server
<1> DEFINE Conn == [st : {"off", "accepted", "greeted", "tailing", "mute"},
                    cursor : 0..LogHead, batch : SUBSET Notice]
<1>3. conn \in Conn /\ socket \in Seq(Notice)
  BY DEF TailTypeOK
<1>4. conn' \in Conn /\ socket' \in Seq(Notice)
  <2>1. CASE Connect \/ TailDies
    BY <1>1, <1>3, <2>1 DEF Connect, TailDies, Registered, Off
  <2>2. CASE Greet
    <3>1. StartAt(page.cursor) \in 0..LogHead
      <4>1. page.cursor # 0 => Min({page.cursor, LogHead}) \in {page.cursor, LogHead}
        BY <1>1, MinIn
      <4> QED BY <1>1, <4>1 DEF StartAt
    <3>2. conn' \in Conn
      BY <1>3, <2>2, <3>1 DEF Greet
    <3>3. socket' \in Seq(Notice)
      <4>1. Unnumbered("connected") \in Notice
        BY UnnumberedIn
      <4> QED BY <1>3, <2>2, <4>1, AppendProperties DEF Greet
    <3> QED BY <3>2, <3>3
  <2>3. CASE Hydrate
    <3>1. Unnumbered(IF run = "gate" THEN "gate" ELSE "progress") \in Notice
      BY UnnumberedIn DEF Types
    <3>2. socket' \in Seq(Notice)
      BY <1>3, <2>3, <3>1, AppendProperties DEF Hydrate
    <3> QED BY <1>3, <2>3, <3>2 DEF Hydrate
  <2>4. CASE QueryLog
    <3>1. \A id \in Behind : WsMessage(id, log[id]) \in Notice
      BY <1>1 DEF Behind, WsMessage, Notice, TailTypeOK
    <3> DEFINE first == {id \in Behind : Cardinality({i \in Behind : i <= id}) <= BatchSize}
    <3>2. conn' = [conn EXCEPT !.batch = {WsMessage(id, log[id]) : id \in first}] /\ first \subseteq Behind
      BY <2>4 DEF QueryLog
    <3> HIDE DEF first
    <3>3. {WsMessage(id, log[id]) : id \in first} \in SUBSET Notice
      BY <3>1, <3>2
    <3>4. conn' \in Conn
      BY <1>3, <3>2, <3>3
    <3> QED BY <1>3, <2>4, <3>4 DEF QueryLog
  <2>5. CASE SendNext
    <3>1. PICK m \in conn.batch : /\ conn' = [conn EXCEPT !.batch = @ \ {m}, !.cursor = m.id]
                                  /\ socket' = Append(socket, m)
      BY <2>5 DEF SendNext
    <3>2. m \in Notice /\ socket' \in Seq(Notice)
      BY <1>1, <1>3, <3>1, AppendProperties
    <3>3. m.id \in 0..LogHead
      BY <1>1, <3>1 DEF Reading
    <3> QED BY <1>3, <3>1, <3>2, <3>3
  <2>6. CASE Broadcast
    <3>1. \A e \in sends : Unnumbered(e) \in Notice
      BY UnnumberedIn DEF TailTypeOK
    <3> QED BY <1>3, <2>6, <3>1, AppendProperties DEF Broadcast
  <2> QED BY <2>1, <2>2, <2>3, <2>4, <2>5, <2>6 DEF GatewayStep
<1> QED BY <1>2, <1>4, DownstreamType DEF TailTypeOK

Gated(v) == v.gate => v.busy /\ v.known

LEMMA ShownType ==
    ASSUME NEW v \in View, Gated(v), NEW m \in Notice
    PROVE  Shown(v, m) \in View /\ Gated(Shown(v, m))
<1>1. DOMAIN v = {"known", "busy", "gate", "live"}
  BY DEF View
<1>2. CASE m.type = "confirmed"
  <2>1. Shown(v, m) = [v EXCEPT !.known = TRUE, !.gate = FALSE]
    BY <1>2 DEF Shown
  <2> QED BY <2>1 DEF View, Gated
<1>3. CASE m.type = "cancelled"
  <2>1. Shown(v, m) = IF v.busy THEN [FreshView EXCEPT !.known = TRUE] ELSE v
    BY <1>3 DEF Shown
  <2> QED BY <2>1 DEF View, Gated, FreshView
<1>4. CASE m.type = "progress"
  <2>1. Shown(v, m) = [v EXCEPT !.known = TRUE, !.busy = TRUE]
    BY <1>4 DEF Shown
  <2> QED BY <2>1 DEF View, Gated
<1>5. CASE m.type = "frame"
  <2>1. Shown(v, m) = [v EXCEPT !.live = v.busy]
    BY <1>5 DEF Shown
  <2> QED BY <2>1 DEF View, Gated
<1>6. CASE m.type = "over"
  <2>1. Shown(v, m) = [FreshView EXCEPT !.known = TRUE]
    BY <1>6 DEF Shown
  <2> QED BY <2>1 DEF View, Gated, FreshView
<1>7. CASE m.type \in {"gate", "started"}
  <2>1. Shown(v, m) = [known |-> TRUE, busy |-> TRUE, gate |-> m.type = "gate", live |-> FALSE]
    BY <1>7 DEF Shown
  <2> QED BY <2>1 DEF View, Gated
<1>8. CASE m.type = "connected"
  <2>1. Shown(v, m) = v
    BY <1>8 DEF Shown
  <2> QED BY <2>1
<1> QED BY <1>2, <1>3, <1>4, <1>5, <1>6, <1>7, <1>8 DEF Notice, Types, Endings

LEMMA ReconciledType ==
    ASSUME NEW v \in View, NEW status \in Statuses
    PROVE  Reconciled(v, status) \in View /\ Gated(Reconciled(v, status))
<1>1. CASE status = "none"
  BY <1>1 DEF Reconciled, View, Gated
<1>2. CASE status = "running"
  BY <1>2 DEF Reconciled, View, Gated
<1>3. CASE status = "gate"
  BY <1>3 DEF Reconciled, View, Gated
<1> QED BY <1>1, <1>2, <1>3 DEF Statuses

Page == [cursor : 0..LogHead, view : View, runQuery : Statuses \cup {NoQuery, Asked}, stale : BOOLEAN]

LEMMA MessageType ==
    ASSUME TailTypeOK, NEW t \in Page, Gated(t.view), NEW m \in Notice, m.id <= LogHead
    PROVE  OnMessage(t, m) \in Page /\ Gated(OnMessage(t, m).view)
<1>1. Shown(t.view, m) \in View /\ Gated(Shown(t.view, m))
  BY ShownType DEF Page
<1>2. m.id \in Nat
  BY DEF Notice
<1> DEFINE shown == [t EXCEPT !.view = Shown(t.view, m), !.cursor = IF m.id = 0 THEN @ ELSE m.id]
<1>3. shown \in Page /\ shown.view = Shown(t.view, m)
  <2> DEFINE c == IF m.id = 0 THEN t.cursor ELSE m.id
  <2>1. shown = [t EXCEPT !.view = Shown(t.view, m), !.cursor = c]
    BY DEF Page
  <2>2. t.cursor \in 0..LogHead /\ LogHead \in Nat
    BY PagesFacts DEF Page
  <2>3. c \in 0..LogHead
    BY <1>2, <2>2
  <2> HIDE DEF c, shown
  <2> QED BY <1>1, <2>1, <2>3 DEF Page
<1>4. \A u \in Page : Noted(u) \in Page /\ Noted(u).view = u.view
  BY DEF Page, Noted
<1>5. \A u \in Page : Asking(u) \in Page /\ Asking(u).view = u.view
  BY DEF Page, Asking
<1>6. \/ OnMessage(t, m) = Asking(Noted(shown)) \/ OnMessage(t, m) = Asking(shown)
      \/ OnMessage(t, m) = shown
  BY DEF OnMessage
<1> HIDE DEF shown
<1> QED BY <1>1, <1>3, <1>4, <1>5, <1>6

LEMMA PageType ==
    ASSUME TailInv, TabStep \/ Disconnect \/ ReloadPage PROVE TailTypeOK'
<1> USE DEF TailInv
<1>1. page \in Page /\ Gated(page.view) /\ seen \subseteq 1..page.cursor
  BY DEF TailTypeOK, Page, Gated
<1>2. UNCHANGED server
  BY DEF TabStep, Receive, AnswerRun, LandRun, PollAtGate, Disconnect, ReloadPage
<1> DEFINE Conn == [st : {"off", "accepted", "greeted", "tailing", "mute"},
                    cursor : 0..LogHead, batch : SUBSET Notice]
<1>3. conn \in Conn /\ socket \in Seq(Notice) /\ LogHead \in Nat
  BY PagesFacts DEF TailTypeOK
<1>4. conn' \in Conn /\ socket' \in Seq(Notice)
  <2>1. CASE Disconnect \/ ReloadPage
    <3>1. conn' = [st |-> "off", cursor |-> 0, batch |-> {}] /\ socket' = <<>>
      BY <2>1 DEF Disconnect, ReloadPage, Lose, Off
    <3> QED BY <1>3, <3>1
  <2>2. CASE Receive
    BY <1>3, <2>2, TakenSocket DEF Receive
  <2>3. CASE AnswerRun \/ LandRun \/ PollAtGate
    BY <1>3, <2>3 DEF AnswerRun, LandRun, PollAtGate
  <2> QED BY <2>1, <2>2, <2>3 DEF TabStep
<1>5. page' \in Page /\ Gated(page'.view) /\ seen' \subseteq 1..page'.cursor
  <2>1. CASE Disconnect
    BY <1>1, <2>1 DEF Disconnect
  <2>2. CASE ReloadPage
    <3>1. page' = FreshTab(page.cursor) /\ seen' = seen
      BY <2>2 DEF ReloadPage
    <3> QED BY <1>1, <3>1 DEF FreshTab, FreshView, Page, View, Gated
  <2>3. CASE AnswerRun
    <3>1. page' = [page EXCEPT !.runQuery = run] /\ seen' = seen /\ run \in Statuses
      BY <2>3 DEF AnswerRun, TailTypeOK
    <3>2. page' \in Page /\ page'.view = page.view /\ page'.cursor = page.cursor
      BY <1>1, <3>1 DEF Page
    <3> QED BY <1>1, <3>1, <3>2
  <2>4. CASE PollAtGate
    <3>1. page' = [page EXCEPT !.runQuery = Asked, !.stale = FALSE] /\ seen' = seen
      BY <2>4 DEF PollAtGate
    <3>2. page' \in Page /\ page'.view = page.view /\ page'.cursor = page.cursor
      BY <1>1, <3>1 DEF Page
    <3> QED BY <1>1, <3>1, <3>2
  <2>5. CASE LandRun
    <3> DEFINE view == IF page.stale THEN [page.view EXCEPT !.known = TRUE]
                       ELSE Reconciled(page.view, page.runQuery)
    <3>1. /\ page' = [page EXCEPT !.runQuery = NoQuery, !.stale = FALSE, !.view = view]
          /\ seen' = seen /\ page.runQuery \in Statuses
      BY <2>5 DEF LandRun
    <3>2. view \in View /\ Gated(view)
      <4>1. page.view \in View
        BY <1>1 DEF Page
      <4>2. [page.view EXCEPT !.known = TRUE] \in View /\ Gated([page.view EXCEPT !.known = TRUE])
        BY <1>1, <4>1 DEF View, Gated
      <4> QED BY <3>1, <4>1, <4>2, ReconciledType
    <3> HIDE DEF view
    <3>3. page' \in Page /\ page'.view = view /\ page'.cursor = page.cursor
      BY <1>1, <3>1, <3>2 DEF Page
    <3> QED BY <1>1, <3>1, <3>2, <3>3
  <2>6. CASE Receive
    <3> DEFINE m == socket[1]
    <3>1. m \in Notice /\ m.id \in Nat /\ 1 \in DOMAIN socket
      BY <2>6, TakenSocket, SocketIds DEF Receive
    <3>2. m.id <= LogHead /\ (m.id # 0 => page.cursor < m.id)
      <4>1. CASE m.id = 0
        BY <1>3, <4>1
      <4>2. CASE m.id # 0
        <5>1. 1 \in Numbered
          BY <3>1, <4>2 DEF Numbered
        <5> QED BY <5>1 DEF InOrder
      <4> QED BY <4>1, <4>2
    <3>3. \/ page' = page /\ seen' = seen
          \/ page' = OnMessage(page, m) /\ seen' = IF m.id = 0 THEN seen ELSE seen \cup {m.id}
      BY <2>6 DEF Receive
    <3>4. OnMessage(page, m).cursor = IF m.id = 0 THEN page.cursor ELSE m.id
      BY <3>1, MessageCursor
    <3>5. OnMessage(page, m) \in Page /\ Gated(OnMessage(page, m).view)
      BY <1>1, <3>1, <3>2, MessageType
    <3>6. page.cursor \in Nat
      BY PagesFacts
    <3> HIDE DEF m
    <3>7. CASE page' = page /\ seen' = seen
      BY <1>1, <3>7
    <3>8. CASE page' = OnMessage(page, m) /\ seen' = IF m.id = 0 THEN seen ELSE seen \cup {m.id}
      <4>1. page'.cursor = IF m.id = 0 THEN page.cursor ELSE m.id
        BY <3>4, <3>8
      <4>2. m.id # 0 => m.id \in 1..m.id /\ 1..page.cursor \subseteq 1..m.id
        BY <3>1, <3>2, <3>6
      <4>3. seen' \subseteq 1..page'.cursor
        <5>1. CASE m.id = 0
          BY <1>1, <3>8, <4>1, <5>1
        <5>2. CASE m.id # 0
          BY <1>1, <3>8, <4>1, <4>2, <5>2
        <5> QED BY <5>1, <5>2
      <4> QED BY <3>5, <3>8, <4>3
    <3> QED BY <3>3, <3>7, <3>8
  <2> QED BY <2>1, <2>2, <2>3, <2>4, <2>5, <2>6 DEF TabStep
<1>6. TailTypeOK'
  BY <1>2, <1>4, <1>5, DownstreamType DEF server, Page, Gated
<1> QED BY <1>6

-----------------------------------------------------------------------------
(* The theorem *)

LEMMA TailInitInv == TailInit => TailInv
<1> SUFFICES ASSUME TailInit PROVE TailInv
  OBVIOUS
<1>1. /\ log = <<>> /\ run = "none" /\ say = Quiet /\ sends = {} /\ socket = <<>> /\ seen = {}
      /\ conn = [st |-> "off", cursor |-> 0, batch |-> {}]
      /\ page = [cursor |-> 0, view |-> FreshView, runQuery |-> Asked, stale |-> FALSE]
  BY DEF TailInit, Off, FreshTab
<1>2. Ids = {} /\ log \in [Ids -> Types]
  BY <1>1 DEF Ids
<1>3. LogHead = 0 /\ IsFiniteSet(Ids)
  BY <1>2, FS_EmptySet DEF LogHead, TopOf
<1>4. FreshView \in View /\ ~FreshView.gate
  BY DEF FreshView, View
<1>5. socket \in Seq(Notice) /\ Numbered = {}
  BY <1>1 DEF Numbered
<1>6. TailTypeOK
  <2>1. 0 \in 0..LogHead
    BY <1>3
  <2> QED BY <1>1, <1>2, <1>3, <1>4, <1>5, <2>1 DEF TailTypeOK, Statuses
<1> QED BY <1>1, <1>2, <1>5, <1>6 DEF TailInv, Begun, Reading, InOrder, OnTheWay, NoneSkipped

LEMMA TailStep == ASSUME TailInv, [TailNext]_tailVars PROVE TailInv'
<1>1. TailTypeOK'
  <2>1. CASE UNCHANGED tailVars
    BY <2>1 DEF TailInv, TailTypeOK, tailVars, Ids, LogHead
  <2> QED BY <2>1, UpstreamType, GatewayType, PageType
          DEF TailInv, TailNext, EngineStep, Upstream
<1>2. Kept'
  <2>1. ASSUME Calm PROVE Kept'
    BY <2>1, CalmKeeps DEF Kept
  <2>2. CASE Upstream
    <3>1. Calm
      BY <2>2, UpstreamStays, SameSocket DEF TailInv, Calm
    <3> QED BY <2>1, <3>1
  <2>3. CASE Hydrate
    <3>1. conn' = [conn EXCEPT !.st = "tailing"] /\ conn.st = "greeted"
          /\ UNCHANGED <<server, page, seen>>
      BY <2>3 DEF Hydrate
    <3> DEFINE type == IF run = "gate" THEN "gate" ELSE "progress"
    <3>2. Unnumbered(type) \in Notice /\ Unnumbered(type).id = 0
      BY UnnumberedIn DEF Types
    <3>3. socket' = socket \/ socket' = Append(socket, Unnumbered(type))
      BY <2>3 DEF Hydrate
    <3> HIDE DEF type
    <3>4. Numbered' = Numbered /\ \A k \in Numbered : socket'[k].id = socket[k].id
      BY <3>2, <3>3, ToldCalm DEF TailInv
    <3>5. Calm
      BY <3>1, <3>4 DEF Calm, TailInv, TailTypeOK, server
    <3> QED BY <2>1, <3>5
  <2>4. CASE Broadcast
    <3>1. PICK e \in sends : socket' = IF conn.st = "off" THEN socket ELSE Append(socket, Unnumbered(e))
      BY <2>4 DEF Broadcast
    <3>2. Unnumbered(e) \in Notice /\ Unnumbered(e).id = 0
      BY UnnumberedIn DEF TailInv, TailTypeOK
    <3>3. Numbered' = Numbered /\ \A k \in Numbered : socket'[k].id = socket[k].id
      BY <3>1, <3>2, ToldCalm DEF TailInv
    <3>4. Calm
      BY <2>4, <3>3 DEF Calm, Broadcast
    <3> QED BY <2>1, <3>4
  <2>5. CASE AnswerRun \/ LandRun \/ PollAtGate
    <3>1. UNCHANGED <<server, conn, socket, seen>> /\ page'.cursor = page.cursor
      BY <2>5 DEF AnswerRun, LandRun, PollAtGate, TailInv, TailTypeOK
    <3>2. Calm
      BY <3>1, SameSocket DEF Calm, server
    <3> QED BY <2>1, <3>2
  <2>6. CASE UNCHANGED tailVars
    <3>1. Calm
      BY <2>6, SameSocket DEF Calm, tailVars
    <3> QED BY <2>1, <3>1
  <2>7. CASE Connect \/ Greet \/ QueryLog \/ SendNext \/ TailDies \/ Disconnect \/ ReloadPage \/ Receive
    BY <2>7, ConnectKeeps, GreetKeeps, QueryKeeps, SendNextKeeps, DiesKeeps, LostKeeps, ReceiveKeeps
  <2> QED BY <2>2, <2>3, <2>4, <2>5, <2>6, <2>7
          DEF TailNext, EngineStep, Upstream, GatewayStep, TabStep
<1> QED BY <1>1, <1>2 DEF TailInv, Kept

\* The types hold: ids only grow, the gateway and the tab are never past the
\* head of the log, and a gate on screen is a busy run that is known.
THEOREM TailTypes == TailSpec => []TailTypeOK
<1>1. TailInv => TailTypeOK
  BY DEF TailInv
<1> QED BY <1>1, TailInitInv, TailStep, PTL DEF TailSpec

\* Through batches, compaction, lost connections, reloads and failed tails no
\* event that the log still has is skipped by the tab (the watermark and the
\* query of _tail_engine_events against the cursor of useWebSocket).
THEOREM NoEventSkipped == TailSpec => []NoneSkipped
<1>1. TailInv => NoneSkipped
  BY DEF TailInv
<1> QED BY <1>1, TailInitInv, TailStep, PTL DEF TailSpec

-----------------------------------------------------------------------------
(***************************************************************************)
(* The assistant.  The call a card asks about is the next one of the newest *)
(* reply, so the answer to a card starts that call and no other.            *)
(***************************************************************************)

LEMMA EventTypes ==
    /\ \A b \in BOOLEAN, c \in Call : Status(b, c) \in Event
    /\ \A id \in Nat : ChatMessage(id) \in Event
  BY DEF Status, ChatMessage, Event, Call, NoCall

\* Dropping one event leaves a log of events.
LEMMA CompactedType == ASSUME NEW sent \in Seq(Event) PROVE Compacted(sent) \in Seq(Event)
<1>1. CASE Frames(sent) = {}
  BY <1>1 DEF Compacted
<1>2. CASE Frames(sent) # {}
  <2>1. PICK i \in 1..Len(sent) : Compacted(sent) = RemoveAt(sent, i)
    <3> DEFINE old == CHOOSE i \in Frames(sent) : TRUE
    <3>1. old \in 1..Len(sent)
      BY <1>2 DEF Frames
    <3>2. Compacted(sent) = RemoveAt(sent, old)
      BY <1>2 DEF Compacted
    <3> HIDE DEF old
    <3> QED BY <3>1, <3>2
  <2>2. /\ SubSeq(sent, 1, i - 1) \in Seq(Event)
        /\ SubSeq(sent, i + 1, Len(sent)) \in Seq(Event)
    <3>1. /\ \A k \in 1..(i - 1) : sent[k] \in Event
          /\ \A k \in (i + 1)..Len(sent) : sent[k] \in Event
      BY ElementOfSeq
    <3>2. i \in Int /\ Len(sent) \in Int
      OBVIOUS
    <3> QED BY <3>1, <3>2, SubSeqProperties
  <2> QED BY <2>1, <2>2, ConcatProperties DEF RemoveAt
<1> QED BY <1>1, <1>2

LEMMA EmitType ==
    ASSUME NEW sent \in Seq(Event), NEW event \in Event PROVE Emit(sent, event) \in Seq(Event)
  BY CompactedType, AppendProperties DEF Emit

\* The places of the agent: while calls are left to do, at least one is.
InCalls == agent.at \in {"tools", "card", "write"} => agent.left >= 1

\* The open card asks about the call that is next; an approval on its way is of
\* the call whose button was pressed last.
CardIsNext == card # NoCall => card = ThisCall
ApprovalIsConfirmed == answer.approved => answer.call = confirmed

IInv == TypeOK /\ InCalls /\ CardIsNext /\ ApprovalIsConfirmed

LEMMA MessageTypes ==
    /\ UserMessage \in Message /\ ToolResult \in Message
    /\ \A calls \in Nat : Reply(calls) \in Message
  BY DEF UserMessage, ToolResult, Reply, Message

LEMMA AnnouncedType ==
    ASSUME TypeOK, NEW sent \in Seq(Event), NEW message
    PROVE  EmitMessage(sent, message) \in Seq(Event)
<1>1. ThisCall \in Nat
  BY DEF TypeOK, ThisCall
<1> QED BY <1>1, EmitType, EventTypes DEF EmitMessage

\* What follows a call keeps the agent's type and its place.
Agents == [at : {"idle", "model", "tools", "card", "write"},
           turns : 0..(MAX_TURNS - 1), left : Nat, aborted : BOOLEAN]
LEMMA NextAgent ==
    ASSUME TypeOK, agent.left >= 1
    PROVE  /\ ~(agent.left = 1 /\ Ends) =>
                /\ AfterCall \in Agents
                /\ AfterCall.at \in {"model", "tools"}
                /\ AfterCall.at = "tools" => AfterCall.left >= 1
           /\ [agent EXCEPT !.at = "idle", !.left = 0] \in Agents
<1>1. MAX_TURNS \in Nat \ {0} /\ agent \in Agents
  BY LimitsAssumption DEF TypeOK, Agents
<1>2. CASE agent.left > 1
  <2>1. agent.left - 1 \in Nat /\ agent.left - 1 >= 1
    BY <1>1, <1>2 DEF Agents
  <2> QED BY <1>1, <1>2, <2>1 DEF Agents, AfterCall
<1>3. CASE ~(agent.left > 1)
  <2>1. ~(agent.left = 1 /\ Ends) => agent.turns + 1 \in 0..(MAX_TURNS - 1)
    BY <1>1, <1>3 DEF Agents, Ends
  <2> QED BY <1>1, <1>3, <2>1 DEF Agents, AfterCall
<1> QED BY <1>2, <1>3

\* A message that is saved, with whatever follows.
LEMMA SavedTypes ==
    ASSUME TypeOK, NEW message \in Message, NEW next \in Agents,
           Save(message, next) \/ SaveAndEnd(message)
    PROVE  saved' \in Seq(Message) /\ agent' \in Agents /\ wire' \in Seq(Event)
<1>1. CASE Save(message, next)
  BY <1>1, AnnouncedType, AppendProperties DEF Save, TypeOK
<1>2. CASE SaveAndEnd(message)
  <2>1. agent' \in Agents
    BY <1>2 DEF SaveAndEnd, TypeOK, Agents
  <2>2. Status(FALSE, NoCall) \in Event
    BY EventTypes DEF Call, NoCall
  <2> QED BY <1>2, <2>1, <2>2, AnnouncedType, EmitType, AppendProperties DEF SaveAndEnd, TypeOK
<1> QED BY <1>1, <1>2

LEMMA SaveResultTypes ==
    ASSUME TypeOK, agent.left >= 1, SaveResult
    PROVE  /\ saved' \in Seq(Message) /\ agent' \in Agents /\ wire' \in Seq(Event)
           /\ agent'.at \in {"idle", "model", "tools"}
           /\ InCalls'
<1>1. CASE agent.left = 1 /\ Ends
  <2>1. SaveAndEnd(ToolResult)
    BY <1>1 DEF SaveResult
  <2>2. agent'.at = "idle"
    BY <2>1 DEF SaveAndEnd, TypeOK
  <2> QED BY <2>1, <2>2, SavedTypes, NextAgent, MessageTypes DEF InCalls
<1>2. CASE ~(agent.left = 1 /\ Ends)
  <2>1. Save(ToolResult, AfterCall) /\ agent' = AfterCall
    BY <1>2 DEF SaveResult, Save
  <2> QED BY <1>2, <2>1, SavedTypes, NextAgent, MessageTypes DEF InCalls
<1> QED BY <1>1, <1>2

LEMMA DeclineTypes ==
    ASSUME TypeOK, agent.left >= 1, NEW now \in BOOLEAN, Decline(now)
    PROVE  /\ saved' \in Seq(Message) /\ agent' \in Agents /\ wire' \in Seq(Event)
           /\ agent'.at \in {"idle", "model", "tools"}
           /\ InCalls'
<1> DEFINE next == IF agent.left = 1 /\ Ends THEN [agent EXCEPT !.at = "idle", !.left = 0]
                   ELSE AfterCall
           sent == EmitMessage(Told, ToolResult)
<1>1. next \in Agents /\ next.at \in {"idle", "model", "tools"}
      /\ (next.at = "tools" => next.left >= 1)
  BY NextAgent DEF TypeOK
<1>2. agent' = [next EXCEPT !.aborted = now]
  BY DEF Decline
<1>3. sent \in Seq(Event) /\ Emit(sent, Status(FALSE, NoCall)) \in Seq(Event)
  <2>1. Status(TRUE, NoCall) \in Event /\ Status(FALSE, NoCall) \in Event
    BY EventTypes DEF Call, NoCall
  <2>2. Told \in Seq(Event)
    BY <2>1, EmitType DEF Told, TypeOK
  <2> QED BY <2>1, <2>2, AnnouncedType, EmitType
<1>4. wire' \in {sent, Emit(sent, Status(FALSE, NoCall))} /\ saved' = Append(saved, ToolResult)
  BY DEF Decline
<1>5. saved' \in Seq(Message) /\ wire' \in Seq(Event)
  BY <1>3, <1>4, MessageTypes, AppendProperties DEF TypeOK
<1> HIDE DEF next
<1> QED BY <1>1, <1>2, <1>5 DEF Agents, InCalls

-----------------------------------------------------------------------------

LEMMA InitInvariant == Init => IInv
<1> SUFFICES ASSUME Init PROVE IInv
  OBVIOUS
<1>1. MAX_TURNS \in Nat \ {0} /\ MaxFaults \in Nat
  BY LimitsAssumption
<1>2. NoState \in State /\ NoAnswer \in [call : Call, approved : BOOLEAN] /\ NoCall \in Call
  BY DEF NoState, State, NoAnswer, NoCall, Call
<1>3. TypeOK
  BY <1>1, <1>2 DEF Init, TypeOK, NoCall
<1> QED BY <1>3 DEF Init, IInv, InCalls, CardIsNext, ApprovalIsConfirmed, NoAnswer

\* The steps that touch the agent and leave the tab, the post and the counters.
LEMMA AgentKeeps ==
    ASSUME IInv, AgentStep PROVE IInv'
<1>1. CASE ModelReplies
  <2>1. card = NoCall
    BY <1>1 DEF ModelReplies, IInv, TypeOK
  <2>2. PICK calls \in Nat : \/ SaveAndEnd(Reply(0))
                           \/ /\ calls >= 1
                              /\ Save(Reply(calls), [agent EXCEPT !.at = "tools", !.left = calls])
    <3>1. \A calls \in 1..MaxCalls : calls \in Nat /\ calls >= 1
      BY LimitsAssumption
    <3>2. CASE SaveAndEnd(Reply(0))
      BY <3>2
    <3> QED BY <1>1, <3>1, <3>2 DEF ModelReplies
  <2>3. agent \in Agents /\ [agent EXCEPT !.at = "tools", !.left = calls] \in Agents
    BY DEF IInv, TypeOK, Agents
  <2>4. saved' \in Seq(Message) /\ agent' \in Agents /\ wire' \in Seq(Event)
    BY <2>2, <2>3, SavedTypes, MessageTypes DEF IInv
  <2>5. agent'.at \in {"idle", "tools"} /\ InCalls'
    BY <2>2 DEF SaveAndEnd, Save, InCalls, IInv, TypeOK
  <2> QED BY <1>1, <2>1, <2>4, <2>5 DEF ModelReplies, IInv, TypeOK, Agents, Bounds,
             CardIsNext, ApprovalIsConfirmed, NoCall
<1>2. CASE CallTool
  <2>1. card = NoCall /\ agent.left >= 1
    BY <1>2 DEF CallTool, IInv, TypeOK, InCalls
  <2>2. ThisCall \in Nat /\ ThisCall # NoCall /\ Status(TRUE, ThisCall) \in Event
    <3>1. Len(saved) \in Nat
      BY DEF IInv, TypeOK
    <3>2. ThisCall \in Nat /\ ThisCall # NoCall /\ ThisCall \in Call
      BY <3>1 DEF ThisCall, NoCall, Call
    <3> QED BY <3>2, EventTypes
  <2>3. CASE Ask
    <3>1. wire' \in Seq(Event)
      BY <2>2, <2>3, EmitType DEF Ask, IInv, TypeOK
    <3>2. CardIsNext' /\ card' \in Call /\ card' # NoCall
      BY <2>2, <2>3 DEF Ask, CardIsNext, ThisCall, Call
    <3> QED BY <1>2, <2>1, <2>3, <3>1, <3>2 DEF Ask, CallTool, IInv, TypeOK, InCalls, Bounds, ApprovalIsConfirmed
  <2>4. CASE SaveResult /\ UNCHANGED card
    BY <1>2, <2>1, <2>4, SaveResultTypes
       DEF CallTool, IInv, TypeOK, Agents, Bounds, CardIsNext, ApprovalIsConfirmed, NoCall
  <2> QED BY <1>2, <2>3, <2>4 DEF CallTool
<1>3. CASE ToolEnds
  <2>1. card = NoCall /\ agent.left >= 1
    BY <1>3 DEF ToolEnds, IInv, TypeOK, InCalls
  <2> QED BY <1>3, <2>1, SaveResultTypes
          DEF ToolEnds, IInv, TypeOK, Agents, Bounds, CardIsNext, ApprovalIsConfirmed, NoCall
<1>4. CASE CardTimesOut
  <2>1. card # NoCall /\ agent.left >= 1 /\ agent.aborted \in BOOLEAN
    BY <1>4 DEF CardTimesOut, OpenCards, IInv, TypeOK, InCalls
  <2> QED BY <1>4, <2>1, DeclineTypes
          DEF CardTimesOut, IInv, TypeOK, Agents, Bounds, CardIsNext, ApprovalIsConfirmed, NoCall, Call
<1> QED BY <1>1, <1>2, <1>3, <1>4 DEF AgentStep

LEMMA SendKeeps == ASSUME IInv, Send PROVE IInv'
<1>1. card = NoCall
  BY DEF Send, IInv, TypeOK, busy
<1>2. Emit(wire, Status(TRUE, NoCall)) \in Seq(Event)
  BY EventTypes, EmitType DEF IInv, TypeOK, Call, NoCall
<1>3. wire' \in Seq(Event) /\ saved' \in Seq(Message)
  <2>1. wire' = EmitMessage(Emit(wire, Status(TRUE, NoCall)), UserMessage)
        /\ saved' = Append(saved, UserMessage)
    BY DEF Send
  <2> QED BY <1>2, <2>1, AnnouncedType, MessageTypes, AppendProperties DEF IInv, TypeOK
<1>4. agent' = NewTurn /\ NewTurn.at = "model" /\ agent' \in Agents
  <2>1. 0 \in 0..(MAX_TURNS - 1)
    BY LimitsAssumption
  <2>2. NewTurn \in Agents /\ NewTurn.at = "model"
    BY <2>1 DEF NewTurn, Agents
  <2> QED BY <2>2 DEF Send
<1>5. post' = "accepted" /\ UNCHANGED <<card, tab, answer, confirmed, faults>>
  BY DEF Send
<1>6. TypeOK'
  BY <1>1, <1>3, <1>4, <1>5 DEF IInv, TypeOK, Agents
<1> QED BY <1>1, <1>4, <1>5, <1>6 DEF IInv, InCalls, CardIsNext, ApprovalIsConfirmed

LEMMA ConfirmKeeps == ASSUME IInv, Confirm PROVE IInv'
<1> NoAnswer \in [call : Call, approved : BOOLEAN] /\ ~NoAnswer.approved
  BY DEF NoAnswer, Call, NoCall
<1>1. CASE ~ConfirmsCard(answer.call)
  BY <1>1 DEF Confirm, IInv, TypeOK, InCalls, CardIsNext, ApprovalIsConfirmed, ThisCall, Bounds
<1>2. CASE ConfirmsCard(answer.call)
  <2>1. card # NoCall /\ agent.at = "card" /\ agent.left >= 1 /\ agent.aborted \in BOOLEAN
    BY <1>2 DEF ConfirmsCard, IInv, TypeOK, InCalls
  <2>2. CASE Approve
    <3>1. wire' \in Seq(Event)
      BY <2>2, EventTypes, EmitType DEF Approve, Told, IInv, TypeOK, Call, NoCall
    <3> QED BY <1>2, <2>1, <2>2, <3>1
            DEF Approve, Confirm, IInv, TypeOK, InCalls, CardIsNext, ApprovalIsConfirmed, Bounds, NoCall, Call
  <2>3. CASE Decline(agent.aborted)
    BY <1>2, <2>1, <2>3, DeclineTypes
       DEF Confirm, IInv, TypeOK, Agents, CardIsNext, ApprovalIsConfirmed, Bounds, NoCall, Call
  <2> QED BY <1>2, <2>2, <2>3 DEF Confirm
<1> QED BY <1>1, <1>2

Tabs == [loaded : BOOLEAN, chat : State, query : {"none", "asked", "answered"},
         got : State, missed : BOOLEAN]

LEMMA PersonKeeps == ASSUME IInv, PersonStep PROVE IInv'
<1>1. CASE Send
  BY <1>1, SendKeeps
<1>2. ASSUME NEW approved \in BOOLEAN, Press(approved) PROVE IInv'
  <2>1. tab.chat.pending \in Call
    BY DEF IInv, TypeOK, State
  <2>2. answer' \in [call : Call, approved : BOOLEAN] /\ confirmed' \in Call
        /\ ApprovalIsConfirmed'
    BY <1>2, <2>1 DEF Press, IInv, TypeOK, ApprovalIsConfirmed
  <2> QED BY <1>2, <2>2 DEF Press, IInv, TypeOK, InCalls, CardIsNext, ThisCall
<1>3. CASE Abort
  <2>1. CASE card # NoCall
    <3>1. agent.left >= 1 /\ Decline(TRUE)
      BY <1>3, <2>1 DEF Abort, IInv, TypeOK, InCalls
    <3> QED BY <1>3, <3>1, DeclineTypes
            DEF Abort, IInv, TypeOK, Agents, CardIsNext, ApprovalIsConfirmed, Bounds, NoCall, Call
  <2>2. CASE card = NoCall
    BY <1>3, <2>2 DEF Abort, IInv, TypeOK, InCalls, CardIsNext, ApprovalIsConfirmed, Bounds
  <2> QED BY <2>1, <2>2
<1>4. CASE Reload
  <2>1. NoState \in State /\ NoAnswer \in [call : Call, approved : BOOLEAN] /\ ~NoAnswer.approved
    BY DEF NoState, State, NoAnswer, NoCall, Call
  <2>2. tab \in Tabs /\ tab' = [tab EXCEPT !.loaded = FALSE, !.chat = NoState, !.query = "asked",
                                             !.got = NoState]
    BY <1>4 DEF Reload, IInv, TypeOK, Tabs
  <2>3. tab' \in Tabs
    BY <2>1, <2>2 DEF Tabs
  <2>4. faults' \in 0..MaxFaults /\ post' = "none" /\ answer' = NoAnswer
    BY <1>4, LimitsAssumption DEF Reload, IInv, TypeOK
  <2>5. UNCHANGED <<saved, agent, card, wire, confirmed>>
    BY <1>4 DEF Reload
  <2> QED BY <2>1, <2>3, <2>4, <2>5
          DEF IInv, TypeOK, Tabs, InCalls, CardIsNext, ApprovalIsConfirmed, ThisCall
<1> QED BY <1>1, <1>2, <1>3, <1>4 DEF PersonStep

LEMMA KillKeeps == ASSUME IInv, Kill PROVE IInv'
<1>1. tab \in Tabs /\ tab' = [tab EXCEPT !.missed = TRUE]
  BY DEF Kill, IInv, TypeOK, Tabs
<1>2. agent \in Agents /\ agent' = [agent EXCEPT !.at = "idle", !.left = 0]
  BY DEF Kill, IInv, TypeOK, Agents
<1>3. tab' \in Tabs /\ agent' \in Agents /\ agent'.at = "idle"
  BY <1>1, <1>2 DEF Tabs, Agents
<1>4. faults' \in 0..MaxFaults /\ card' = NoCall
  BY LimitsAssumption DEF Kill, IInv, TypeOK
<1>5. UNCHANGED <<saved, wire, post, answer, confirmed>>
  BY DEF Kill
<1> QED BY <1>3, <1>4, <1>5
        DEF IInv, TypeOK, Tabs, Agents, InCalls, CardIsNext, ApprovalIsConfirmed, NoCall, Call

LEMMA TabKeeps ==
    ASSUME IInv, SendIsAccepted \/ EventArrives \/ QueryStep PROVE IInv'
<1>1. tab \in Tabs /\ wire \in Seq(Event)
  BY DEF IInv, TypeOK, Tabs
<1>2. tab' \in Tabs
  <2>1. CASE SendIsAccepted
    BY <1>1, <2>1 DEF SendIsAccepted, Tabs, State
  <2>2. CASE EventArrives
    <3>1. Head(wire) \in Event
      BY <1>1, <2>2 DEF EventArrives
    <3>2. Patched(Head(wire)) \in State
      BY <1>1, <3>1 DEF Patched, Event, State, Tabs
    <3>3. Refetched \in {"none", "asked", "answered"}
      BY <1>1 DEF Refetched, Tabs
    <3> QED BY <1>1, <2>2, <3>2, <3>3 DEF EventArrives, Tabs
  <2>3. CASE History
    <3>1. Items(saved) \in SUBSET Nat /\ busy \in BOOLEAN /\ card \in Call
      BY DEF IInv, TypeOK, Items, busy
    <3> QED BY <1>1, <2>3, <3>1 DEF History, ChatState, Tabs, State
  <2>4. CASE HistoryArrives
    <3>1. NoState \in State
      BY DEF NoState, State, NoCall, Call
    <3> QED BY <1>1, <2>4, <3>1 DEF HistoryArrives, Tabs
  <2> QED BY <2>1, <2>2, <2>3, <2>4 DEF QueryStep
<1>3. wire' \in Seq(Event) /\ post' \in {"none", "accepted"}
  <2>1. wire # <<>> => Tail(wire) \in Seq(Event)
    BY <1>1, HeadTailProperties
  <2>2. wire' = wire \/ (wire # <<>> /\ wire' = Tail(wire))
    BY DEF SendIsAccepted, EventArrives, QueryStep, History, ChatState, HistoryArrives
  <2>3. post' \in {post, "none"}
    BY DEF SendIsAccepted, EventArrives, QueryStep, History, ChatState, HistoryArrives
  <2> QED BY <1>1, <2>1, <2>2, <2>3 DEF IInv, TypeOK
<1>4. UNCHANGED <<saved, agent, card, answer, confirmed, faults>>
  BY DEF SendIsAccepted, EventArrives, QueryStep, History, ChatState, HistoryArrives, Bounds
<1> QED BY <1>2, <1>3, <1>4 DEF IInv, TypeOK, Tabs, InCalls, CardIsNext, ApprovalIsConfirmed, ThisCall

LEMMA StepInvariant == IInv /\ [Next]_vars => IInv'
<1> SUFFICES ASSUME IInv, [Next]_vars PROVE IInv'
  OBVIOUS
<1>1. CASE UNCHANGED vars
  BY <1>1 DEF vars, IInv, TypeOK, InCalls, CardIsNext, ApprovalIsConfirmed, ThisCall
<1> QED BY <1>1, AgentKeeps, SendKeeps, ConfirmKeeps, PersonKeeps, KillKeeps, TabKeeps DEF Next

THEOREM Invariant == Spec => []IInv
  BY InitInvariant, StepInvariant, PTL DEF Spec

\* Type correctness: the agent never passes its limit of replies, a card is open
\* exactly while the agent waits for it, and the tab holds events that were sent.
THEOREM TypeCorrect == Spec => []TypeOK
<1>1. IInv => TypeOK
  BY DEF IInv
<1> QED BY <1>1, Invariant, PTL

\* No tool that changes the project starts without a person who confirmed the
\* card of that very call, whatever answers, timeouts, aborts, reloads and
\* deaths come before, for every limit.
THEOREM OnlyConfirmedRuns == Spec => RunsAsConfirmed
<1>1. IInv /\ [Next]_vars
        => [agent'.at = "write" /\ agent.at # "write" => ThisCall = confirmed]_vars
  <2> SUFFICES ASSUME IInv, Next, agent'.at = "write", agent.at # "write"
               PROVE  ThisCall = confirmed
    OBVIOUS
  <2>1. ~AgentStep
    <3> SUFFICES ASSUME AgentStep PROVE FALSE
      OBVIOUS
    <3>1. CASE ModelReplies
      BY <3>1 DEF ModelReplies, Save, SaveAndEnd, IInv, TypeOK
    <3>2. CASE CallTool
      <4>1. agent.left >= 1
        BY <3>2 DEF CallTool, IInv, InCalls
      <4> QED BY <3>2, <4>1, SaveResultTypes DEF CallTool, Ask, IInv, TypeOK
    <3>3. CASE ToolEnds \/ CardTimesOut
      <4>1. agent.left >= 1 /\ agent.aborted \in BOOLEAN
        BY <3>3 DEF ToolEnds, CardTimesOut, OpenCards, IInv, InCalls, TypeOK
      <4> QED BY <3>3, <4>1, SaveResultTypes, DeclineTypes DEF ToolEnds, CardTimesOut, IInv
    <3> QED BY <3>1, <3>2, <3>3 DEF AgentStep
  <2>2. CASE Confirm
    <3>1. ConfirmsCard(answer.call)
      BY <2>2 DEF Confirm
    <3>2. card # NoCall /\ agent.left >= 1 /\ agent.aborted \in BOOLEAN /\ answer.call = card
      BY <3>1 DEF ConfirmsCard, IInv, InCalls, TypeOK
    <3>3. ~Decline(agent.aborted)
      BY <3>2, DeclineTypes DEF IInv
    <3>4. answer.approved
      BY <2>2, <3>1, <3>3 DEF Confirm
    <3> QED BY <3>2, <3>4 DEF IInv, CardIsNext, ApprovalIsConfirmed
  <2>3. ~Abort
    <3> SUFFICES ASSUME Abort PROVE FALSE
      OBVIOUS
    <3>1. CASE card # NoCall
      <4>1. agent.left >= 1 /\ Decline(TRUE)
        BY <3>1 DEF Abort, IInv, TypeOK, InCalls
      <4> QED BY <4>1, DeclineTypes DEF IInv
    <3>2. CASE card = NoCall
      BY <3>2 DEF Abort, IInv, TypeOK
    <3> QED BY <3>1, <3>2
  <2>4. ~Send
    <3>1. Send => agent' = NewTurn
      BY DEF Send
    <3> QED BY <3>1 DEF NewTurn
  <2>5. ~Kill
    <3>1. agent \in Agents
      BY DEF IInv, TypeOK, Agents
    <3>2. Kill => agent' = [agent EXCEPT !.at = "idle", !.left = 0]
      BY DEF Kill
    <3> QED BY <3>1, <3>2 DEF Agents
  <2> QED BY <2>1, <2>2, <2>3, <2>4, <2>5 DEF Next, PersonStep, Press, Reload,
             SendIsAccepted, EventArrives, QueryStep, History, HistoryArrives
<1> QED BY <1>1, Invariant, PTL DEF Spec, RunsAsConfirmed

-----------------------------------------------------------------------------
(* What the model sees.  Every result that is saved follows the reply that    *)
(* called it, and only results are between the two: the window of the newest  *)
(* messages can cut them apart, and one that starts with the user cannot.     *)

Result(messages, i) == messages[i].role = "toolResult"
Results(messages, from, to) == \A k \in from..to : Result(messages, k)
Reaches(message, distance) == message.role = "assistant" /\ distance <= message.calls
Asks(message, calls) == message.role = "assistant" /\ message.calls = calls

\* Amid the calls of a reply, that reply is followed by results only, one for
\* each call that is done.
AmidCalls ==
    agent.at \in {"tools", "card", "write"} =>
        \E j \in 1..Len(saved) :
            Asks(saved[j], agent.left + (Len(saved) - j)) /\ Results(saved, j + 1, Len(saved))
AllCalled == \A i \in 1..Len(saved) : Result(saved, i) => Called(saved, i)

Paired == AmidCalls /\ AllCalled

\* j is the reply that called for the message at i.
Calls(messages, j, i) ==
    /\ j \in 1..(i - 1) /\ Reaches(messages[j], i - j)
    /\ Results(messages, j + 1, i - 1)
LEMMA CalledByOne == \A messages, i : Called(messages, i) <=> \E j : Calls(messages, j, i)
  BY DEF Called, Calls, Reaches, Results, Result

\* A message that is no result, or the result of the call that is next.
LEMMA AppendPaired ==
    ASSUME TypeOK, AllCalled, NEW message \in Message,
           \/ message.role # "toolResult"
           \/ AmidCalls /\ InCalls /\ agent.at \in {"tools", "card", "write"},
           saved' = Append(saved, message)
    PROVE  AllCalled'
<1> DEFINE n == Len(saved)
<1>1. n \in Nat /\ saved \in Seq(Message)
  BY DEF TypeOK
<1>2. Len(saved') = n + 1 /\ saved'[n + 1] = message /\ \A i \in 1..n : saved'[i] = saved[i]
  BY <1>1, AppendProperties
<1> HIDE DEF n
<1>3. ASSUME NEW i \in 1..n, Result(saved', i) PROVE Called(saved', i)
  <2>1. Called(saved, i)
    BY <1>2, <1>3 DEF AllCalled, Result, n
  <2>2. PICK j : Calls(saved, j, i)
    BY <2>1, CalledByOne
  <2>3. j \in 1..n /\ \A k \in (j + 1)..(i - 1) : k \in 1..n
    BY <1>1, <2>2 DEF Calls
  <2>4. saved'[j] = saved[j] /\ \A k \in (j + 1)..(i - 1) : saved'[k] = saved[k]
    BY <1>2, <2>3
  <2>5. Calls(saved', j, i)
    BY <2>2, <2>4 DEF Calls, Results, Result
  <2> QED BY <2>5, CalledByOne
<1>4. ASSUME Result(saved', n + 1) PROVE Called(saved', n + 1)
  <2>1. AmidCalls /\ InCalls /\ agent.at \in {"tools", "card", "write"}
    BY <1>2, <1>4 DEF Result
  <2>2. PICK j \in 1..n : Asks(saved[j], agent.left + (n - j)) /\ Results(saved, j + 1, n)
    BY <2>1 DEF AmidCalls, n
  <2>3. agent.left \in Nat /\ agent.left >= 1
    BY <2>1 DEF InCalls, TypeOK
  <2>4. saved'[j] = saved[j] /\ \A k \in (j + 1)..n : saved'[k] = saved[k]
    BY <1>1, <1>2
  <2>5. j \in 1..((n + 1) - 1) /\ (n + 1) - 1 = n /\ (n + 1) - j <= agent.left + (n - j)
    BY <1>1, <2>3
  <2>6. Reaches(saved'[j], (n + 1) - j)
    BY <2>2, <2>4, <2>5 DEF Asks, Reaches
  <2>7. Results(saved', j + 1, (n + 1) - 1)
    BY <2>2, <2>4, <2>5 DEF Results, Result
  <2>8. Calls(saved', j, n + 1)
    BY <2>5, <2>6, <2>7 DEF Calls
  <2> QED BY <2>8, CalledByOne
<1> QED BY <1>1, <1>2, <1>3, <1>4 DEF AllCalled

\* A result is saved; what follows is the next call, or no call.
LEMMA ResultPaired ==
    ASSUME TypeOK, InCalls, Paired, agent.at \in {"tools", "card", "write"},
           saved' = Append(saved, ToolResult),
           agent'.at \in {"tools", "card", "write"} =>
              agent.left > 1 /\ agent'.left = agent.left - 1
    PROVE  Paired'
<1> DEFINE n == Len(saved)
<1>1. n \in Nat /\ saved \in Seq(Message) /\ agent.left \in Nat
  BY DEF TypeOK
<1>2. Len(saved') = n + 1 /\ saved'[n + 1] = ToolResult /\ \A i \in 1..n : saved'[i] = saved[i]
  BY <1>1, MessageTypes, AppendProperties
<1>3. AllCalled'
  BY AppendPaired, MessageTypes DEF Paired
<1>4. ASSUME agent'.at \in {"tools", "card", "write"}
      PROVE  \E j \in 1..Len(saved') : /\ Asks(saved'[j], agent'.left + (Len(saved') - j))
                                        /\ Results(saved', j + 1, Len(saved'))
  <2> HIDE DEF n
  <2>1. PICK j \in 1..n : Asks(saved[j], agent.left + (n - j)) /\ Results(saved, j + 1, n)
    BY DEF Paired, AmidCalls, n
  <2>2. j \in 1..(n + 1) /\ saved'[j] = saved[j] /\ \A k \in (j + 1)..n : saved'[k] = saved[k]
    BY <1>1, <1>2
  <2>3. Result(saved', n + 1)
    BY <1>2 DEF Result, ToolResult
  <2>4. Results(saved', j + 1, n + 1)
    <3> SUFFICES ASSUME NEW k \in (j + 1)..(n + 1) PROVE Result(saved', k)
      BY DEF Results
    <3>1. CASE k = n + 1
      BY <2>3, <3>1
    <3>2. CASE k # n + 1
      <4>1. k \in (j + 1)..n
        BY <1>1, <3>2
      <4> QED BY <2>1, <2>2, <4>1 DEF Results, Result
    <3> QED BY <3>1, <3>2
  <2>5. agent'.left + ((n + 1) - j) = agent.left + (n - j)
    BY <1>1, <1>4
  <2>6. Len(saved') = n + 1
    BY <1>2
  <2>7. Asks(saved'[j], agent'.left + ((n + 1) - j))
    BY <2>1, <2>2, <2>5
  <2> QED BY <2>2, <2>4, <2>6, <2>7, Zenon
<1> QED BY <1>3, <1>4 DEF Paired, AmidCalls

LEMMA SaveResultPaired ==
    ASSUME IInv, Paired, agent.at \in {"tools", "card", "write"},
           SaveResult \/ \E now \in BOOLEAN : Decline(now)
    PROVE  Paired'
<1> DEFINE ended == [agent EXCEPT !.at = "idle", !.left = 0]
<1>1. agent \in Agents /\ agent.left >= 1 /\ agent.left \in Nat
  BY DEF IInv, TypeOK, Agents, InCalls
<1>2. saved' = Append(saved, ToolResult)
  BY DEF SaveResult, SaveAndEnd, Save, Decline
<1>3. ended.at = "idle"
  BY <1>1 DEF Agents
<1>4. AfterCall.at \in {"tools", "card", "write"} =>
        agent.left > 1 /\ AfterCall.left = agent.left - 1
  BY <1>1 DEF AfterCall, Agents
<1>5. ended \in Agents
  BY <1>1 DEF Agents
<1>6. ASSUME ~(agent.left = 1 /\ Ends) PROVE AfterCall \in Agents
  BY <1>1, <1>6, NextAgent DEF IInv
<1> HIDE DEF ended
<1>7. agent'.at \in {"tools", "card", "write"} =>
        agent.left > 1 /\ agent'.left = agent.left - 1
  <2>1. CASE SaveResult
    BY <1>3, <1>4, <2>1 DEF SaveResult, SaveAndEnd, Save, ended
  <2>2. CASE \E now \in BOOLEAN : Decline(now)
    <3>1. PICK next \in Agents, now \in BOOLEAN :
            /\ agent' = [next EXCEPT !.aborted = now]
            /\ next = ended \/ next = AfterCall
      BY <1>5, <1>6, <2>2 DEF Decline, ended
    <3>2. agent'.at = next.at /\ agent'.left = next.left
      BY <3>1 DEF Agents
    <3> QED BY <1>3, <1>4, <3>1, <3>2
  <2> QED BY <2>1, <2>2
<1> QED BY <1>2, <1>7, ResultPaired DEF IInv

\* The agent writes nothing, and is at no call or at the one it was at.
LEMMA SamePaired ==
    ASSUME Paired, UNCHANGED saved,
           \/ agent'.at \notin {"tools", "card", "write"}
           \/ agent.at \in {"tools", "card", "write"} /\ agent'.left = agent.left
    PROVE  Paired'
BY DEF Paired, AmidCalls, AllCalled, Results, Result, Called

LEMMA RepliesPaired == ASSUME IInv, Paired, ModelReplies PROVE Paired'
<1> DEFINE n == Len(saved)
<1>1. agent \in Agents /\ n \in Nat /\ saved \in Seq(Message)
  BY DEF IInv, TypeOK, Agents
<1>2. CASE SaveAndEnd(Reply(0))
  <2>1. saved' = Append(saved, Reply(0)) /\ agent'.at = "idle"
    BY <1>1, <1>2 DEF SaveAndEnd, Agents
  <2>2. AllCalled'
    BY <2>1, AppendPaired, MessageTypes DEF IInv, Paired, Reply
  <2> QED BY <2>1, <2>2 DEF Paired, AmidCalls
<1>3. ASSUME NEW calls \in 1..MaxCalls,
             Save(Reply(calls), [agent EXCEPT !.at = "tools", !.left = calls])
      PROVE  Paired'
  <2>1. calls \in Nat
    BY LimitsAssumption
  <2>2. /\ saved' = Append(saved, Reply(calls)) /\ agent'.left = calls
        /\ Reply(calls) \in Message /\ Reply(calls).role = "assistant" /\ Reply(calls).calls = calls
    BY <1>1, <1>3, <2>1, MessageTypes DEF Save, Agents, Reply
  <2>3. AllCalled'
    BY <2>2, AppendPaired DEF IInv, Paired
  <2>4. Len(saved') = n + 1 /\ saved'[n + 1] = Reply(calls)
    BY <1>1, <2>2, AppendProperties
  <2>5. AmidCalls'
    <3>1. /\ n + 1 \in 1..Len(saved') /\ calls = agent'.left + (Len(saved') - (n + 1))
          /\ (n + 1 + 1)..Len(saved') = {}
      BY <1>1, <2>1, <2>2, <2>4
    <3>2. Asks(saved'[n + 1], agent'.left + (Len(saved') - (n + 1)))
      BY <2>2, <2>4, <3>1 DEF Asks
    <3>3. Results(saved', n + 1 + 1, Len(saved'))
      BY <3>1 DEF Results
    <3> QED BY <3>1, <3>2, <3>3 DEF AmidCalls
  <2> QED BY <2>3, <2>5 DEF Paired
<1> QED BY <1>2, <1>3 DEF ModelReplies

LEMMA StepPaired == ASSUME IInv, Paired, [Next]_vars PROVE Paired'
<1>0. agent \in Agents
  BY DEF IInv, TypeOK, Agents
<1>1. CASE CallTool
  <2>1. CASE SaveResult
    BY <1>1, <2>1, SaveResultPaired DEF CallTool
  <2>2. CASE Ask
    <3>1. agent.at = "tools" /\ agent'.left = agent.left /\ UNCHANGED saved
      BY <1>0, <1>1, <2>2 DEF Ask, CallTool, Agents
    <3> QED BY <3>1, SamePaired
  <2> QED BY <1>1, <2>1, <2>2 DEF CallTool
<1>9. CASE ToolEnds
  BY <1>9, SaveResultPaired DEF ToolEnds
<1>2. CASE CardTimesOut
  <2>1. agent.at = "card" /\ agent.aborted \in BOOLEAN /\ Decline(agent.aborted)
    BY <1>2 DEF CardTimesOut, OpenCards, IInv, TypeOK
  <2> QED BY <2>1, SaveResultPaired
<1>3. CASE Send
  <2>1. saved' = Append(saved, UserMessage) /\ agent' = NewTurn
    BY <1>3 DEF Send
  <2>2. AllCalled'
    BY <2>1, AppendPaired, MessageTypes DEF IInv, Paired, UserMessage
  <2> QED BY <2>1, <2>2 DEF Paired, AmidCalls, NewTurn
<1>4. CASE Confirm
  <2>1. CASE ~ConfirmsCard(answer.call)
    BY <1>4, <2>1, SamePaired DEF Confirm
  <2>2. CASE ConfirmsCard(answer.call)
    <3>1. agent.at = "card" /\ agent.aborted \in BOOLEAN
      BY <2>2 DEF ConfirmsCard, IInv, TypeOK
    <3>2. CASE Approve
      BY <1>0, <3>1, <3>2, SamePaired DEF Approve, Agents
    <3>3. CASE Decline(agent.aborted)
      BY <3>1, <3>3, SaveResultPaired
    <3> QED BY <1>4, <2>2, <3>2, <3>3 DEF Confirm
  <2> QED BY <2>1, <2>2
<1>5. CASE Abort
  <2>1. CASE card # NoCall
    BY <1>5, <2>1, SaveResultPaired DEF Abort, IInv, TypeOK
  <2>2. CASE card = NoCall
    <3>1. UNCHANGED saved /\ agent'.at = agent.at /\ agent'.left = agent.left
      BY <1>0, <1>5, <2>2 DEF Abort, Agents
    <3> QED BY <3>1, SamePaired
  <2> QED BY <2>1, <2>2
<1>6. CASE Kill
  <2>1. UNCHANGED saved /\ agent'.at = "idle"
    BY <1>0, <1>6 DEF Kill, Agents
  <2> QED BY <2>1, SamePaired
<1>7. CASE UNCHANGED <<saved, agent>>
  BY <1>7, SamePaired
<1>8. SendIsAccepted \/ EventArrives \/ QueryStep \/ Reload
        \/ (\E approved \in BOOLEAN : Press(approved)) \/ UNCHANGED vars
        => UNCHANGED <<saved, agent>>
  BY DEF SendIsAccepted, EventArrives, QueryStep, History, HistoryArrives, Reload, Press, vars
<1> QED BY <1>1, <1>2, <1>3, <1>4, <1>5, <1>6, <1>7, <1>8, <1>9, RepliesPaired
        DEF Next, AgentStep, PersonStep

\* A window of paired messages that starts with the user has every reply its
\* results ask for.
LEMMA WindowPaired ==
    ASSUME TypeOK, AllCalled, NEW p \in 1..Len(saved), saved[p].role = "user"
    PROVE  ~Orphan(SubSeq(saved, p, Len(saved)))
<1> DEFINE n == Len(saved)
           window == SubSeq(saved, p, n)
<1>1. n \in Nat /\ saved \in Seq(Message)
  BY DEF TypeOK
<1>2. Len(window) = n - p + 1 /\ \A i \in 1..(n - p + 1) : window[i] = saved[p + i - 1]
  <2>1. \A k \in p..n : saved[k] \in Message
    BY <1>1, ElementOfSeq
  <2> QED BY <1>1, <2>1, SubSeqProperties
<1>3. DOMAIN window = 1..(n - p + 1)
  BY <1>1, <1>2
<1> HIDE DEF n, window
<1>4. ASSUME NEW i \in DOMAIN window, window[i].role = "toolResult" PROVE Called(window, i)
  <2>0. p \in 1..n /\ i \in 1..(n - p + 1)
    BY <1>3 DEF n
  <2>1. p + i - 1 \in 1..n /\ Result(saved, p + i - 1) /\ i \in Nat
    <3>1. p + i - 1 \in 1..n /\ i \in Nat
      BY <1>1, <2>0
    <3> QED BY <1>2, <1>4, <2>0, <3>1 DEF Result
  <2>2. PICK j : Calls(saved, j, p + i - 1)
    BY <2>1, CalledByOne DEF AllCalled, n
  <2>3. j \in 1..((p + i - 1) - 1) /\ p < j
    <3>1. saved[j].role = "assistant" /\ Results(saved, j + 1, (p + i - 1) - 1)
      BY <2>2 DEF Calls, Reaches
    <3>2. p # j /\ p \notin (j + 1)..((p + i - 1) - 1)
      BY <3>1 DEF Results, Result
    <3>3. j \in 1..((p + i - 1) - 1)
      BY <2>2 DEF Calls
    <3>4. p # p + i - 1
      BY <2>1 DEF Result
    <3> QED BY <1>1, <2>0, <3>2, <3>3, <3>4
  <2> DEFINE h == j - p + 1
  <2>4. /\ h \in 1..(i - 1) /\ h \in 1..(n - p + 1) /\ p + h - 1 = j
        /\ i - h = (p + i - 1) - j
    BY <1>1, <2>0, <2>3
  <2>5. \A k \in (h + 1)..(i - 1) : /\ k \in 1..(n - p + 1)
                                    /\ p + k - 1 \in (j + 1)..((p + i - 1) - 1)
    BY <1>1, <2>0, <2>3
  <2> HIDE DEF h
  <2>6. Results(window, h + 1, i - 1)
    <3>1. \A k \in (j + 1)..((p + i - 1) - 1) : saved[k].role = "toolResult"
      BY <2>2 DEF Calls, Results, Result
    <3> QED BY <1>2, <2>5, <3>1 DEF Results, Result
  <2>7. Reaches(window[h], i - h)
    BY <1>2, <2>2, <2>4 DEF Calls
  <2>8. Calls(window, h, i)
    BY <2>4, <2>6, <2>7 DEF Calls
  <2> QED BY <2>8, CalledByOne
<1> QED BY <1>4 DEF Orphan, n, window

\* What the model is shown has, for every tool result, the reply that called
\* it, for every size of the context, as long as the turn fits into it.
THEOREM NoResultAlone == Spec => []NoOrphanedResult
<1>1. ASSUME IInv, Paired PROVE NoOrphanedResult
  <2> SUFFICES ASSUME Fits PROVE ~Orphan(recentContext(saved))
    BY DEF NoOrphanedResult
  <2> DEFINE n == Len(saved)
             first == n - CONTEXT_MESSAGES + 1
             tail == SubSeq(saved, first, n)
             users == {i \in DOMAIN tail : tail[i].role = "user"}
  <2>1. n \in Nat /\ saved \in Seq(Message) /\ CONTEXT_MESSAGES \in Nat \ {0} /\ DOMAIN saved = 1..n
    BY <1>1, LimitsAssumption DEF IInv, TypeOK
  <2>2. CASE n <= CONTEXT_MESSAGES
    <3>1. recentContext(saved) = saved
      BY <2>2 DEF recentContext
    <3> QED BY <1>1, <2>1, <3>1 DEF Orphan, Paired, AllCalled, Result
  <2>3. CASE ~(n <= CONTEXT_MESSAGES)
    <3>1. first \in 1..n
      BY <2>1, <2>3
    <3>2. /\ Len(tail) = n - first + 1 /\ tail \in Seq(Message)
          /\ \A i \in 1..(n - first + 1) : tail[i] = saved[first + i - 1]
      <4>1. \A k \in first..n : saved[k] \in Message
        BY <2>1, <3>1, ElementOfSeq
      <4> QED BY <2>1, <3>1, <4>1, SubSeqProperties
    <3>3. DOMAIN tail = 1..(n - first + 1)
      BY <2>1, <3>1, <3>2
    <3>4. users # {}
      <4>1. PICK i \in 1..n : saved[i].role = "user" /\ i > n - CONTEXT_MESSAGES
        BY <2>1 DEF Fits
      <4>2. i - first + 1 \in 1..(n - first + 1) /\ first + (i - first + 1) - 1 = i
        BY <2>1, <3>1, <4>1
      <4>3. i - first + 1 \in users
        BY <3>2, <3>3, <4>1, <4>2
      <4> QED BY <4>3
    <3>5. recentContext(saved)
            = SubSeq(tail, CHOOSE i \in users : \A j \in users : i <= j, Len(tail))
      BY <2>3, <3>4 DEF recentContext
    <3> DEFINE u == CHOOSE i \in users : \A j \in users : i <= j
    <3>6. u \in users
      <4>1. users \subseteq Nat
        BY <3>3
      <4>2. \E i \in users : \A j \in users : i <= j
        <5> HIDE DEF users
        <5> QED BY <3>4, <4>1, NatMin
      <4> HIDE DEF users
      <4> QED BY <4>2
    <3>7. u \in 1..(n - first + 1) /\ tail[u].role = "user"
      BY <3>3, <3>6
    <3> HIDE DEF u
    <3>8. first + u - 1 \in 1..n /\ saved[first + u - 1].role = "user"
      BY <2>1, <3>1, <3>2, <3>7
    <3>9. SubSeq(tail, u, Len(tail)) = SubSeq(saved, first + u - 1, n)
      <4> HIDE DEF first
      <4>1. tail = [i \in 1..(n - first + 1) |-> saved[first + i - 1]]
        BY <2>1, <3>1 DEF first
      <4> QED BY <2>1, <3>1, <3>2, <3>7, <3>8
    <3> HIDE DEF first, tail, users
    <3> QED BY <1>1, <3>5, <3>8, <3>9, WindowPaired DEF Paired, IInv, u
  <2> QED BY <2>2, <2>3
<1>2. Init => Paired
  BY DEF Init, Paired, AmidCalls, AllCalled
<1>3. IInv /\ Paired /\ [Next]_vars => Paired'
  BY StepPaired
<1> QED BY <1>1, <1>2, <1>3, Invariant, PTL DEF Spec

=============================================================================

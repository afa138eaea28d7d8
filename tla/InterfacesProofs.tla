-------------------------- MODULE InterfacesProofs --------------------------
(***************************************************************************)
(* The neighbour list notices silence in time, for every set of            *)
(* neighbours, delay and lifetimes; and a node whose interfaces and        *)
(* addresses change in any way keeps listening where it should, while its  *)
(* list still keeps its promises, for every set of interfaces and          *)
(* addresses.  Proofs about modules Neighbors and Interfaces.              *)
(***************************************************************************)
EXTENDS Interfaces, SequenceTheorems, TLAPS

-----------------------------------------------------------------------------
(***************************************************************************)
(* The neighbour list by itself.                                           *)
(***************************************************************************)
(* The timer is never late, and no neighbour's time is up more than a      *)
(* delay before the timer expires: what every purge establishes by pushing *)
(* the timer back only after it has dropped whoever is silent.             *)
TimerCovers == \A a \in listed : timerAt <= expire[a] + Delay

IInv ==
  /\ TypeOK
  /\ TimerRuns
  /\ TimerCovers

-----------------------------------------------------------------------------
(* A purge of a list whose times are natural numbers establishes the       *)
(* invariant, whatever the state was before: what it keeps is not silent.  *)
LEMMA PurgeEstablishes ==
  ASSUME TypeOK, NEW those \in SUBSET Address, NEW until \in [Address -> Nat],
         NEW macs \in SUBSET those, NEW gone \in SUBSET Address,
         closed' \subseteq Address, arp' = arp, now' = now,
         those = {} => listed = {},
         Purge(those, until, macs, gone)
  PROVE  IInv'
<1> DEFINE dropped == (Silent(those, until) \cup gone) \cap those
<1>1. /\ listed' = those \ dropped
      /\ mac' = macs \ dropped
      /\ reported' = dropped
      /\ expire' = [a \in Address |-> IF a \in dropped THEN 0 ELSE until[a]]
      /\ timerAt' = NextTimer(those)
  BY DEF Purge
<1>2. now \in Nat /\ Delay \in Nat /\ timerAt \in Nat \cup {Off}
  BY NeighborsAssumption DEF TypeOK
<1>3. \A a \in listed' : a \in Address /\ those # {} /\ expire'[a] = until[a]
                         /\ until[a] >= now /\ until[a] \in Nat
  BY <1>1, <1>2 DEF Silent
<1>4. timerAt' \in Nat \cup {Off}
  BY <1>1, <1>2 DEF NextTimer
<1>5. TypeOK'
  <2>1. expire' \in [Address -> Nat]
    BY <1>1
  <2>2. mac' \subseteq listed' /\ listed' \subseteq Address
    BY <1>1
  <2>3. reported' \subseteq Address
    BY <1>1
  <2> QED
    BY <1>2, <1>4, <2>1, <2>2, <2>3 DEF TypeOK
<1>6. ASSUME NEW a \in listed'
      PROVE  timerAt' = now + Delay
  BY <1>1, <1>3 DEF NextTimer
<1>7. TimerRuns'
  BY <1>2, <1>6 DEF TimerRuns
<1>8. TimerCovers'
  BY <1>2, <1>3, <1>6 DEF TimerCovers
<1> QED
  BY <1>5, <1>7, <1>8 DEF IInv

(* The invariant holds at the start: nobody is listed.                     *)
LEMMA InitOK == Init => IInv
  BY NeighborsAssumption DEF Init, IInv, TypeOK, TimerRuns, TimerCovers, Off

(* The events that leave the list, its times and the timer alone keep the  *)
(* invariant.                                                              *)
LEMMA QuietKeeps ==
  ASSUME IInv, UNCHANGED <<listed, expire, mac, timerAt, now>>,
         arp' \subseteq Address, reported' = {}, closed' = {}
  PROVE  IInv'
  BY DEF IInv, TypeOK, TimerRuns, TimerCovers

(* Hearing of a neighbour keeps the invariant.                             *)
LEMMA UpdateKeeps ==
  ASSUME IInv, NEW a \in Address, NEW life \in Lifetime, Update(a, life)
  PROVE  IInv'
<1>1. now \in Nat /\ life \in Nat /\ Delay \in Nat /\ expire \in [Address -> Nat]
      /\ timerAt \in Nat \cup {Off}
  BY NeighborsAssumption DEF IInv, TypeOK
<1>2. ASSUME a \in listed,
             expire' = [expire EXCEPT ![a] = Prolonged(a, life)],
             mac' = mac \cup ({a} \cap arp), reported' = {},
             UNCHANGED <<listed, timerAt>>
      PROVE  IInv'
  <2>1. Prolonged(a, life) \in Nat /\ Prolonged(a, life) >= expire[a]
    BY <1>1 DEF Prolonged
  <2>2. expire' \in [Address -> Nat] /\ \A b \in Address : expire'[b] >= expire[b]
    BY <1>1, <1>2, <2>1
  <2>3. closed' = {} /\ UNCHANGED <<arp, now>>
    BY DEF Update
  <2>4. TypeOK'
    BY <1>2, <2>2, <2>3 DEF IInv, TypeOK
  <2>5. TimerRuns'
    BY <1>2, <2>3 DEF IInv, TimerRuns
  <2>6. TimerCovers'
    <3> SUFFICES ASSUME NEW b \in listed' PROVE timerAt' <= expire'[b] + Delay
      BY DEF TimerCovers
    <3>1. b \in listed /\ b \in Address /\ timerAt <= expire[b] + Delay
      BY <1>2 DEF IInv, TypeOK, TimerCovers
    <3>2. timerAt \in Int /\ expire[b] \in Nat /\ expire'[b] \in Nat
      BY <1>1, <2>2, <3>1 DEF Off
    <3> QED
      BY <1>1, <1>2, <2>2, <3>1, <3>2
  <2> QED
    BY <2>4, <2>5, <2>6 DEF IInv
<1>3. ASSUME a \notin listed,
             Purge(listed \cup {a}, [expire EXCEPT ![a] = now + life],
                   mac \cup ({a} \cap arp), {})
      PROVE  IInv'
  <2>1. [expire EXCEPT ![a] = now + life] \in [Address -> Nat]
    BY <1>1
  <2>2. listed \cup {a} \in SUBSET Address
        /\ mac \cup ({a} \cap arp) \in SUBSET (listed \cup {a})
    BY DEF IInv, TypeOK
  <2>3. closed' \subseteq Address /\ arp' = arp /\ now' = now
    BY DEF Update
  <2> QED
    BY <1>3, <2>1, <2>2, <2>3, PurgeEstablishes DEF IInv
<1> QED
  BY <1>2, <1>3 DEF Update

(* So does a purge of the list as it is, by the timer, by a query or by a  *)
(* failed transmission.                                                    *)
LEMMA PurgeKeeps ==
  ASSUME IInv, NEW gone \in SUBSET Address, Purge(listed, expire, mac, gone),
         closed' \subseteq Address, UNCHANGED <<arp, now>>
  PROVE  IInv'
<1>1. listed \in SUBSET Address /\ expire \in [Address -> Nat]
      /\ mac \in SUBSET listed
  BY DEF IInv, TypeOK
<1> QED
  BY <1>1, PurgeEstablishes DEF IInv

(* Every step keeps the invariant.                                         *)
LEMMA NextOK == IInv /\ [Next]_vars => IInv'
<1> SUFFICES ASSUME IInv, [Next]_vars PROVE IInv'
  OBVIOUS
<1>1. ASSUME NEW a \in Address, NEW life \in Lifetime, Update(a, life)
      PROVE  IInv'
  BY <1>1, UpdateKeeps
<1>2. ASSUME NEW a \in Address, ProcessTxError(a)
      PROVE  IInv'
  <2>1. {a} \cap mac \in SUBSET Address
    OBVIOUS
  <2> QED
    BY <1>2, <2>1, PurgeKeeps DEF ProcessTxError
<1>3. ASSUME NEW a \in Address, ArpChanges(a)
      PROVE  IInv'
  <2>1. arp' \subseteq Address
    BY <1>3 DEF ArpChanges, IInv, TypeOK
  <2> QED
    BY <1>3, <2>1, QuietKeeps DEF ArpChanges
<1>4. CASE TimerExpire
  <2>1. CASE listed = {}
    BY <1>4, <2>1
       DEF TimerExpire, IInv, TypeOK, TimerRuns, TimerCovers
  <2>2. CASE listed # {}
    BY <1>4, <2>2, PurgeKeeps DEF TimerExpire
  <2> QED
    BY <2>1, <2>2
<1>5. CASE Query
  BY <1>5, PurgeKeeps DEF Query
<1>6. CASE Clear
  BY <1>6 DEF Clear, IInv, TypeOK, TimerRuns, TimerCovers
<1>7. CASE Tick
  <2>1. now \in Nat /\ timerAt \in Nat \cup {Off} /\ MaxTime \in Nat
    BY NeighborsAssumption DEF IInv, TypeOK
  <2>2. TypeOK'
    BY <1>7, <2>1 DEF Tick, IInv, TypeOK
  <2>3. TimerRuns'
    <3>1. ASSUME listed # {} PROVE now + 1 <= timerAt /\ timerAt <= now + 1 + Delay
      BY <1>7, <2>1, <3>1, NeighborsAssumption DEF Tick, IInv, TimerRuns, Off
    <3> QED
      BY <1>7, <3>1 DEF Tick, TimerRuns
  <2>4. TimerCovers'
    BY <1>7 DEF Tick, IInv, TimerCovers
  <2> QED
    BY <2>2, <2>3, <2>4 DEF IInv
<1>8. CASE UNCHANGED vars
  BY <1>8 DEF vars, IInv, TypeOK, TimerRuns, TimerCovers
<1> QED
  BY <1>1, <1>2, <1>3, <1>4, <1>5, <1>6, <1>7, <1>8 DEF Next

(* The invariant holds throughout.                                         *)
LEMMA Invariance == Spec => []IInv
  BY InitOK, NextOK, PTL DEF Spec

(* The neighbour list keeps its types.                                     *)
THEOREM TypeCorrect == Spec => []TypeOK
<1>1. IInv => TypeOK
  BY DEF IInv
<1> QED
  BY <1>1, Invariance, PTL

(* Whoever is listed has a running timer, whatever operations start or     *)
(* restart it.                                                             *)
THEOREM AlwaysWatched == Spec => []TimerRuns
<1>1. IInv => TimerRuns
  BY DEF IInv
<1> QED
  BY <1>1, Invariance, PTL

(* No neighbour stays listed longer than a delay past its time.            *)
THEOREM SilenceNoticed == Spec => []NoticedInTime
<1>1. IInv => NoticedInTime
  <2> SUFFICES ASSUME IInv, NEW a \in listed PROVE now <= expire[a] + Delay
    BY DEF NoticedInTime
  <2>1. now <= timerAt /\ timerAt <= expire[a] + Delay
    BY DEF IInv, TimerRuns, TimerCovers
  <2>2. now \in Int /\ timerAt \in Int /\ expire[a] \in Int /\ Delay \in Int
    BY NeighborsAssumption DEF IInv, TypeOK, Off
  <2> QED
    BY <2>1, <2>2
<1> QED
  BY <1>1, Invariance, PTL

-----------------------------------------------------------------------------
(* A purge of what is known of the neighbours is a report of some of them, *)
(* each with a cause.                                                      *)
LEMMA PurgeReports ==
  ASSUME NEW those, NEW until, NEW macs, NEW gone,
         Purge(those, until, macs, gone), now' = now
  PROVE  \E lost \in SUBSET (those \cap (Watch!Overdue(those, until) \cup gone)) :
           Watch!Report(those, until, lost)
<1> DEFINE dropped == (Silent(those, until) \cup gone) \cap those
<1>1. dropped \in SUBSET (those \cap (Watch!Overdue(those, until) \cup gone))
  BY DEF Silent, Watch!Overdue
<1>2. Watch!Report(those, until, dropped)
  BY DEF Purge, Watch!Report
<1> QED
  BY <1>1, <1>2

(* A step that reports nobody and leaves the neighbours alone is one in    *)
(* which nobody is found lost.                                             *)
LEMMA QuietStepLosesNobody ==
  ASSUME TypeOK, UNCHANGED <<listed, expire, now>>, reported' = {}, closed' = {}
  PROVE  Watch!Lose
<1>1. {} \in SUBSET (listed \cap (Watch!Overdue(listed, expire) \cup closed'))
  OBVIOUS
<1>2. expire = [a \in Address |-> expire[a]]
  BY DEF TypeOK
<1>3. Watch!Report(listed, expire, {})
  BY <1>2 DEF Watch!Report
<1> QED
  BY <1>1, <1>3 DEF Watch!Lose

(* So is a purge of the list as it is.                                     *)
LEMMA PurgeLoses ==
  ASSUME NEW gone \in SUBSET Address, Purge(listed, expire, mac, gone),
         closed' = gone, now' = now
  PROVE  Watch!Lose
<1>1. \E lost \in SUBSET (listed \cap (Watch!Overdue(listed, expire) \cup gone)) :
        Watch!Report(listed, expire, lost)
  BY PurgeReports
<1> QED
  BY <1>1 DEF Watch!Lose

(* Hearing of a neighbour is what the abstract list calls so.              *)
LEMMA UpdateHears ==
  ASSUME TypeOK, NEW a \in Address, NEW life \in Lifetime, Update(a, life)
  PROVE  Watch!Hear(a, life)
<1> DEFINE until == [expire EXCEPT ![a] =
                       IF a \in listed /\ expire[a] > now + life
                       THEN expire[a] ELSE now + life]
<1>1. now \in Nat /\ life \in Nat /\ expire \in [Address -> Nat]
  BY NeighborsAssumption DEF TypeOK
<1>2. closed' = {} /\ now' = now
  BY DEF Update
<1>3. \E lost \in SUBSET Watch!Overdue(listed \cup {a}, until) :
        Watch!Report(listed \cup {a}, until, lost)
  <2>1. CASE /\ a \in listed
             /\ expire' = [expire EXCEPT ![a] = Prolonged(a, life)]
             /\ reported' = {}
             /\ UNCHANGED listed
    <3>1. expire' = until
      <4>1. expire[a] \in Nat /\ now + life \in Nat
        BY <1>1
      <4>2. Prolonged(a, life) = IF a \in listed /\ expire[a] > now + life
                                THEN expire[a] ELSE now + life
        BY <2>1, <4>1 DEF Prolonged
      <4> QED
        BY <2>1, <4>2
    <3>2. until = [x \in Address |-> until[x]]
      BY <1>1
    <3>3. listed' = (listed \cup {a}) \ {}
      BY <2>1
    <3>4. Watch!Report(listed \cup {a}, until, {})
      BY <1>2, <2>1, <3>1, <3>2, <3>3 DEF Watch!Report
    <3> QED
      BY <3>4
  <2>2. CASE /\ a \notin listed
             /\ Purge(listed \cup {a}, [expire EXCEPT ![a] = now + life],
                      mac \cup ({a} \cap arp), {})
    <3>1. until = [expire EXCEPT ![a] = now + life]
      BY <2>2
    <3> HIDE DEF until
    <3>2. \E lost \in SUBSET ((listed \cup {a})
                               \cap (Watch!Overdue(listed \cup {a}, until) \cup {})) :
            Watch!Report(listed \cup {a}, until, lost)
      BY <1>2, <2>2, <3>1, PurgeReports
    <3> QED
      BY <3>2
  <2> QED
    BY <2>1, <2>2 DEF Update
<1> QED
  BY <1>2, <1>3 DEF Watch!Hear

(* Every step of the list with its timer is a step of the list that        *)
(* promises to report in time.                                             *)
LEMMA StepOfWatch == IInv /\ [Next]_vars => [Watch!Next]_Watch!watch
<1> SUFFICES ASSUME IInv, [Next]_vars PROVE [Watch!Next]_Watch!watch
  OBVIOUS
<1>0. TypeOK
  BY DEF IInv
<1>1. ASSUME NEW a \in Address, NEW life \in Lifetime, Update(a, life)
      PROVE  Watch!Next
  BY <1>0, <1>1, UpdateHears DEF Watch!Next
<1>2. ASSUME NEW a \in Address, ProcessTxError(a)
      PROVE  Watch!Next
  <2>1. {a} \cap mac \in SUBSET Address
    OBVIOUS
  <2> QED
    BY <1>2, <2>1, PurgeLoses DEF ProcessTxError, Watch!Next
<1>3. ASSUME NEW a \in Address, ArpChanges(a)
      PROVE  Watch!Next
  BY <1>0, <1>3, QuietStepLosesNobody DEF ArpChanges, Watch!Next
<1>4. CASE TimerExpire
  <2>1. CASE listed = {}
    BY <1>0, <1>4, <2>1, QuietStepLosesNobody DEF TimerExpire, Watch!Next
  <2>2. CASE listed # {}
    BY <1>4, <2>2, PurgeLoses DEF TimerExpire, Watch!Next
  <2> QED
    BY <2>1, <2>2
<1>5. CASE Query
  BY <1>5, PurgeLoses DEF Query, Watch!Next
<1>6. CASE Clear
  BY <1>6 DEF Clear, Watch!Leave, Watch!Next
<1>7. CASE Tick
  <2>1. ASSUME NEW a \in listed PROVE now < expire[a] + Delay
    <3>1. now <= timerAt /\ timerAt # now /\ timerAt <= expire[a] + Delay
      BY <1>7 DEF Tick, IInv, TimerRuns, TimerCovers
    <3>2. now \in Int /\ timerAt \in Int /\ expire[a] \in Int /\ Delay \in Int
      BY NeighborsAssumption DEF IInv, TypeOK, Off
    <3> QED
      BY <3>1, <3>2
  <2> QED
    BY <1>7, <2>1 DEF Tick, Watch!Pass, Watch!Next
<1>8. CASE UNCHANGED vars
  BY <1>8 DEF vars, Watch!watch
<1> QED
  BY <1>1, <1>2, <1>3, <1>4, <1>5, <1>6, <1>7, <1>8 DEF Next

(* The neighbour list keeps the promises the routing protocol relies on:   *)
(* reports only with cause, and in time, whatever pushes its timer back.   *)
THEOREM KeepsWatch == Spec => WatchSpec
<1>1. Init => Watch!Init
  BY DEF Init, Watch!Init
<1> QED
  BY <1>1, Invariance, StepOfWatch, PTL DEF Spec, WatchSpec, Watch!Spec

-----------------------------------------------------------------------------
(***************************************************************************)
(* The composition.                                                        *)
(***************************************************************************)

(* Whatever happens to the interfaces is, for the neighbour list, hearing  *)
(* of somebody, being cleared, or nothing.                                 *)
LEMMA StepOfList == [NodeNext]_nodeVars => [Next]_vars
<1> SUFFICES ASSUME [NodeNext]_nodeVars PROVE [Next]_vars
  OBVIOUS
<1>1. ASSUME NEW i \in Interface, NotifyInterfaceUp(i)
      PROVE  UNCHANGED vars
  BY <1>1 DEF NotifyInterfaceUp
<1>2. ASSUME NEW i \in Interface, NotifyInterfaceDown(i)
      PROVE  Clear \/ UNCHANGED vars
  BY <1>2 DEF NotifyInterfaceDown, NoInterfacesLeft
<1>3. ASSUME NEW i \in Interface, NEW a \in OwnOf[i], NotifyAddAddress(i, a)
      PROVE  UNCHANGED vars
  BY <1>3 DEF NotifyAddAddress
<1>4. ASSUME NEW i \in Interface, NEW k \in DOMAIN addrs[i],
             NotifyRemoveAddress(i, k)
      PROVE  Clear \/ UNCHANGED vars
  BY <1>4 DEF NotifyRemoveAddress, RemoveListening, RemoveOnly, Replace,
              NoInterfacesLeft
<1>5. ASSUME NEW a \in Own, Forget(a)
      PROVE  UNCHANGED vars
  BY <1>5 DEF Forget
<1>6. ASSUME NEW a \in Own, NEW n \in Address, NEW life \in Lifetime,
             Receive(a, n, life)
      PROVE  Next
  BY <1>6 DEF Receive, Next
<1>7. CASE WatchOn
  BY <1>7 DEF WatchOn, Next
<1>8. CASE UNCHANGED nodeVars
  BY <1>8 DEF nodeVars
<1>9. Clear => Next
  BY DEF Next
<1> QED
  BY <1>1, <1>2, <1>3, <1>4, <1>5, <1>6, <1>7, <1>8, <1>9 DEF NodeNext

(* The list is never driven outside its own specification, so all that is  *)
(* proved of it holds in the node.                                         *)
THEOREM NodeIsAList == NodeSpec => Spec
<1>1. NodeInit => Init
  BY DEF NodeInit
<1> QED
  BY <1>1, StepOfList, PTL DEF NodeSpec, Spec

(* Reports with cause and in time, through any change of interfaces.       *)
THEOREM NodeKeepsWatch == NodeSpec => WatchSpec
  BY NodeIsAList, KeepsWatch, PTL

(* Silence is noticed within a delay, and the timer runs, while interfaces *)
(* come and go.                                                            *)
THEOREM NodeNotices == NodeSpec => []NoticedInTime /\ []TimerRuns
  BY NodeIsAList, SilenceNoticed, AlwaysWatched, PTL

-----------------------------------------------------------------------------
(***************************************************************************)
(* The invariant.  No interface has an address twice: otherwise removing a *)
(* later copy would close the socket of the first.  Every socket has one   *)
(* for broadcasts beside it, open or closed, and every interface that is   *)
(* up has its own; unless one was reported up again, those are all, and    *)
(* one for each.                                                           *)
(***************************************************************************)
Distinct ==
  \A i \in Interface : \A k, l \in DOMAIN addrs[i] :
    addrs[i][k] = addrs[i][l] => k = l

Paired == \A a \in Own : sockets[a] <= bcast[a] + stale[a]

Covered == \A i \in Listening : First(i) \in HasSocket

Single ==
  ~repeated => /\ HasSocket = {First(i) : i \in Listening}
               /\ \A a \in HasSocket : sockets[a] = 1

IfInv ==
  /\ InterfacesTypeOK
  /\ Distinct
  /\ Paired
  /\ Covered
  /\ Single
  /\ BroadcastHeard
  /\ RestsOnSockets

(* What a list of addresses is.                                            *)
LEMMA AddrsAre ==
  ASSUME InterfacesTypeOK, NEW i \in Interface
  PROVE  /\ addrs[i] \in Seq(Own)
         /\ Len(addrs[i]) \in Nat
         /\ DOMAIN addrs[i] = 1 .. Len(addrs[i])
         /\ addrs[i] = <<>> <=> Len(addrs[i]) = 0
<1>1. addrs[i] \in Seq(Own)
  BY DEF InterfacesTypeOK
<1>2. Len(addrs[i]) \in Nat /\ DOMAIN addrs[i] = 1 .. Len(addrs[i])
  BY <1>1, LenProperties
<1>3. addrs[i] = <<>> <=> Len(addrs[i]) = 0
  BY <1>1, EmptySeq
<1> QED
  BY <1>1, <1>2, <1>3

(* An interface belongs to one list of addresses only.                     *)
LEMMA OwnerIsUnique ==
  ASSUME NEW i \in Interface, NEW j \in Interface,
         NEW a \in OwnOf[i], a \in OwnOf[j]
  PROVE  i = j
  BY InterfacesAssumption

(* An address of an interface is one of the node's.                        *)
LEMMA OwnOfIsOwn ==
  ASSUME NEW i \in Interface, NEW a \in OwnOf[i]
  PROVE  a \in Own
  BY DEF Own

(* The address listened on by an interface is one of its own.              *)
LEMMA FirstIsOwn ==
  ASSUME InterfacesTypeOK, NEW i \in Listening
  PROVE  /\ i \in Interface /\ i \in up
         /\ 1 \in DOMAIN addrs[i]
         /\ First(i) \in OwnOf[i]
         /\ First(i) \in Own
<1>1. i \in Interface /\ i \in up /\ addrs[i] # <<>>
  BY DEF InterfacesTypeOK, Listening
<1>2. 1 \in DOMAIN addrs[i]
  BY <1>1, AddrsAre
<1>3. First(i) \in OwnOf[i]
  BY <1>1, <1>2 DEF InterfacesTypeOK, First
<1> QED
  BY <1>1, <1>2, <1>3, OwnOfIsOwn

(* Nothing is listened on at the start.                                    *)
LEMMA IfInitOK == NodeInit => IfInv
<1> SUFFICES ASSUME NodeInit PROVE IfInv
  OBVIOUS
<1>1. InterfacesTypeOK
  <2>1. addrs \in [Interface -> Seq(Own)]
    BY EmptySeq DEF NodeInit
  <2>2. \A i \in Interface : DOMAIN addrs[i] = {}
    <3>1. \A i \in Interface : addrs[i] = <<>>
      BY DEF NodeInit
    <3>2. DOMAIN <<>> = {}
      OBVIOUS
    <3> QED
      BY <3>1, <3>2
  <2>3. hello \in BOOLEAN
    BY DEF NodeInit
  <2> QED
    BY <2>1, <2>2, <2>3 DEF NodeInit, InterfacesTypeOK
<1>2. Distinct
  BY DEF NodeInit, Distinct
<1>3. Listening = {} /\ subnets = {} /\ learned = {} /\ listed = {}
  BY DEF NodeInit, Listening, Init
<1>4. \A a \in Own : sockets[a] = 0 /\ bcast[a] = 0 /\ stale[a] = 0
  BY DEF NodeInit
<1>5. HasSocket = {}
  BY <1>4 DEF HasSocket
<1>6. Paired
  BY <1>4 DEF Paired
<1> QED
  BY <1>1, <1>2, <1>3, <1>5, <1>6
     DEF IfInv, Covered, Single, BroadcastHeard, RestsOnSockets

(* Steps that leave interfaces and addresses alone, and list nobody where  *)
(* there is no socket, need only keep to the sockets with the routes.      *)
LEMMA SameInterfaces ==
  ASSUME IfInv,
         UNCHANGED <<up, addrs, sockets, bcast, stale, subnets, lo, hello, repeated>>,
         learned' \subseteq HasSocket,
         HasSocket = {} => listed' = {}
  PROVE  IfInv'
<1>1. Listening' = Listening /\ \A i : First(i)' = First(i)
  BY DEF Listening, First
<1>2. HasSocket' = HasSocket
  BY DEF HasSocket
<1>3. Covered' /\ Single'
  BY <1>1, <1>2 DEF IfInv, Covered, Single, First
<1>4. Paired' /\ BroadcastHeard' /\ RestsOnSockets'
  BY <1>2 DEF IfInv, Paired, BroadcastHeard, RestsOnSockets
<1>5. HasSocket \subseteq Own
  BY DEF HasSocket
<1>6. InterfacesTypeOK' /\ Distinct'
  BY <1>5 DEF IfInv, InterfacesTypeOK, Distinct
<1> QED
  BY <1>3, <1>4, <1>6 DEF IfInv

(* The sockets are found by their addresses.                               *)
LEMMA HasSocketIs ==
  /\ HasSocket \subseteq Own
  /\ HasSocket' \subseteq Own
  /\ \A a \in Own : a \in HasSocket <=> sockets[a] > 0
  /\ \A a \in Own : a \in HasSocket' <=> sockets'[a] > 0
  BY DEF HasSocket

(* One interface and its addresses change: every interface still has its   *)
(* socket if the sockets for addresses of the others stay.                 *)
LEMMA CoveredFollows ==
  ASSUME InterfacesTypeOK, Covered, NEW i \in Interface,
         Listening' \ {i} = Listening \ {i},
         \A j \in Interface \ {i} : addrs'[j] = addrs[j],
         \A b \in HasSocket \ OwnOf[i] : b \in HasSocket',
         i \in Listening' => addrs'[i][1] \in HasSocket'
  PROVE  Covered'
<1> SUFFICES ASSUME NEW j \in Listening' PROVE addrs'[j][1] \in HasSocket'
  BY DEF Covered, First
<1>1. CASE j = i
  BY <1>1
<1>2. CASE j # i
  <2>1. j \in Listening /\ j \in Interface /\ First(j) \in OwnOf[j]
    BY <1>2, FirstIsOwn
  <2>2. First(j) \in HasSocket /\ First(j) \notin OwnOf[i]
    BY <1>2, <2>1, OwnerIsUnique DEF Covered
  <2>3. addrs'[j][1] = First(j)
    BY <1>2, <2>1 DEF First
  <2> QED
    BY <2>2, <2>3
<1> QED
  BY <1>1, <1>2

(* An interface comes up or down, or its first address changes: the        *)
(* addresses listened on follow, if the other interfaces keep theirs.      *)
LEMMA SocketsFollow ==
  ASSUME HasSocket = {First(j) : j \in Listening},
         InterfacesTypeOK, NEW i \in Interface,
         Listening' \ {i} = Listening \ {i},
         \A j \in Interface \ {i} : addrs'[j] = addrs[j],
         HasSocket' = (HasSocket \ IF i \in Listening THEN {First(i)} ELSE {})
                      \cup IF i \in Listening' THEN {addrs'[i][1]} ELSE {}
  PROVE  HasSocket' = {First(j) : j \in Listening}'
<1>1. \A j \in Listening' : First(j)' = addrs'[j][1]
  BY DEF First
<1>2. Listening \subseteq Interface
  BY FirstIsOwn
<1>3. \A j \in Listening \ {i} : j \in Listening' /\ addrs'[j][1] = First(j)
  BY <1>2 DEF First
<1>4. \A j \in Listening' \ {i} : j \in Listening \ {i}
  OBVIOUS
<1>5. ASSUME NEW j \in Listening \ {i}, i \in Listening
      PROVE  First(j) # First(i)
  BY <1>5, FirstIsOwn, OwnerIsUnique
<1>6. HasSocket' = {addrs'[j][1] : j \in Listening'}
  <2>1. ASSUME NEW x \in HasSocket' PROVE \E j \in Listening' : x = addrs'[j][1]
    <3>1. CASE x \in HasSocket
      <4>1. PICK j \in Listening : x = First(j)
        BY <3>1
      <4>2. CASE j # i
        BY <1>3, <4>1, <4>2
      <4>3. CASE j = i
        BY <2>1, <4>1, <4>3
      <4> QED
        BY <4>2, <4>3
    <3>2. CASE x \notin HasSocket
      BY <2>1, <3>2
    <3> QED
      BY <3>1, <3>2
  <2>2. ASSUME NEW j \in Listening' PROVE addrs'[j][1] \in HasSocket'
    <3>1. CASE j = i
      BY <2>2, <3>1
    <3>2. CASE j # i
      <4>1. j \in Listening \ {i} /\ addrs'[j][1] = First(j)
        BY <1>3, <1>4, <2>2, <3>2
      <4>2. First(j) \in HasSocket
        BY <4>1
      <4>3. i \in Listening => First(j) # First(i)
        BY <1>5, <4>1
      <4> QED
        BY <4>1, <4>2, <4>3
    <3> QED
      BY <3>1, <3>2
  <2>3. HasSocket' \subseteq {addrs'[j][1] : j \in Listening'}
    BY <2>1
  <2>4. {addrs'[j][1] : j \in Listening'} \subseteq HasSocket'
    BY <2>2
  <2> QED
    BY <2>3, <2>4
<1> QED
  BY <1>1, <1>6

(* A pair of sockets is opened for a.                                      *)
LEMMA OpenKeeps ==
  ASSUME NEW a \in Own, NEW others \in [Own -> Nat],
         NEW bcasts \in [Own -> Nat], Open(a, others, bcasts)
  PROVE  /\ sockets' \in [Own -> Nat] /\ bcast' \in [Own -> Nat]
         /\ sockets'[a] = others[a] + 1 /\ bcast'[a] = bcasts[a] + 1
         /\ \A b \in Own \ {a} : sockets'[b] = others[b] /\ bcast'[b] = bcasts[b]
<1>1. /\ sockets' = [others EXCEPT ![a] = @ + 1]
      /\ bcast' = [bcasts EXCEPT ![a] = @ + 1]
  BY DEF Open
<1>2. bcasts[a] + 1 \in Nat /\ others[a] + 1 \in Nat
  OBVIOUS
<1> QED
  BY <1>1, <1>2

(* A pair for an address that has none, while no interface was reported up *)
(* again, leaves one for each and all of them heard on.                    *)
LEMMA OpenedIsHeard ==
  ASSUME IfInv, ~repeated, NEW a \in Own, a \notin HasSocket,
         Open(a, sockets, bcast), subnets' = subnets \cup {a}
  PROVE  /\ HasSocket' = HasSocket \cup {a}
         /\ \A b \in HasSocket' : sockets'[b] = 1 /\ bcast'[b] > 0 /\ b \in subnets'
<1>1. sockets \in [Own -> Nat] /\ bcast \in [Own -> Nat]
  BY DEF IfInv, InterfacesTypeOK
<1>2. /\ sockets'[a] = sockets[a] + 1 /\ bcast'[a] = bcast[a] + 1
      /\ \A b \in Own \ {a} : sockets'[b] = sockets[b] /\ bcast'[b] = bcast[b]
  BY <1>1, OpenKeeps
<1>3. sockets[a] = 0
  BY <1>1, HasSocketIs
<1>4. HasSocket' = HasSocket \cup {a}
  BY <1>2, <1>3, HasSocketIs
<1>5. \A b \in HasSocket : b \in Own /\ sockets[b] = 1 /\ bcast[b] > 0 /\ b \in subnets
  BY HasSocketIs DEF IfInv, Single, BroadcastHeard
<1>6. bcast[a] + 1 > 0
  BY <1>1
<1> QED
  BY <1>2, <1>3, <1>4, <1>5, <1>6

(* Opening a pair for a keeps sockets in pairs and routes on sockets.      *)
LEMMA OpenedIsPaired ==
  ASSUME IfInv, NEW a \in Own, Open(a, sockets, bcast), stale' = stale,
         subnets' = subnets \cup {a}, UNCHANGED <<vars, learned, lo, hello>>
  PROVE  /\ sockets' \in [Own -> Nat] /\ bcast' \in [Own -> Nat]
         /\ a \in HasSocket' /\ HasSocket \subseteq HasSocket'
         /\ Paired' /\ RestsOnSockets'
<1>1. /\ sockets \in [Own -> Nat] /\ bcast \in [Own -> Nat]
      /\ stale \in [Own -> Nat]
  BY DEF IfInv, InterfacesTypeOK
<1>2. /\ sockets' \in [Own -> Nat] /\ bcast' \in [Own -> Nat]
      /\ sockets'[a] = sockets[a] + 1 /\ bcast'[a] = bcast[a] + 1
      /\ \A b \in Own \ {a} : sockets'[b] = sockets[b] /\ bcast'[b] = bcast[b]
  BY <1>1, OpenKeeps
<1>3. a \in HasSocket' /\ HasSocket \subseteq HasSocket'
  BY <1>1, <1>2, HasSocketIs
<1>4. Paired'
  BY <1>1, <1>2 DEF IfInv, Paired
<1>5. RestsOnSockets'
  BY <1>3 DEF IfInv, RestsOnSockets
<1> QED
  BY <1>2, <1>3, <1>4, <1>5

(* NotifyInterfaceUp keeps the invariant.                                  *)
LEMMA UpKeeps ==
  ASSUME IfInv, NEW i \in Interface, NotifyInterfaceUp(i)
  PROVE  IfInv'
<1> DEFINE a == First(i)
<1>1. /\ addrs[i] # <<>> /\ addrs' = addrs
      /\ up' = up \cup {i} /\ stale' = stale
      /\ repeated' = (repeated \/ i \in up)
      /\ Open(a, sockets, bcast)
      /\ subnets' = subnets \cup {a}
      /\ UNCHANGED <<vars, learned, lo, hello>>
  BY DEF NotifyInterfaceUp
<1>2. InterfacesTypeOK /\ Covered
  BY DEF IfInv
<1>3. 1 \in DOMAIN addrs[i]
  BY <1>1, <1>2, AddrsAre
<1>4. a \in OwnOf[i] /\ a \in Own
  BY <1>2, <1>3, OwnOfIsOwn DEF InterfacesTypeOK, First
<1>5. a = addrs'[i][1]
  BY <1>1 DEF First
<1>6. Listening' = Listening \cup {i}
  BY <1>1 DEF Listening
<1>7. i \in up => i \in Listening
  BY <1>1 DEF Listening
<1> HIDE DEF a
<1>8. /\ sockets' \in [Own -> Nat] /\ bcast' \in [Own -> Nat]
      /\ a \in HasSocket' /\ HasSocket \subseteq HasSocket'
      /\ Paired' /\ RestsOnSockets'
  BY <1>1, <1>4, OpenedIsPaired
<1>9. InterfacesTypeOK' /\ Distinct'
  BY <1>1, <1>4, <1>8 DEF IfInv, InterfacesTypeOK, Distinct
<1>10. Covered'
  BY <1>1, <1>2, <1>5, <1>6, <1>8, CoveredFollows
<1>11. ASSUME ~repeated'
       PROVE  /\ HasSocket' = {First(j) : j \in Listening}'
              /\ \A b \in HasSocket' : sockets'[b] = 1 /\ bcast'[b] > 0 /\ b \in subnets'
  <2>1. ~repeated /\ i \notin Listening
    BY <1>1, <1>11 DEF Listening
  <2>2. HasSocket = {First(j) : j \in Listening}
    BY <2>1 DEF IfInv, Single
  <2>3. a \notin HasSocket
    BY <1>2, <1>4, <2>1, <2>2, FirstIsOwn, OwnerIsUnique
  <2>4. /\ HasSocket' = HasSocket \cup {a}
        /\ \A b \in HasSocket' : sockets'[b] = 1 /\ bcast'[b] > 0 /\ b \in subnets'
    BY <1>1, <1>4, <2>1, <2>3, OpenedIsHeard
  <2> QED
    BY <1>1, <1>2, <1>5, <1>6, <2>1, <2>2, <2>4, SocketsFollow
<1> QED
  BY <1>8, <1>9, <1>10, <1>11 DEF IfInv, Single, BroadcastHeard

(* One socket of a is closed: the others stay.                             *)
LEMMA OneLessIs ==
  ASSUME InterfacesTypeOK, NEW a \in HasSocket
  PROVE  /\ a \in Own
         /\ OneLess(a) \in [Own -> Nat]
         /\ OneLess(a)[a] = sockets[a] - 1
         /\ \A b \in Own \ {a} : OneLess(a)[b] = sockets[b]
<1>1. sockets \in [Own -> Nat] /\ a \in Own /\ sockets[a] > 0
  BY HasSocketIs DEF InterfacesTypeOK
<1>2. sockets[a] - 1 \in Nat
  BY <1>1
<1> QED
  BY <1>1, <1>2 DEF OneLess

(* What closing a socket of a, and perhaps the whole node, leaves is still *)
(* routed, and heard on if it was the only one.                            *)
LEMMA ClosingKeeps ==
  ASSUME IfInv, NEW a \in HasSocket,
         sockets' = OneLess(a),
         \A b \in Own \ {a} : bcast'[b] = bcast[b],
         \/ HasSocket' = {} /\ NoInterfacesLeft
         \/ HasSocket' # {} /\ DeleteAllRoutesFromInterface(a)
                            /\ UNCHANGED <<vars, lo, hello>>
  PROVE  /\ RestsOnSockets'
         /\ subnets' \subseteq Own /\ learned' \subseteq Own
         /\ lo' \in BOOLEAN /\ hello' \in BOOLEAN
         /\ \A b \in HasSocket \ {a} : b \in HasSocket'
         /\ ~repeated =>
              /\ HasSocket' = HasSocket \ {a}
              /\ \A b \in HasSocket' :
                   sockets'[b] = 1 /\ bcast'[b] > 0 /\ b \in subnets'
<1>1. /\ sockets \in [Own -> Nat]
      /\ subnets \subseteq Own /\ learned \subseteq Own
      /\ lo \in BOOLEAN /\ hello \in BOOLEAN
      /\ subnets \cup learned \subseteq HasSocket
      /\ InterfacesTypeOK
  BY DEF IfInv, InterfacesTypeOK, RestsOnSockets
<1>2. /\ a \in Own /\ sockets'[a] = sockets[a] - 1
      /\ \A b \in Own \ {a} : sockets'[b] = sockets[b]
  BY <1>1, OneLessIs
<1>3. \A b \in HasSocket \ {a} : b \in HasSocket'
  BY <1>2, HasSocketIs
<1>4. ASSUME ~repeated
      PROVE  /\ HasSocket' = HasSocket \ {a}
             /\ \A b \in HasSocket' :
                  sockets'[b] = 1 /\ bcast'[b] > 0 /\ b \in subnets
  <2>1. \A b \in HasSocket : sockets[b] = 1 /\ bcast[b] > 0 /\ b \in subnets
    BY <1>4 DEF IfInv, Single, BroadcastHeard
  <2>2. sockets'[a] = 0
    BY <1>2, <2>1
  <2>3. HasSocket' = HasSocket \ {a}
    BY <1>2, <2>2, HasSocketIs
  <2> QED
    BY <1>2, <2>1, <2>3, HasSocketIs
<1>5. CASE HasSocket' = {} /\ NoInterfacesLeft
  BY <1>3, <1>4, <1>5 DEF NoInterfacesLeft, Clear, RestsOnSockets
<1>6. CASE /\ HasSocket' # {} /\ DeleteAllRoutesFromInterface(a)
           /\ UNCHANGED <<vars, lo, hello>>
  <2>1. /\ subnets' = subnets \ {a} /\ learned' = learned \ {a}
        /\ lo' = lo /\ hello' = hello
    BY <1>6 DEF DeleteAllRoutesFromInterface
  <2>2. RestsOnSockets'
    BY <1>1, <1>3, <1>6, <2>1 DEF RestsOnSockets
  <2> QED
    BY <1>1, <1>3, <1>4, <2>1, <2>2
<1> QED
  BY <1>5, <1>6

(* NotifyInterfaceDown keeps the invariant.                                *)
LEMMA DownKeeps ==
  ASSUME IfInv, NEW i \in Interface, NotifyInterfaceDown(i)
  PROVE  IfInv'
<1> DEFINE a == First(i)
<1>1. /\ addrs[i] # <<>> /\ a \in HasSocket
      /\ up' = up \ {i} /\ addrs' = addrs /\ repeated' = repeated
      /\ sockets' = OneLess(a)
      /\ CloseAndErase(a)
      /\ \/ HasSocket' = {} /\ NoInterfacesLeft
         \/ HasSocket' # {} /\ DeleteAllRoutesFromInterface(a)
                            /\ UNCHANGED <<vars, lo, hello>>
  BY DEF NotifyInterfaceDown
<1>2. InterfacesTypeOK /\ Covered
  BY DEF IfInv
<1>3. 1 \in DOMAIN addrs[i]
  BY <1>1, <1>2, AddrsAre
<1>4. a \in OwnOf[i] /\ a \in Own
  BY <1>2, <1>3, OwnOfIsOwn DEF InterfacesTypeOK, First
<1>5. Listening' = Listening \ {i}
  BY <1>1 DEF Listening
<1>6. ASSUME ~repeated PROVE i \in Listening
  <2>1. PICK j \in Listening : a = First(j)
    BY <1>1, <1>6 DEF IfInv, Single
  <2> QED
    BY <1>2, <1>4, <2>1, FirstIsOwn, OwnerIsUnique
<1>7. i \in Listening => First(i) = a
  OBVIOUS
<1> HIDE DEF a
<1>8. /\ bcast' \in [Own -> Nat] /\ stale' \in [Own -> Nat]
      /\ bcast'[a] + stale'[a] = bcast[a] + stale[a] - 1
      /\ \A b \in Own \ {a} : bcast'[b] = bcast[b] /\ stale'[b] = stale[b]
  <2>1. bcast \in [Own -> Nat] /\ stale \in [Own -> Nat]
    BY <1>2 DEF InterfacesTypeOK
  <2>2. CASE bcast[a] > 0 /\ bcast' = [bcast EXCEPT ![a] = @ - 1] /\ stale' = stale
    <3>1. bcast[a] - 1 \in Nat
      BY <1>4, <2>1, <2>2
    <3> QED
      BY <1>4, <2>1, <2>2, <3>1
  <2>3. CASE stale[a] > 0 /\ stale' = [stale EXCEPT ![a] = @ - 1] /\ bcast' = bcast
    <3>1. stale[a] - 1 \in Nat
      BY <1>4, <2>1, <2>3
    <3> QED
      BY <1>4, <2>1, <2>3, <3>1
  <2> QED
    BY <1>1, <2>2, <2>3 DEF CloseAndErase
<1>9. /\ RestsOnSockets'
      /\ subnets' \subseteq Own /\ learned' \subseteq Own
      /\ lo' \in BOOLEAN /\ hello' \in BOOLEAN
      /\ \A b \in HasSocket \ {a} : b \in HasSocket'
      /\ ~repeated =>
           /\ HasSocket' = HasSocket \ {a}
           /\ \A b \in HasSocket' :
                sockets'[b] = 1 /\ bcast'[b] > 0 /\ b \in subnets'
  BY <1>1, <1>8, ClosingKeeps
<1>10. /\ sockets' \in [Own -> Nat] /\ sockets'[a] = sockets[a] - 1
       /\ \A b \in Own \ {a} : sockets'[b] = sockets[b]
  BY <1>1, <1>2, OneLessIs
<1>11. InterfacesTypeOK' /\ Distinct'
  BY <1>1, <1>2, <1>8, <1>9, <1>10 DEF IfInv, InterfacesTypeOK, Distinct
<1>12. Paired'
  <2>1. /\ sockets \in [Own -> Nat] /\ bcast \in [Own -> Nat]
        /\ stale \in [Own -> Nat]
    BY <1>2 DEF InterfacesTypeOK
  <2> QED
    BY <1>4, <1>8, <1>10, <2>1 DEF IfInv, Paired
<1>13. Covered'
  BY <1>1, <1>2, <1>4, <1>5, <1>9, CoveredFollows
<1>14. ASSUME ~repeated PROVE HasSocket' = {First(j) : j \in Listening}'
  <2>1. HasSocket = {First(j) : j \in Listening}
    BY <1>14 DEF IfInv, Single
  <2>2. HasSocket' = HasSocket \ {a} /\ i \in Listening /\ i \notin Listening'
    BY <1>5, <1>6, <1>9, <1>14
  <2>3. HasSocket' = (HasSocket \ IF i \in Listening THEN {First(i)} ELSE {})
                     \cup IF i \in Listening' THEN {addrs'[i][1]} ELSE {}
    BY <1>7, <2>2
  <2> QED
    BY <1>1, <1>2, <1>5, <2>1, <2>3, SocketsFollow
<1> QED
  BY <1>1, <1>9, <1>11, <1>12, <1>13, <1>14 DEF IfInv, Single, BroadcastHeard

(* The addresses of an interface change; those of the others do not, and   *)
(* the new list is one of distinct addresses of its own.                   *)
LEMMA AddrsKeep ==
  ASSUME InterfacesTypeOK, Distinct, NEW i \in Interface, NEW new \in Seq(Own),
         addrs' = [addrs EXCEPT ![i] = new],
         \A k \in DOMAIN new : new[k] \in OwnOf[i],
         \A k, l \in DOMAIN new : new[k] = new[l] => k = l
  PROVE  /\ addrs' \in [Interface -> Seq(Own)]
         /\ \A j \in Interface : \A k \in DOMAIN addrs'[j] : addrs'[j][k] \in OwnOf[j]
         /\ Distinct'
         /\ \A j \in Interface \ {i} : addrs'[j] = addrs[j]
         /\ addrs'[i] = new
<1>1. addrs \in [Interface -> Seq(Own)]
  BY DEF InterfacesTypeOK
<1>2. addrs' \in [Interface -> Seq(Own)]
  BY <1>1
<1>3. addrs'[i] = new /\ \A j \in Interface \ {i} : addrs'[j] = addrs[j]
  BY <1>1
<1>4. \A j \in Interface : \A k \in DOMAIN addrs'[j] : addrs'[j][k] \in OwnOf[j]
  <2> SUFFICES ASSUME NEW j \in Interface, NEW k \in DOMAIN addrs'[j]
               PROVE  addrs'[j][k] \in OwnOf[j]
    OBVIOUS
  <2>1. CASE j = i
    BY <1>3, <2>1
  <2>2. CASE j # i
    BY <1>3, <2>2 DEF InterfacesTypeOK
  <2> QED
    BY <2>1, <2>2
<1>5. Distinct'
  <2> SUFFICES ASSUME NEW j \in Interface,
                      NEW k \in DOMAIN addrs'[j], NEW l \in DOMAIN addrs'[j],
                      addrs'[j][k] = addrs'[j][l]
               PROVE  k = l
    BY DEF Distinct
  <2>1. CASE j = i
    BY <1>3, <2>1
  <2>2. CASE j # i
    BY <1>3, <2>2 DEF Distinct
  <2> QED
    BY <2>1, <2>2
<1> QED
  BY <1>2, <1>3, <1>4, <1>5

(* NotifyAddAddress keeps the invariant: a later address is not listened   *)
(* on.                                                                     *)
LEMMA AddKeeps ==
  ASSUME IfInv, NEW i \in Interface, NEW a \in OwnOf[i], NotifyAddAddress(i, a)
  PROVE  IfInv'
<1> DEFINE new == Append(addrs[i], a)
           n == Len(addrs[i])
<1>1. /\ \A k \in DOMAIN addrs[i] : addrs[i][k] # a
      /\ addrs' = [addrs EXCEPT ![i] = new]
      /\ stale' = stale
      /\ UNCHANGED <<vars, up, learned, lo, hello, repeated>>
      /\ IF i \in up /\ addrs[i] = <<>> /\ a \notin HasSocket
         THEN Open(a, sockets, bcast) /\ subnets' = subnets \cup {a}
         ELSE UNCHANGED <<sockets, bcast, subnets>>
  BY DEF NotifyAddAddress
<1>2. /\ InterfacesTypeOK /\ Distinct /\ Paired /\ Covered
      /\ BroadcastHeard /\ RestsOnSockets
  BY DEF IfInv
<1>3. a \in Own
  BY OwnOfIsOwn
<1>4. /\ addrs[i] \in Seq(Own) /\ n \in Nat /\ DOMAIN addrs[i] = 1 .. n
      /\ (addrs[i] = <<>> <=> n = 0)
      /\ \A k \in 1 .. n : addrs[i][k] \in OwnOf[i]
  BY <1>2, AddrsAre DEF InterfacesTypeOK
<1>5. /\ new \in Seq(Own) /\ Len(new) = n + 1 /\ DOMAIN new = 1 .. n + 1
      /\ \A k \in 1 .. n : new[k] = addrs[i][k]
      /\ new[n + 1] = a
  <2>1. new \in Seq(Own) /\ Len(new) = n + 1
    BY <1>3, <1>4, AppendProperties
  <2>2. DOMAIN new = 1 .. n + 1
    BY <2>1, LenProperties
  <2>3. \A k \in 1 .. n : new[k] = addrs[i][k]
    BY <1>3, <1>4, AppendProperties
  <2>4. new[n + 1] = a
    BY <1>3, <1>4, AppendProperties
  <2> QED
    BY <2>1, <2>2, <2>3, <2>4
<1>6. new # <<>> /\ (n # 0 => new[1] = addrs[i][1]) /\ (n = 0 => new[1] = a)
  <2>1. new # <<>>
    BY <1>3, <1>4, AppendProperties
  <2> HIDE DEF new, n
  <2> QED
    BY <1>4, <1>5, <2>1
<1> HIDE DEF new
<1>7. \A k \in DOMAIN new : new[k] \in OwnOf[i]
  <2> SUFFICES ASSUME NEW k \in 1 .. n + 1 PROVE new[k] \in OwnOf[i]
    BY <1>5
  <2> HIDE DEF n
  <2>1. k \in 1 .. n \/ k = n + 1
    BY <1>4
  <2> QED
    BY <1>4, <1>5, <2>1
<1>8. \A k, l \in DOMAIN new : new[k] = new[l] => k = l
  <2> SUFFICES ASSUME NEW k \in 1 .. n + 1, NEW l \in 1 .. n + 1, new[k] = new[l]
               PROVE  k = l
    BY <1>5
  <2>1. \A x, y \in 1 .. n : addrs[i][x] = addrs[i][y] => x = y
    BY <1>2, <1>4 DEF Distinct
  <2>2. \A x \in 1 .. n : addrs[i][x] # a
    BY <1>1, <1>4
  <2> HIDE DEF n
  <2>3. (k \in 1 .. n \/ k = n + 1) /\ (l \in 1 .. n \/ l = n + 1)
    BY <1>4
  <2> QED
    BY <1>5, <2>1, <2>2, <2>3
<1>9. /\ addrs' \in [Interface -> Seq(Own)]
      /\ \A j \in Interface : \A k \in DOMAIN addrs'[j] : addrs'[j][k] \in OwnOf[j]
      /\ Distinct'
      /\ \A j \in Interface \ {i} : addrs'[j] = addrs[j]
      /\ addrs'[i] = new
  BY <1>1, <1>2, <1>5, <1>7, <1>8, AddrsKeep
<1>10. /\ Listening' \ {i} = Listening \ {i}
       /\ (i \in Listening' <=> i \in up)
       /\ (i \in Listening <=> i \in up /\ addrs[i] # <<>>)
  <2>1. up \subseteq Interface
    BY <1>2 DEF InterfacesTypeOK
  <2> QED
    BY <1>1, <1>6, <1>9, <2>1 DEF Listening
<1> HIDE DEF n
<1>11. /\ i \in Listening => addrs'[i][1] = First(i)
       /\ i \in Listening' /\ i \notin Listening => addrs'[i][1] = a /\ addrs[i] = <<>>
  BY <1>4, <1>6, <1>9, <1>10 DEF First
<1>12. ASSUME ~repeated
       PROVE  HasSocket = {First(j) : j \in Listening}
  BY <1>12 DEF IfInv, Single
<1>13. CASE i \in up /\ addrs[i] = <<>> /\ a \notin HasSocket
  <2>1. Open(a, sockets, bcast) /\ subnets' = subnets \cup {a}
    BY <1>1, <1>13
  <2>2. /\ sockets' \in [Own -> Nat] /\ bcast' \in [Own -> Nat]
        /\ a \in HasSocket' /\ HasSocket \subseteq HasSocket'
        /\ Paired' /\ RestsOnSockets'
    BY <1>1, <1>3, <2>1, OpenedIsPaired
  <2>3. i \in Listening' /\ i \notin Listening /\ addrs'[i][1] = a
    BY <1>10, <1>11, <1>13
  <2>4. Covered'
    BY <1>2, <1>9, <1>10, <2>2, <2>3, CoveredFollows
  <2>5. InterfacesTypeOK'
    BY <1>1, <1>2, <1>3, <1>9, <2>1, <2>2 DEF InterfacesTypeOK
  <2>6. ASSUME ~repeated
        PROVE  /\ HasSocket' = {First(j) : j \in Listening}'
               /\ \A b \in HasSocket' :
                    sockets'[b] = 1 /\ bcast'[b] > 0 /\ b \in subnets'
    <3>1. /\ HasSocket' = HasSocket \cup {a}
          /\ \A b \in HasSocket' :
               sockets'[b] = 1 /\ bcast'[b] > 0 /\ b \in subnets'
      BY <1>3, <1>13, <2>1, <2>6, OpenedIsHeard
    <3> QED
      BY <1>2, <1>9, <1>10, <1>12, <2>3, <2>6, <3>1, SocketsFollow
  <2> QED
    BY <1>1, <1>9, <2>2, <2>4, <2>5, <2>6 DEF IfInv, Single, BroadcastHeard
<1>14. CASE ~ (i \in up /\ addrs[i] = <<>> /\ a \notin HasSocket)
  <2>1. UNCHANGED <<sockets, bcast, stale, subnets>>
    BY <1>1, <1>14
  <2>2. HasSocket' = HasSocket
    BY <2>1 DEF HasSocket
  <2>3. i \in Listening' => addrs'[i][1] \in HasSocket
    BY <1>2, <1>10, <1>11, <1>14 DEF Covered
  <2>4. Covered'
    BY <1>2, <1>9, <1>10, <2>2, <2>3, CoveredFollows
  <2>5. ASSUME ~repeated PROVE HasSocket' = {First(j) : j \in Listening}'
    <3>1. i \in Listening' <=> i \in Listening
      <4>1. ASSUME i \in up, addrs[i] = <<>>, NEW j \in Listening, a = First(j)
            PROVE  FALSE
        <5>1. j = i
          BY <1>2, <4>1, FirstIsOwn, OwnerIsUnique
        <5> QED
          BY <1>10, <4>1, <5>1
      <4> QED
        BY <1>10, <1>12, <1>14, <2>5, <4>1
    <3>2. i \in Listening => First(i) \in HasSocket
      BY <1>2 DEF Covered
    <3>3. HasSocket' = (HasSocket \ IF i \in Listening THEN {First(i)} ELSE {})
                       \cup IF i \in Listening' THEN {addrs'[i][1]} ELSE {}
      BY <1>11, <2>2, <3>1, <3>2
    <3> QED
      BY <1>2, <1>9, <1>10, <1>12, <2>5, <3>3, SocketsFollow
  <2>6. InterfacesTypeOK' /\ Paired' /\ RestsOnSockets' /\ BroadcastHeard'
    BY <1>1, <1>2, <1>9, <2>1, <2>2
       DEF InterfacesTypeOK, Paired, RestsOnSockets, BroadcastHeard, vars
  <2>7. Single'
    BY <1>1, <2>1, <2>2, <2>5 DEF IfInv, Single
  <2> QED
    BY <1>9, <2>4, <2>6, <2>7 DEF IfInv
<1> QED
  BY <1>13, <1>14

(* The list without its k-th address.                                      *)
LEMMA RemoveAt ==
  ASSUME NEW s \in Seq(Own), NEW k \in DOMAIN s, NEW left,
         left = [j \in 1 .. Len(s) - 1 |-> s[IF j < k THEN j ELSE j + 1]]
  PROVE  /\ left \in Seq(Own)
         /\ DOMAIN left = 1 .. Len(s) - 1
         /\ \A j \in DOMAIN left : left[j] = s[IF j < k THEN j ELSE j + 1]
         /\ \A j \in DOMAIN left : (IF j < k THEN j ELSE j + 1) \in DOMAIN s
         /\ left = <<>> <=> Len(s) = 1
<1>1. Len(s) \in Nat /\ DOMAIN s = 1 .. Len(s) /\ s \in [1 .. Len(s) -> Own]
  BY LenProperties
<1> DEFINE n == Len(s)
<1>2. n - 1 \in Nat /\ k \in 1 .. n
  BY <1>1
<1>3. DOMAIN left = 1 .. n - 1
  OBVIOUS
<1>4. \A j \in 1 .. n - 1 : (IF j < k THEN j ELSE j + 1) \in 1 .. n
  BY <1>2
<1>5. left \in [1 .. n - 1 -> Own]
  BY <1>1, <1>4
<1>6. left \in Seq(Own)
  BY <1>2, <1>5, SeqDef
<1>7. left = <<>> <=> n = 1
  <2>1. Len(left) \in Nat /\ DOMAIN left = 1 .. Len(left)
    BY <1>6, LenProperties
  <2>2. left = <<>> <=> Len(left) = 0
    BY <1>6, EmptySeq
  <2> DEFINE m == Len(left)
  <2> HIDE DEF n, m
  <2>3. m \in Nat /\ n - 1 \in Nat /\ 1 .. m = 1 .. n - 1
    BY <1>2, <1>3, <2>1 DEF m
  <2>4. m = 0 <=> n = 1
    <3>1. \A x \in Nat : 1 .. x = {} <=> x = 0
      <4>1. \A x \in Nat : x # 0 => 1 \in 1 .. x
        OBVIOUS
      <4>2. \A y : y \notin 1 .. 0
        OBVIOUS
      <4> QED
        BY <4>1, <4>2
    <3>2. (1 .. m = {} <=> m = 0) /\ (1 .. n - 1 = {} <=> n - 1 = 0)
      BY <2>3, <3>1
    <3>3. n - 1 = 0 <=> n = 1
      BY <1>1 DEF n
    <3> QED
      BY <2>3, <3>2, <3>3
  <2> QED
    BY <2>2, <2>4 DEF m
<1> QED
  BY <1>1, <1>3, <1>4, <1>6, <1>7

(* The broadcast socket of a is closed, if it was open: the rest stays.    *)
LEMMA CloseOnlyKeeps ==
  ASSUME InterfacesTypeOK, NEW a \in Own, CloseOnly(a)
  PROVE  /\ bcast' \in [Own -> Nat] /\ stale' \in [Own -> Nat]
         /\ bcast'[a] + stale'[a] = bcast[a] + stale[a]
         /\ \A b \in Own \ {a} : bcast'[b] = bcast[b] /\ stale'[b] = stale[b]
<1>1. bcast \in [Own -> Nat] /\ stale \in [Own -> Nat]
  BY DEF InterfacesTypeOK
<1>2. CASE /\ bcast[a] > 0
           /\ stale' = [stale EXCEPT ![a] = @ + 1]
           /\ bcast' = [bcast EXCEPT ![a] = @ - 1]
  <2>1. bcast[a] - 1 \in Nat /\ stale[a] + 1 \in Nat
    BY <1>1, <1>2
  <2>2. /\ bcast' \in [Own -> Nat] /\ stale' \in [Own -> Nat]
        /\ bcast'[a] = bcast[a] - 1 /\ stale'[a] = stale[a] + 1
        /\ \A b \in Own \ {a} : bcast'[b] = bcast[b] /\ stale'[b] = stale[b]
    BY <1>1, <1>2, <2>1
  <2>3. bcast'[a] + stale'[a] = bcast[a] + stale[a]
    BY <1>1, <2>2
  <2> QED
    BY <2>2, <2>3
<1>3. CASE UNCHANGED <<bcast, stale>>
  BY <1>1, <1>3
<1> QED
  BY <1>2, <1>3 DEF CloseOnly

(* The only address listened on by an interface goes: so does a socket.    *)
LEMMA RemoveOnlyKeeps ==
  ASSUME IfInv, NEW a \in HasSocket, RemoveOnly(a)
  PROVE  /\ sockets' \in [Own -> Nat]
         /\ bcast' \in [Own -> Nat] /\ stale' \in [Own -> Nat]
         /\ Paired' /\ RestsOnSockets'
         /\ subnets' \subseteq Own /\ learned' \subseteq Own
         /\ lo' \in BOOLEAN /\ hello' \in BOOLEAN
         /\ \A b \in HasSocket \ {a} : b \in HasSocket'
         /\ ~repeated =>
              /\ HasSocket' = HasSocket \ {a}
              /\ \A b \in HasSocket' :
                   sockets'[b] = 1 /\ bcast'[b] > 0 /\ b \in subnets'
<1>1. /\ sockets' = OneLess(a)
      /\ CloseOnly(a)
      /\ \/ HasSocket' = {} /\ NoInterfacesLeft
         \/ HasSocket' # {} /\ DeleteAllRoutesFromInterface(a)
                            /\ UNCHANGED <<vars, lo, hello>>
  BY DEF RemoveOnly
<1>2. /\ InterfacesTypeOK /\ Paired
      /\ sockets \in [Own -> Nat] /\ bcast \in [Own -> Nat] /\ stale \in [Own -> Nat]
  BY DEF IfInv, InterfacesTypeOK
<1>3. /\ a \in Own /\ sockets' \in [Own -> Nat] /\ sockets'[a] = sockets[a] - 1
      /\ \A b \in Own \ {a} : sockets'[b] = sockets[b]
  BY <1>1, <1>2, OneLessIs
<1>4. /\ bcast' \in [Own -> Nat] /\ stale' \in [Own -> Nat]
      /\ bcast'[a] + stale'[a] = bcast[a] + stale[a]
      /\ \A b \in Own \ {a} : bcast'[b] = bcast[b] /\ stale'[b] = stale[b]
  BY <1>1, <1>2, <1>3, CloseOnlyKeeps
<1>5. Paired'
  BY <1>2, <1>3, <1>4 DEF Paired
<1>6. /\ RestsOnSockets'
      /\ subnets' \subseteq Own /\ learned' \subseteq Own
      /\ lo' \in BOOLEAN /\ hello' \in BOOLEAN
      /\ \A b \in HasSocket \ {a} : b \in HasSocket'
      /\ ~repeated =>
           /\ HasSocket' = HasSocket \ {a}
           /\ \A b \in HasSocket' :
                sockets'[b] = 1 /\ bcast'[b] > 0 /\ b \in subnets'
  BY <1>1, <1>4, ClosingKeeps
<1> QED
  BY <1>3, <1>4, <1>5, <1>6

(* Another address takes over: it is listened on and routed.               *)
LEMMA ReplaceKeeps ==
  ASSUME IfInv, NEW a \in HasSocket, NEW next \in Own, Replace(a, next),
         subnets' = (subnets \ {a}) \cup {next}
  PROVE  /\ sockets' \in [Own -> Nat]
         /\ bcast' \in [Own -> Nat] /\ stale' \in [Own -> Nat]
         /\ Paired' /\ RestsOnSockets'
         /\ subnets' \subseteq Own /\ learned' \subseteq Own
         /\ lo' \in BOOLEAN /\ hello' \in BOOLEAN
         /\ next \in HasSocket'
         /\ \A b \in HasSocket \ {a} : b \in HasSocket'
         /\ ~repeated /\ next \notin HasSocket =>
              /\ HasSocket' = (HasSocket \ {a}) \cup {next}
              /\ \A b \in HasSocket' :
                   sockets'[b] = 1 /\ bcast'[b] > 0 /\ b \in subnets'
<1> DEFINE less == OneLess(a)
<1>1. /\ InterfacesTypeOK /\ Paired /\ RestsOnSockets
      /\ sockets \in [Own -> Nat] /\ bcast \in [Own -> Nat] /\ stale \in [Own -> Nat]
      /\ subnets \subseteq Own /\ learned \subseteq Own
      /\ lo \in BOOLEAN /\ hello \in BOOLEAN
  BY DEF IfInv, InterfacesTypeOK
<1>2. /\ a \in Own /\ less \in [Own -> Nat] /\ less[a] = sockets[a] - 1
      /\ \A b \in Own \ {a} : less[b] = sockets[b]
  BY <1>1, OneLessIs
<1>3. learned' = learned \ {a} /\ lo' = lo /\ hello' = hello
  BY DEF Replace
<1>4. \/ /\ bcast[a] > 0
         /\ stale' = [stale EXCEPT ![a] = @ + 1]
         /\ Open(next, less, [bcast EXCEPT ![a] = @ - 1])
      \/ /\ stale[a] > 0
         /\ stale' = stale
         /\ Open(next, less, bcast)
  BY DEF Replace
<1> HIDE DEF less
<1>5. \E bcasts \in [Own -> Nat] :
        /\ Open(next, less, bcasts) /\ stale' \in [Own -> Nat]
        /\ bcasts[a] + stale'[a] = bcast[a] + stale[a]
        /\ \A b \in Own \ {a} : bcasts[b] = bcast[b] /\ stale'[b] = stale[b]
  <2>1. CASE /\ bcast[a] > 0
             /\ stale' = [stale EXCEPT ![a] = @ + 1]
             /\ Open(next, less, [bcast EXCEPT ![a] = @ - 1])
    <3> DEFINE bcasts == [bcast EXCEPT ![a] = @ - 1]
    <3>1. bcast[a] - 1 \in Nat /\ stale[a] + 1 \in Nat
      BY <1>1, <1>2, <2>1
    <3>2. /\ bcasts \in [Own -> Nat] /\ stale' \in [Own -> Nat]
          /\ bcasts[a] = bcast[a] - 1 /\ stale'[a] = stale[a] + 1
          /\ \A b \in Own \ {a} : bcasts[b] = bcast[b] /\ stale'[b] = stale[b]
      BY <1>1, <1>2, <2>1, <3>1
    <3>3. Open(next, less, bcasts)
      BY <2>1
    <3> HIDE DEF bcasts
    <3>4. bcasts[a] + stale'[a] = bcast[a] + stale[a]
      BY <1>1, <1>2, <3>2
    <3> QED
      BY <3>2, <3>3, <3>4
  <2>2. CASE stale[a] > 0 /\ stale' = stale /\ Open(next, less, bcast)
    BY <1>1, <2>2
  <2> QED
    BY <1>4, <2>1, <2>2
<1>6. PICK bcasts \in [Own -> Nat] :
        /\ Open(next, less, bcasts) /\ stale' \in [Own -> Nat]
        /\ bcasts[a] + stale'[a] = bcast[a] + stale[a]
        /\ \A b \in Own \ {a} : bcasts[b] = bcast[b] /\ stale'[b] = stale[b]
  BY <1>5
<1>7. /\ sockets' \in [Own -> Nat] /\ bcast' \in [Own -> Nat]
      /\ sockets'[next] = less[next] + 1 /\ bcast'[next] = bcasts[next] + 1
      /\ \A b \in Own \ {next} : sockets'[b] = less[b] /\ bcast'[b] = bcasts[b]
  BY <1>2, <1>6, OpenKeeps
<1>8. Paired'
  <2> SUFFICES ASSUME NEW b \in Own PROVE sockets'[b] <= bcast'[b] + stale'[b]
    BY DEF Paired
  <2>1. less[b] <= bcasts[b] + stale'[b]
    <3>1. sockets[b] <= bcast[b] + stale[b]
      BY <1>1 DEF Paired
    <3>2. CASE b = a
      BY <1>1, <1>2, <1>6, <3>1, <3>2
    <3>3. CASE b # a
      BY <1>2, <1>6, <3>1, <3>3
    <3> QED
      BY <3>2, <3>3
  <2>2. less[b] \in Nat /\ bcasts[b] \in Nat /\ stale'[b] \in Nat
    BY <1>2, <1>6
  <2>3. CASE b = next
    BY <1>7, <2>1, <2>2, <2>3
  <2>4. CASE b # next
    BY <1>7, <2>1, <2>4
  <2> QED
    BY <2>3, <2>4
<1>9. next \in HasSocket' /\ \A b \in HasSocket \ {a} : b \in HasSocket'
  <2>1. next \in HasSocket'
    BY <1>2, <1>7, HasSocketIs
  <2>2. ASSUME NEW b \in HasSocket \ {a} PROVE b \in HasSocket'
    <3>1. b \in Own /\ less[b] > 0
      BY <1>2, HasSocketIs
    <3>2. sockets'[b] > 0
      BY <1>2, <1>7, <3>1
    <3> QED
      BY <3>1, <3>2, HasSocketIs
  <2> QED
    BY <2>1, <2>2
<1>10. RestsOnSockets'
  BY <1>1, <1>3, <1>9 DEF RestsOnSockets
<1>11. ASSUME ~repeated, next \notin HasSocket
       PROVE  /\ HasSocket' = (HasSocket \ {a}) \cup {next}
              /\ \A b \in HasSocket' :
                   sockets'[b] = 1 /\ bcast'[b] > 0 /\ b \in subnets'
  <2>1. \A b \in HasSocket : b \in Own /\ sockets[b] = 1 /\ bcast[b] > 0 /\ b \in subnets
    BY <1>11, HasSocketIs DEF IfInv, Single, BroadcastHeard
  <2>2. next # a /\ sockets[next] = 0
    BY <1>1, <1>11, HasSocketIs
  <2>3. sockets'[a] = 0 /\ sockets'[next] = 1 /\ bcast'[next] > 0
    BY <1>2, <1>6, <1>7, <2>1, <2>2
  <2>4. \A b \in Own \ {a, next} : sockets'[b] = sockets[b] /\ bcast'[b] = bcast[b]
    BY <1>2, <1>6, <1>7
  <2>5. HasSocket' = (HasSocket \ {a}) \cup {next}
    BY <2>3, <2>4, HasSocketIs
  <2> QED
    BY <2>1, <2>3, <2>4, <2>5
<1> QED
  BY <1>1, <1>3, <1>6, <1>7, <1>8, <1>9, <1>10, <1>11

(* NotifyRemoveAddress keeps the invariant, whichever address goes.        *)
LEMMA RemoveKeeps ==
  ASSUME IfInv, NEW i \in Interface, NEW k \in DOMAIN addrs[i],
         NotifyRemoveAddress(i, k)
  PROVE  IfInv'
<1> DEFINE s == addrs[i]
           a == s[k]
           left == [j \in 1 .. Len(s) - 1 |-> s[IF j < k THEN j ELSE j + 1]]
<1>1. /\ addrs' = [addrs EXCEPT ![i] = left]
      /\ up' = up /\ repeated' = repeated
      /\ a \in HasSocket => RemoveListening(a, left)
      /\ a \notin HasSocket =>
           UNCHANGED <<vars, sockets, bcast, stale, subnets, learned, lo, hello>>
  BY DEF NotifyRemoveAddress
<1>2. /\ InterfacesTypeOK /\ Distinct /\ Paired /\ Covered
      /\ BroadcastHeard /\ RestsOnSockets
  BY DEF IfInv
<1>3. /\ s \in Seq(Own) /\ Len(s) \in Nat /\ DOMAIN s = 1 .. Len(s)
      /\ (s = <<>> <=> Len(s) = 0)
      /\ \A x \in DOMAIN s : s[x] \in OwnOf[i]
      /\ \A x, y \in DOMAIN s : s[x] = s[y] => x = y
  BY <1>2, AddrsAre DEF InterfacesTypeOK, Distinct
<1>4. /\ left \in Seq(Own)
      /\ DOMAIN left = 1 .. Len(s) - 1
      /\ \A j \in DOMAIN left : left[j] = s[IF j < k THEN j ELSE j + 1]
      /\ \A j \in DOMAIN left : (IF j < k THEN j ELSE j + 1) \in DOMAIN s
      /\ left = <<>> <=> Len(s) = 1
  <2> DEFINE rest == left
  <2> HIDE DEF s
  <2>1. rest = [j \in 1 .. Len(s) - 1 |-> s[IF j < k THEN j ELSE j + 1]]
    OBVIOUS
  <2>2. k \in DOMAIN s /\ s \in Seq(Own)
    BY <1>3 DEF s
  <2> HIDE DEF rest
  <2> QED
    BY <2>1, <2>2, RemoveAt
<1>5. a \in OwnOf[i] /\ a \in Own /\ k \in 1 .. Len(s) /\ s # <<>>
  <2>1. a \in OwnOf[i] /\ k \in 1 .. Len(s)
    BY <1>3
  <2>2. s # <<>>
    BY <1>3, <2>1
  <2> QED
    BY <2>1, <2>2, OwnOfIsOwn
<1> HIDE DEF left
<1>6. \A x \in DOMAIN left : left[x] \in OwnOf[i]
  <2> HIDE DEF s
  <2> QED
    BY <1>3, <1>4
<1>7. \A x, y \in DOMAIN left : left[x] = left[y] => x = y
  <2> SUFFICES ASSUME NEW x \in DOMAIN left, NEW y \in DOMAIN left, left[x] = left[y]
               PROVE  x = y
    OBVIOUS
  <2> HIDE DEF s
  <2>1. (IF x < k THEN x ELSE x + 1) = (IF y < k THEN y ELSE y + 1)
    BY <1>3, <1>4
  <2>2. x \in Int /\ y \in Int /\ k \in Int
    BY <1>3, <1>4, <1>5
  <2> QED
    BY <2>1, <2>2
<1>8. /\ addrs' \in [Interface -> Seq(Own)]
      /\ \A j \in Interface : \A x \in DOMAIN addrs'[j] : addrs'[j][x] \in OwnOf[j]
      /\ Distinct'
      /\ \A j \in Interface \ {i} : addrs'[j] = addrs[j]
      /\ addrs'[i] = left
  BY <1>1, <1>2, <1>4, <1>6, <1>7, AddrsKeep
<1>9. /\ Listening' \ {i} = Listening \ {i}
      /\ (i \in Listening' <=> i \in up /\ left # <<>>)
      /\ (i \in Listening <=> i \in up)
  <2>1. up \subseteq Interface
    BY <1>2 DEF InterfacesTypeOK
  <2> QED
    BY <1>1, <1>5, <1>8, <2>1 DEF Listening
<1>10. /\ First(i) = s[1] /\ 1 \in DOMAIN s
       /\ (a = First(i) <=> k = 1)
       /\ left # <<>> => 1 \in DOMAIN left
       /\ left # <<>> /\ k = 1 => left[1] # a
       /\ left # <<>> /\ k # 1 => left[1] = First(i)
  <2>1. First(i) = s[1]
    BY DEF First
  <2> HIDE DEF s
  <2>2. Len(s) >= 1 /\ (left # <<>> => Len(s) >= 2)
    BY <1>3, <1>4, <1>5
  <2>3. 1 \in DOMAIN s /\ (left # <<>> => 1 \in DOMAIN left /\ 2 \in DOMAIN s)
    BY <1>3, <1>4, <2>2
  <2>4. s[k] = s[1] <=> k = 1
    BY <1>3, <1>5, <2>3
  <2>5. left # <<>> /\ k = 1 => left[1] = s[2] /\ s[2] # s[1]
    BY <1>3, <1>4, <2>3
  <2>6. left # <<>> /\ k # 1 => left[1] = s[1]
    BY <1>3, <1>4, <1>5, <2>3
  <2> QED
    BY <2>1, <2>3, <2>4, <2>5, <2>6
<1>11. ASSUME ~repeated
       PROVE  /\ HasSocket = {First(j) : j \in Listening}
              /\ a \in HasSocket => i \in Listening /\ a = First(i)
              /\ a \notin HasSocket /\ i \in Listening => k # 1
              /\ \A b \in HasSocket \cap OwnOf[i] : b = First(i) /\ i \in Listening
  <2>1. HasSocket = {First(j) : j \in Listening}
    BY <1>11 DEF IfInv, Single
  <2>2. ASSUME NEW b \in HasSocket \cap OwnOf[i] PROVE b = First(i) /\ i \in Listening
    <3> HIDE DEF s, a
    <3>1. PICK j \in Listening : b = First(j)
      BY <2>1
    <3>2. j = i
      BY <1>2, <3>1, FirstIsOwn, OwnerIsUnique
    <3> QED
      BY <3>1, <3>2
  <2> HIDE DEF s, a
  <2> QED
    BY <1>5, <1>10, <2>1, <2>2
<1> HIDE DEF s, a
<1>12. left # <<>> => left[1] \in OwnOf[i] /\ left[1] \in Own
  BY <1>6, <1>10, OwnOfIsOwn
<1>13. CASE a \in HasSocket /\ left = <<>>
  <2>1. RemoveOnly(a)
    BY <1>1, <1>13 DEF RemoveListening
  <2>2. /\ sockets' \in [Own -> Nat]
        /\ bcast' \in [Own -> Nat] /\ stale' \in [Own -> Nat]
        /\ Paired' /\ RestsOnSockets'
        /\ subnets' \subseteq Own /\ learned' \subseteq Own
        /\ lo' \in BOOLEAN /\ hello' \in BOOLEAN
        /\ \A b \in HasSocket \ {a} : b \in HasSocket'
        /\ ~repeated =>
             /\ HasSocket' = HasSocket \ {a}
             /\ \A b \in HasSocket' :
                  sockets'[b] = 1 /\ bcast'[b] > 0 /\ b \in subnets'
    BY <1>13, <2>1, RemoveOnlyKeeps
  <2>3. i \notin Listening'
    BY <1>9, <1>13
  <2>4. Covered'
    BY <1>2, <1>5, <1>8, <1>9, <2>2, <2>3, CoveredFollows
  <2>5. InterfacesTypeOK'
    BY <1>1, <1>2, <1>8, <2>2 DEF InterfacesTypeOK
  <2>6. ASSUME ~repeated PROVE HasSocket' = {First(j) : j \in Listening}'
    <3>1. HasSocket' = (HasSocket \ IF i \in Listening THEN {First(i)} ELSE {})
                       \cup IF i \in Listening' THEN {addrs'[i][1]} ELSE {}
      BY <1>11, <1>13, <2>2, <2>3, <2>6
    <3> QED
      BY <1>2, <1>8, <1>9, <1>11, <2>6, <3>1, SocketsFollow
  <2> QED
    BY <1>1, <1>8, <2>2, <2>4, <2>5, <2>6 DEF IfInv, Single, BroadcastHeard
<1>14. CASE a \in HasSocket /\ left # <<>>
  <2> DEFINE next == left[1]
  <2>1. Replace(a, next) /\ subnets' = (subnets \ {a}) \cup {next}
    BY <1>1, <1>14 DEF RemoveListening
  <2>2. next \in OwnOf[i] /\ next \in Own /\ addrs'[i][1] = next
    BY <1>8, <1>12, <1>14
  <2> HIDE DEF next
  <2>3. /\ sockets' \in [Own -> Nat]
        /\ bcast' \in [Own -> Nat] /\ stale' \in [Own -> Nat]
        /\ Paired' /\ RestsOnSockets'
        /\ subnets' \subseteq Own /\ learned' \subseteq Own
        /\ lo' \in BOOLEAN /\ hello' \in BOOLEAN
        /\ next \in HasSocket'
        /\ \A b \in HasSocket \ {a} : b \in HasSocket'
        /\ ~repeated /\ next \notin HasSocket =>
             /\ HasSocket' = (HasSocket \ {a}) \cup {next}
             /\ \A b \in HasSocket' :
                  sockets'[b] = 1 /\ bcast'[b] > 0 /\ b \in subnets'
    BY <1>14, <2>1, <2>2, ReplaceKeeps
  <2>4. Covered'
    BY <1>2, <1>5, <1>8, <1>9, <2>2, <2>3, CoveredFollows
  <2>5. InterfacesTypeOK'
    BY <1>1, <1>2, <1>8, <2>2, <2>3 DEF InterfacesTypeOK
  <2>6. ASSUME ~repeated
        PROVE  /\ HasSocket' = {First(j) : j \in Listening}'
               /\ \A b \in HasSocket' :
                    sockets'[b] = 1 /\ bcast'[b] > 0 /\ b \in subnets'
    <3>1. i \in Listening /\ a = First(i) /\ i \in Listening' /\ k = 1
      BY <1>9, <1>10, <1>11, <1>14, <2>6
    <3>2. next # a
      BY <1>10, <1>14, <3>1 DEF next
    <3>3. next \notin HasSocket
      BY <1>11, <2>2, <2>6, <3>1, <3>2
    <3>4. HasSocket' = (HasSocket \ IF i \in Listening THEN {First(i)} ELSE {})
                       \cup IF i \in Listening' THEN {addrs'[i][1]} ELSE {}
      BY <2>2, <2>3, <2>6, <3>1, <3>3
    <3> QED
      BY <1>2, <1>8, <1>9, <1>11, <2>3, <2>6, <3>3, <3>4, SocketsFollow
  <2> QED
    BY <1>1, <1>8, <2>3, <2>4, <2>5, <2>6 DEF IfInv, Single, BroadcastHeard
<1>15. CASE a \notin HasSocket
  <2>1. /\ UNCHANGED <<sockets, bcast, stale, subnets, learned, lo, hello>>
        /\ listed' = listed
    BY <1>1, <1>15 DEF vars
  <2>2. HasSocket' = HasSocket
    BY <2>1 DEF HasSocket
  <2>3. ASSUME i \in Listening
        PROVE  /\ First(i) \in HasSocket /\ i \in Listening'
               /\ addrs'[i][1] = First(i)
    <3>1. First(i) \in HasSocket
      BY <1>2, <2>3 DEF Covered
    <3>2. k # 1
      BY <1>10, <1>15, <3>1
    <3>3. left # <<>>
      <4> HIDE DEF left
      <4> QED
        BY <1>3, <1>4, <1>5, <3>2
    <3> QED
      BY <1>8, <1>9, <1>10, <2>3, <3>1, <3>2, <3>3
  <2>4. i \in Listening <=> i \in Listening'
    BY <1>9, <2>3
  <2>5. Covered'
    BY <1>2, <1>8, <1>9, <2>2, <2>3, <2>4, CoveredFollows
  <2>6. ASSUME ~repeated PROVE HasSocket' = {First(j) : j \in Listening}'
    <3>1. HasSocket' = (HasSocket \ IF i \in Listening THEN {First(i)} ELSE {})
                       \cup IF i \in Listening' THEN {addrs'[i][1]} ELSE {}
      BY <2>2, <2>3, <2>4
    <3> QED
      BY <1>2, <1>8, <1>9, <1>11, <2>6, <3>1, SocketsFollow
  <2>7. InterfacesTypeOK' /\ Paired' /\ RestsOnSockets' /\ BroadcastHeard'
    BY <1>1, <1>2, <1>8, <2>1, <2>2
       DEF InterfacesTypeOK, Paired, RestsOnSockets, BroadcastHeard
  <2>8. Single'
    BY <1>1, <2>1, <2>2, <2>6 DEF IfInv, Single
  <2> QED
    BY <1>8, <2>5, <2>7, <2>8 DEF IfInv
<1> QED
  BY <1>13, <1>14, <1>15

(* Nobody is listed by what the list does in a node without sockets.       *)
LEMMA WatchKeeps ==
  ASSUME IfInv, WatchOn
  PROVE  IfInv'
<1>1. UNCHANGED ifvars
  BY DEF WatchOn
<1>2. listed = {} => listed' = {}
  <2>1. ASSUME NEW a \in Address, ProcessTxError(a)
        PROVE  listed' \subseteq listed
    BY <2>1 DEF ProcessTxError, Purge
  <2>2. ASSUME NEW a \in Address, ArpChanges(a)
        PROVE  listed' \subseteq listed
    BY <2>2 DEF ArpChanges
  <2>3. TimerExpire => listed' \subseteq listed
    BY DEF TimerExpire, Purge
  <2>4. Query => listed' \subseteq listed
    BY DEF Query, Purge
  <2>5. Tick => listed' \subseteq listed
    BY DEF Tick
  <2> QED
    BY <2>1, <2>2, <2>3, <2>4, <2>5 DEF WatchOn
<1>3. learned \subseteq HasSocket /\ (HasSocket = {} => listed = {})
  BY DEF IfInv, RestsOnSockets
<1> QED
  BY <1>1, <1>2, <1>3, SameInterfaces DEF ifvars

(* Every step of the node keeps the invariant.                             *)
LEMMA IfNextOK == IfInv /\ [NodeNext]_nodeVars => IfInv'
<1> SUFFICES ASSUME IfInv, [NodeNext]_nodeVars PROVE IfInv'
  OBVIOUS
<1>1. ASSUME NEW i \in Interface, NotifyInterfaceUp(i) PROVE IfInv'
  BY <1>1, UpKeeps
<1>2. ASSUME NEW i \in Interface, NotifyInterfaceDown(i) PROVE IfInv'
  BY <1>2, DownKeeps
<1>3. ASSUME NEW i \in Interface, NEW a \in OwnOf[i], NotifyAddAddress(i, a)
      PROVE  IfInv'
  BY <1>3, AddKeeps
<1>4. ASSUME NEW i \in Interface, NEW k \in DOMAIN addrs[i],
             NotifyRemoveAddress(i, k)
      PROVE  IfInv'
  BY <1>4, RemoveKeeps
<1>5. learned \subseteq HasSocket /\ (HasSocket = {} => listed = {})
  BY DEF IfInv, RestsOnSockets
<1>6. ASSUME NEW a \in Own, Forget(a) PROVE IfInv'
  BY <1>5, <1>6, SameInterfaces DEF Forget, vars
<1>7. ASSUME NEW a \in Own, NEW n \in Address, NEW life \in Lifetime,
             Receive(a, n, life)
      PROVE  IfInv'
  BY <1>5, <1>7, SameInterfaces DEF Receive
<1>8. CASE WatchOn
  BY <1>8, WatchKeeps
<1>9. CASE UNCHANGED nodeVars
  BY <1>5, <1>9, SameInterfaces DEF nodeVars, ifvars, vars
<1> QED
  BY <1>1, <1>2, <1>3, <1>4, <1>6, <1>7, <1>8, <1>9 DEF NodeNext

(* The invariant holds in every reachable state.                           *)
LEMMA IfInvariance == NodeSpec => []IfInv
  BY IfInitOK, IfNextOK, PTL DEF NodeSpec

(* The node keeps its types, those of the list included.                   *)
THEOREM NodeTypeCorrect == NodeSpec => []NodeTypeOK
<1>1. TypeOK /\ IfInv => NodeTypeOK
  BY DEF IfInv, NodeTypeOK
<1> QED
  BY <1>1, NodeIsAList, TypeCorrect, IfInvariance, PTL

(* Through any sequence of changes, every interface that is up has both    *)
(* sockets that taking it down asserts; and the node listens on no other   *)
(* address unless an interface was reported up while it was.               *)
THEOREM ListensRight == NodeSpec => []ListensOnFirst
<1>1. IfInv => ListensOnFirst
  <2> SUFFICES ASSUME IfInv PROVE ListensOnFirst
    OBVIOUS
  <2>1. ASSUME NEW i \in Listening
        PROVE  First(i) \in HasSocket /\ bcast[First(i)] + stale[First(i)] > 0
    <3>1. First(i) \in HasSocket
      BY DEF IfInv, Covered
    <3>2. First(i) \in Own /\ sockets[First(i)] > 0
      BY <3>1, HasSocketIs
    <3>3. sockets[First(i)] <= bcast[First(i)] + stale[First(i)]
      BY <3>2 DEF IfInv, Paired
    <3>4. /\ sockets[First(i)] \in Nat /\ bcast[First(i)] \in Nat
          /\ stale[First(i)] \in Nat
      BY <3>2 DEF IfInv, InterfacesTypeOK
    <3> QED
      BY <3>1, <3>2, <3>3, <3>4
  <2>2. ~repeated => HasSocket = {First(i) : i \in Listening}
    BY DEF IfInv, Single
  <2> QED
    BY <2>1, <2>2 DEF ListensOnFirst
<1> QED
  BY <1>1, IfInvariance, PTL

(* Unless one was, it hears broadcasts wherever it listens, through every  *)
(* order in which addresses and interfaces come and go.                    *)
THEOREM HearsBroadcasts == NodeSpec => []BroadcastHeard
<1>1. IfInv => BroadcastHeard
  BY DEF IfInv
<1> QED
  BY <1>1, IfInvariance, PTL

(* And nothing outlives the sockets it depends on.                         *)
THEOREM SocketsCarry == NodeSpec => []RestsOnSockets
<1>1. IfInv => RestsOnSockets
  BY DEF IfInv
<1> QED
  BY <1>1, IfInvariance, PTL
=============================================================================

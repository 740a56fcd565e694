--------------------------- MODULE WifiDirectProofs ---------------------------
(***************************************************************************)
(* The Wi-Fi Direct manager and the DHCP server, for any number of starts, *)
(* events, reads, crashes and deaths of dnsmasq.                           *)
(*                                                                         *)
(* The argument is about who may still speak of which group.  Requests     *)
(* keep the order of the sockets they were sent from, so once the supplic- *)
(* ant has attached the socket in use, nothing an earlier socket asked for *)
(* is left to be handled; no socket outlives a removal it asked for.       *)
(* Hence a group the manager knows, or is about to read of, is the group   *)
(* that is up, and the removal it asks for takes that one down.            *)
(***************************************************************************)
EXTENDS WifiDirect, SequenceTheorems, TLAPS

Letters == [what : {"OK", "FAIL", "P2P-GROUP-STARTED", "other"},
            re : Commands \cup {"event"}, n : Nat]
Requests == [cmd : Commands, n : Nat, iface : Nat, from : Nat]

\* The types, a part for each group of variables.
ManagerShape ==
  /\ sock \in Nat /\ opened \in Nat /\ inbox \in Seq(Letters)
  /\ group_interface \in Nat /\ calls \in Nat /\ answer \in Nat
  /\ call \in {"none", "until"} \cup Commands
SupplicantShape ==
  /\ requests \in Seq(Requests) /\ attached \in Nat
  /\ group \in Nat /\ formed \in Nat /\ group <= formed
  /\ forming => group = 0
DirectShape ==
  /\ at \in [Threads -> LoopLabels \cup MainLabels]
  /\ at["loop"] \in LoopLabels /\ at["main"] \in MainLabels
  /\ pid \in Nat /\ told \in Nat /\ deaths \in Nat /\ crashes \in Nat
  /\ signalled \subseteq running

-----------------------------------------------------------------------------
\* What is on its way to wpa_supplicant.

\* In the order of the sockets, from lo to hi.
InOrder(q, lo, hi) ==
  \A j \in 1..Len(q) : /\ lo <= q[j].from /\ q[j].from <= hi
                       /\ \A i \in 1..j : q[i].from <= q[j].from

\* What removals there are were asked for by sockets before s.
RemovalsBefore(q, s) ==
  \A j \in 1..Len(q) : q[j].cmd = "P2P_GROUP_REMOVE" => q[j].from < s

\* A removal that names a group names g, and is the first removal.
RemovalNames(q, g) ==
  \A j \in 1..Len(q) : q[j].cmd = "P2P_GROUP_REMOVE" /\ q[j].iface # 0 =>
    q[j].iface = g /\ \A i \in 1..(j - 1) : q[i].cmd # "P2P_GROUP_REMOVE"

\* The first group event in the box is the only one, and names g.
OnlyStarted(box, g) ==
  \A k \in 1..Len(box) : box[k].what = "P2P-GROUP-STARTED" =>
    box[k].n = g /\ \A i \in 1..(k - 1) : box[i].what # "P2P-GROUP-STARTED"

HasStarted(box) == \E k \in 1..Len(box) : box[k].what = "P2P-GROUP-STARTED"

-----------------------------------------------------------------------------
\* The invariant.

\* What no socket and no answer mean for the call in progress.
Closed ==
  /\ sock = 0 => call = "none" /\ inbox = <<>> /\ group_interface = 0
  /\ call = "until" => answer = 0

\* The sockets, the requests and the groups they speak of.
OnTheWay ==
  /\ sock \in {0, opened} /\ attached <= opened
  /\ InOrder(requests, attached, opened)
  /\ sock # 0 /\ call # "P2P_GROUP_REMOVE" => RemovalsBefore(requests, sock)
  /\ RemovalNames(requests, group)

KnownIsUp ==
  call # "P2P_GROUP_REMOVE" =>
    /\ group_interface # 0 =>
         group_interface = group /\ attached = sock /\ ~HasStarted(inbox)
    /\ HasStarted(inbox) => group # 0 /\ attached = sock
    /\ OnlyStarted(inbox, group)

NothingStays == call = "P2P_GROUP_REMOVE" => ~GroupMayStay

WpaInv == /\ ManagerShape /\ SupplicantShape
          /\ Closed /\ OnTheWay /\ KnownIsUp /\ NothingStays

\* Which thread is in the manager.
InCall ==
  /\ at["loop"] = "form" <=> call \in {"ATTACH", "P2P_GROUP_ADD", "until"}
  /\ call = "P2P_GROUP_REMOVE" <=> at["loop"] = "removing" \/ at["main"] = "removing"
  /\ ~(at["loop"] = "removing" /\ at["main"] = "removing")
  /\ at["loop"] \in {"serve", "started", "confirm", "preview"} => answer # 0

AtTheEnd ==
  /\ joined => at["loop"] = "idle" /\ at["main"] \in DhcpStop \cup {"ended"}
  /\ at["main"] = "ended" => joined /\ pid = 0

\* dnsmasq, as long as one thread at a time is in DnsmasqDhcpServer.
Children == running \cup zombies
OneServer ==
  ~overlapped =>
    /\ ~(InDhcp(at["loop"]) /\ InDhcp(at["main"]))
    /\ at["loop"] = "started" => pid = 0 /\ Children = {answer}
    /\ "reap" \in {at["loop"], at["main"]} => pid # 0
    /\ "clear" \in {at["loop"], at["main"]} => Children = {}
    /\ at["loop"] # "started" /\ "clear" \notin {at["loop"], at["main"]} =>
         Children = IF pid = 0 THEN {} ELSE {pid}

\* The group of the latest start, before and after the app is told.
Served(n) == n \notin signalled /\ (n \in running \/ (n \in zombies /\ deaths > 0))

OneGroup ==
  at["main"] = "running" =>
    /\ ~overlapped
    /\ HasStarted(inbox) /\ call # "P2P_GROUP_REMOVE" => group \notin Children
    /\ Children \subseteq 1..formed
    /\ at["loop"] \in {"serve", "started", "confirm", "preview"} =>
         told = 0 /\ group_interface = answer /\ call = "none"
    /\ at["loop"] = "serve" => answer \notin Children
    /\ at["loop"] = "started" => Served(answer)
    /\ at["loop"] \in {"confirm", "preview"} => pid = answer /\ Served(answer)
    /\ told # 0 => /\ at["loop"] \in {"idle", "form"} /\ group_interface = told
                   /\ pid = told /\ Served(told)

DirectInv == DirectShape /\ InCall /\ AtTheEnd /\ OneServer /\ OneGroup

WifiInv == WpaInv /\ DirectInv

-----------------------------------------------------------------------------
\* Queues: what holds of one when its head leaves and when something joins it.

LEMMA AtHead ==
  ASSUME NEW S, NEW q \in Seq(S), q # <<>>
  PROVE  /\ Len(q) \in Nat /\ 1 \in 1..Len(q) /\ Head(q) = q[1] /\ q[1] \in S
         /\ Tail(q) \in Seq(S) /\ Len(Tail(q)) = Len(q) - 1
         /\ \A i \in 1..Len(Tail(q)) : i + 1 \in 1..Len(q) /\ Tail(q)[i] = q[i + 1]
<1> DEFINE n == Len(q)
           m == Len(Tail(q))
<1>1. n \in Nat /\ n # 0
  BY LenProperties, EmptySeq
<1>2. /\ Head(q) \in S /\ Tail(q) \in Seq(S) /\ m = n - 1
      /\ \A i \in 1..m : Tail(q)[i] = q[i + 1]
  BY HeadTailProperties
<1>3. Head(q) = q[1]
  OBVIOUS
<1> HIDE DEF n, m
<1>4. 1 \in 1..n /\ \A i \in 1..m : i + 1 \in 1..n
  BY <1>1, <1>2
<1>5. QED
  BY <1>1, <1>2, <1>3, <1>4 DEF n, m

LEMMA AtEnd ==
  ASSUME NEW S, NEW q \in Seq(S), NEW r \in S
  PROVE  /\ Append(q, r) \in Seq(S) /\ Len(q) \in Nat /\ Len(Append(q, r)) = Len(q) + 1
         /\ Append(q, r)[Len(q) + 1] = r
         /\ \A i \in 1..Len(q) : Append(q, r)[i] = q[i]
  BY AppendProperties, LenProperties

LEMMA TailInOrder ==
  ASSUME NEW q \in Seq(Requests), q # <<>>, NEW lo \in Nat, NEW hi \in Nat, InOrder(q, lo, hi)
  PROVE  /\ lo <= Head(q).from /\ Head(q).from <= hi
         /\ InOrder(Tail(q), lo, hi) /\ InOrder(Tail(q), Head(q).from, hi)
<1>1. \A i \in 1..Len(Tail(q)) : 1 \in 1..(i + 1)
  OBVIOUS
<1>2. ASSUME NEW j \in 1..Len(Tail(q))
      PROVE  /\ lo <= Tail(q)[j].from /\ Tail(q)[j].from <= hi /\ Head(q).from <= Tail(q)[j].from
             /\ \A i \in 1..j : Tail(q)[i].from <= Tail(q)[j].from
  <2>1. j + 1 \in 1..Len(q) /\ Tail(q)[j] = q[j + 1] /\ Head(q) = q[1] /\ 1 \in 1..(j + 1)
    BY AtHead, <1>1
  <2>2. \A i \in 1..j : i \in 1..Len(Tail(q)) /\ i + 1 \in 1..(j + 1)
    BY AtHead
  <2>3. \A i \in 1..j : Tail(q)[i] = q[i + 1]
    BY <2>2, AtHead
  <2>4. QED
    BY <2>1, <2>2, <2>3 DEF InOrder
<1>3. lo <= Head(q).from /\ Head(q).from <= hi
  BY AtHead DEF InOrder
<1>4. QED
  BY <1>2, <1>3 DEF InOrder

LEMMA AppendInOrder ==
  ASSUME NEW q \in Seq(Requests), NEW lo \in Nat, NEW hi \in Nat, InOrder(q, lo, hi),
         NEW r \in Requests, hi <= r.from, lo <= r.from
  PROVE  InOrder(Append(q, r), lo, r.from)
<1> DEFINE a == Append(q, r)
           n == Len(q)
<1>1. r.from \in Nat /\ \A j \in 1..n : q[j].from \in Nat
  <2>1. \A j \in 1..n : q[j] \in Requests
    BY ElementOfSeq
  <2>2. QED
    BY <2>1 DEF Requests
<1>2. n \in Nat /\ Len(a) = n + 1 /\ a[n + 1] = r /\ \A i \in 1..n : a[i] = q[i]
  BY AtEnd
<1>3. \A j \in 1..n : lo <= q[j].from /\ q[j].from <= hi /\ \A i \in 1..j : q[i].from <= q[j].from
  BY DEF InOrder
<1> HIDE DEF a, n
<1>4. ASSUME NEW j \in 1..(n + 1)
      PROVE  /\ lo <= a[j].from /\ a[j].from <= r.from
             /\ \A i \in 1..j : a[i].from <= a[j].from
  <2>1. CASE j \in 1..n
    <3>1. \A i \in 1..j : a[i] = q[i]
      BY <1>2, <2>1
    <3>2. a[j] = q[j] /\ \A i \in 1..j : q[i].from <= q[j].from
      BY <1>2, <1>3, <2>1
    <3>3. lo <= q[j].from /\ q[j].from <= r.from
      BY <1>1, <1>3, <2>1
    <3>4. QED
      BY <3>1, <3>2, <3>3
  <2>2. CASE j = n + 1
    <3>1. \A i \in 1..n : a[i].from <= r.from
      BY <1>1, <1>2, <1>3
    <3>2. \A i \in 1..(n + 1) : i \in 1..n \/ i = n + 1
      BY <1>2
    <3>3. QED
      BY <1>1, <1>2, <2>2, <3>1, <3>2
  <2>3. QED
    BY <1>2, <2>1, <2>2
<1>5. QED
  BY <1>2, <1>4 DEF InOrder, a

LEMMA TailRemovalsBefore ==
  ASSUME NEW q \in Seq(Requests), q # <<>>, NEW s, RemovalsBefore(q, s)
  PROVE  RemovalsBefore(Tail(q), s)
  BY AtHead DEF RemovalsBefore

LEMMA AppendRemovalsBefore ==
  ASSUME NEW q \in Seq(Requests), NEW s, RemovalsBefore(q, s),
         NEW r \in Requests, r.cmd # "P2P_GROUP_REMOVE"
  PROVE  RemovalsBefore(Append(q, r), s)
<1> DEFINE a == Append(q, r)
           n == Len(q)
<1>1. n \in Nat /\ Len(a) = n + 1 /\ a[n + 1] = r /\ \A i \in 1..n : a[i] = q[i]
  BY AtEnd
<1>2. \A i \in 1..n : q[i].cmd = "P2P_GROUP_REMOVE" => q[i].from < s
  BY DEF RemovalsBefore
<1> HIDE DEF a, n
<1>3. \A i \in 1..(n + 1) : i \in 1..n \/ i = n + 1
  BY <1>1
<1>4. QED
  BY <1>1, <1>2, <1>3 DEF RemovalsBefore, a

LEMMA TailRemovalNames ==
  ASSUME NEW q \in Seq(Requests), q # <<>>, NEW g, RemovalNames(q, g)
  PROVE  /\ RemovalNames(Tail(q), g)
         /\ Head(q).cmd = "P2P_GROUP_REMOVE" =>
              \A j \in 1..Len(Tail(q)) :
                Tail(q)[j].cmd = "P2P_GROUP_REMOVE" => Tail(q)[j].iface = 0
<1>1. ASSUME NEW j \in 1..Len(Tail(q)), Tail(q)[j].cmd = "P2P_GROUP_REMOVE", Tail(q)[j].iface # 0
      PROVE  /\ Tail(q)[j].iface = g /\ Head(q).cmd # "P2P_GROUP_REMOVE"
             /\ \A i \in 1..(j - 1) : Tail(q)[i].cmd # "P2P_GROUP_REMOVE"
  <2>1. j + 1 \in 1..Len(q) /\ Tail(q)[j] = q[j + 1] /\ Head(q) = q[1] /\ 1 \in 1..((j + 1) - 1)
    BY AtHead
  <2>2. \A i \in 1..(j - 1) : i \in 1..Len(Tail(q)) /\ i + 1 \in 1..((j + 1) - 1)
    BY AtHead
  <2>3. \A i \in 1..(j - 1) : Tail(q)[i] = q[i + 1]
    BY <2>2, AtHead
  <2>4. q[j + 1].iface = g /\ \A i \in 1..((j + 1) - 1) : q[i].cmd # "P2P_GROUP_REMOVE"
    BY <1>1, <2>1 DEF RemovalNames
  <2>5. QED
    BY <2>1, <2>2, <2>3, <2>4
<1>2. QED
  BY <1>1 DEF RemovalNames

LEMMA AppendRemovalNames ==
  ASSUME NEW q \in Seq(Requests), NEW g, RemovalNames(q, g), NEW r \in Requests,
         r.cmd = "P2P_GROUP_REMOVE" /\ r.iface # 0 =>
           r.iface = g /\ \A i \in 1..Len(q) : q[i].cmd # "P2P_GROUP_REMOVE"
  PROVE  RemovalNames(Append(q, r), g)
<1> DEFINE a == Append(q, r)
           n == Len(q)
<1>1. n \in Nat /\ Len(a) = n + 1 /\ a[n + 1] = r /\ \A i \in 1..n : a[i] = q[i]
  BY AtEnd
<1>2. \A j \in 1..n : q[j].cmd = "P2P_GROUP_REMOVE" /\ q[j].iface # 0 =>
        q[j].iface = g /\ \A i \in 1..(j - 1) : q[i].cmd # "P2P_GROUP_REMOVE"
  BY DEF RemovalNames
<1>3. r.cmd = "P2P_GROUP_REMOVE" /\ r.iface # 0 =>
        r.iface = g /\ \A i \in 1..n : q[i].cmd # "P2P_GROUP_REMOVE"
  OBVIOUS
<1> HIDE DEF a, n
<1>4. ASSUME NEW j \in 1..(n + 1), a[j].cmd = "P2P_GROUP_REMOVE", a[j].iface # 0
      PROVE  a[j].iface = g /\ \A i \in 1..(j - 1) : a[i].cmd # "P2P_GROUP_REMOVE"
  <2>1. \A i \in 1..(j - 1) : i \in 1..n /\ a[i] = q[i]
    BY <1>1
  <2>2. CASE j \in 1..n
    BY <1>1, <1>2, <1>4, <2>1, <2>2
  <2>3. CASE j = n + 1
    BY <1>1, <1>3, <1>4, <2>1, <2>3
  <2>4. QED
    BY <1>1, <2>2, <2>3
<1>5. QED
  BY <1>1, <1>4 DEF RemovalNames, a

LEMMA TailStarted ==
  ASSUME NEW box \in Seq(Letters), box # <<>>, NEW g, OnlyStarted(box, g)
  PROVE  /\ OnlyStarted(Tail(box), g) /\ (HasStarted(Tail(box)) => HasStarted(box))
         /\ Head(box).what = "P2P-GROUP-STARTED" =>
              Head(box).n = g /\ HasStarted(box) /\ ~HasStarted(Tail(box))
<1>1. ASSUME NEW k \in 1..Len(Tail(box)), Tail(box)[k].what = "P2P-GROUP-STARTED"
      PROVE  /\ Tail(box)[k].n = g /\ Head(box).what # "P2P-GROUP-STARTED" /\ HasStarted(box)
             /\ \A i \in 1..(k - 1) : Tail(box)[i].what # "P2P-GROUP-STARTED"
  <2>1. k + 1 \in 1..Len(box) /\ Tail(box)[k] = box[k + 1] /\ Head(box) = box[1] /\ 1 \in 1..((k + 1) - 1)
    BY AtHead
  <2>2. \A i \in 1..(k - 1) : i \in 1..Len(Tail(box)) /\ i + 1 \in 1..((k + 1) - 1)
    BY AtHead
  <2>3. \A i \in 1..(k - 1) : Tail(box)[i] = box[i + 1]
    BY <2>2, AtHead
  <2>4. box[k + 1].n = g /\ \A i \in 1..((k + 1) - 1) : box[i].what # "P2P-GROUP-STARTED"
    BY <1>1, <2>1 DEF OnlyStarted
  <2>5. QED
    BY <1>1, <2>1, <2>2, <2>3, <2>4 DEF HasStarted
<1>2. Head(box) = box[1] /\ 1 \in 1..Len(box)
  BY AtHead
<1>3. QED
  BY <1>1, <1>2 DEF OnlyStarted, HasStarted

LEMMA AppendStarted ==
  ASSUME NEW box \in Seq(Letters), NEW g, OnlyStarted(box, g), NEW d \in Letters,
         d.what = "P2P-GROUP-STARTED" => ~HasStarted(box) /\ d.n = g
  PROVE  /\ OnlyStarted(Append(box, d), g)
         /\ HasStarted(Append(box, d)) => HasStarted(box) \/ d.what = "P2P-GROUP-STARTED"
<1> DEFINE a == Append(box, d)
           n == Len(box)
<1>1. n \in Nat /\ Len(a) = n + 1 /\ a[n + 1] = d /\ \A i \in 1..n : a[i] = box[i]
  BY AtEnd
<1>2. \A j \in 1..n : box[j].what = "P2P-GROUP-STARTED" =>
        box[j].n = g /\ \A i \in 1..(j - 1) : box[i].what # "P2P-GROUP-STARTED"
  BY DEF OnlyStarted
<1>3. d.what = "P2P-GROUP-STARTED" =>
        d.n = g /\ \A i \in 1..n : box[i].what # "P2P-GROUP-STARTED"
  BY DEF HasStarted
<1> HIDE DEF a, n
<1>4. ASSUME NEW j \in 1..(n + 1), a[j].what = "P2P-GROUP-STARTED"
      PROVE  a[j].n = g /\ \A i \in 1..(j - 1) : a[i].what # "P2P-GROUP-STARTED"
  <2>1. \A i \in 1..(j - 1) : i \in 1..n /\ a[i] = box[i]
    BY <1>1
  <2>2. CASE j \in 1..n
    BY <1>1, <1>2, <1>4, <2>1, <2>2
  <2>3. CASE j = n + 1
    BY <1>1, <1>3, <1>4, <2>1, <2>3
  <2>4. QED
    BY <1>1, <2>2, <2>3
<1>5. ASSUME HasStarted(a) PROVE HasStarted(box) \/ d.what = "P2P-GROUP-STARTED"
  <2>1. PICK j \in 1..(n + 1) : a[j].what = "P2P-GROUP-STARTED"
    BY <1>1, <1>5 DEF HasStarted
  <2>2. j \in 1..n \/ j = n + 1
    BY <1>1
  <2>3. QED
    BY <1>1, <2>1, <2>2 DEF HasStarted, n
<1>6. QED
  BY <1>1, <1>4, <1>5 DEF OnlyStarted, a

\* GroupMayStay for a queue q, a group g, and whether one is being formed.
Takes(r, g) == r.cmd = "P2P_GROUP_REMOVE" /\ r.iface \in {0, g}
TakenFrom(q, g, i) == \E j \in i..Len(q) : Takes(q[j], g)
Stays(q, g, f) ==
  \/ (g # 0 \/ f) /\ ~TakenFrom(q, g, 1)
  \/ \E i \in 1..Len(q) : q[i].cmd = "P2P_GROUP_ADD" /\ ~TakenFrom(q, g, i)

LEMMA MayStayIsStays == GroupMayStay <=> Stays(requests, group, forming)
  BY DEF GroupMayStay, RemovalFrom, Stays, TakenFrom, Takes

\* What is asked for changes it as the contract says: a start may bring a group,
\* a removal takes it down.
LEMMA AppendStays ==
  ASSUME NEW q \in Seq(Requests), NEW g, NEW f, NEW r \in Requests
  PROVE  /\ r.cmd = "ATTACH" => (Stays(Append(q, r), g, f) <=> Stays(q, g, f))
         /\ r.cmd = "P2P_GROUP_ADD" => Stays(Append(q, r), g, f)
         /\ Takes(r, g) => ~Stays(Append(q, r), g, f)
<1> DEFINE a == Append(q, r)
           n == Len(q)
<1>1. n \in Nat /\ Len(a) = n + 1 /\ a[n + 1] = r /\ \A i \in 1..n : a[i] = q[i]
  BY AtEnd
<1> HIDE DEF a
<1>2. ASSUME NEW i \in 1..n, ~Takes(r, g)
      PROVE  TakenFrom(a, g, i) <=> TakenFrom(q, g, i)
  <2>1. \A j \in i..(n + 1) : (j \in i..n /\ a[j] = q[j]) \/ (j = n + 1 /\ a[j] = r)
    BY <1>1
  <2>2. \A j \in i..n : j \in i..(n + 1) /\ a[j] = q[j]
    BY <1>1
  <2>3. QED
    BY <1>1, <1>2, <2>1, <2>2 DEF TakenFrom
<1>3. ASSUME n = 0, ~Takes(r, g)
      PROVE  ~TakenFrom(a, g, 1) /\ ~TakenFrom(q, g, 1)
  <2>1. \A j \in 1..(n + 1) : a[j] = r
    BY <1>1, <1>3
  <2>2. QED
    BY <1>1, <1>3, <2>1 DEF TakenFrom
<1>4. ~Takes(r, g) => (TakenFrom(a, g, 1) <=> TakenFrom(q, g, 1))
  <2>1. n = 0 \/ 1 \in 1..n
    BY <1>1
  <2>2. QED
    BY <1>2, <1>3, <2>1
<1>5. \A i \in 1..(n + 1) : i \in 1..n \/ i = n + 1
  BY <1>1
<1>6. ASSUME r.cmd = "ATTACH" PROVE Stays(a, g, f) <=> Stays(q, g, f)
  <2>1. ~Takes(r, g)
    BY <1>6 DEF Takes
  <2>2. (\E i \in 1..(n + 1) : a[i].cmd = "P2P_GROUP_ADD" /\ ~TakenFrom(a, g, i))
          <=> (\E i \in 1..n : q[i].cmd = "P2P_GROUP_ADD" /\ ~TakenFrom(q, g, i))
    <3>1. a[n + 1].cmd # "P2P_GROUP_ADD"
      BY <1>1, <1>6
    <3>2. \A i \in 1..n : i \in 1..(n + 1) /\ a[i] = q[i]
                          /\ (TakenFrom(a, g, i) <=> TakenFrom(q, g, i))
      BY <1>1, <1>2, <2>1
    <3>3. QED
      BY <1>5, <3>1, <3>2
  <2>3. QED
    BY <1>1, <1>4, <2>1, <2>2 DEF Stays
<1>7. ASSUME r.cmd = "P2P_GROUP_ADD" PROVE Stays(a, g, f)
  <2>1. n + 1 \in 1..(n + 1) /\ \A j \in (n + 1)..(n + 1) : a[j] = r
    BY <1>1
  <2>2. ~TakenFrom(a, g, n + 1)
    BY <1>1, <1>7, <2>1 DEF TakenFrom, Takes
  <2>3. QED
    BY <1>1, <1>7, <2>1, <2>2 DEF Stays
<1>8. ASSUME Takes(r, g) PROVE ~Stays(a, g, f)
  <2>1. \A i \in 1..(n + 1) : n + 1 \in i..(n + 1)
    BY <1>1
  <2>2. \A i \in 1..(n + 1) : TakenFrom(a, g, i)
    BY <1>1, <1>8, <2>1 DEF TakenFrom
  <2>3. 1 \in 1..(n + 1)
    BY <1>1
  <2>4. QED
    BY <1>1, <2>2, <2>3 DEF Stays
<1>9. QED
  BY <1>6, <1>7, <1>8 DEF a

\* No request that is handled brings a group back.
LEMMA TailStays ==
  ASSUME NEW q \in Seq(Requests), q # <<>>, NEW g, NEW f, NEW f2, ~Stays(q, g, f)
  PROVE  /\ ~Takes(Head(q), g) /\ (f2 => f \/ Head(q).cmd = "P2P_GROUP_ADD") =>
              ~Stays(Tail(q), g, f2)
         /\ RemovalNames(q, g) /\ Head(q).cmd = "P2P_GROUP_REMOVE" => ~Stays(Tail(q), 0, FALSE)
<1> DEFINE t == Tail(q)
           n == Len(q)
           m == Len(t)
<1>1. /\ n \in Nat /\ m = n - 1 /\ Head(q) = q[1] /\ 1 \in 1..n
      /\ \A i \in 1..m : i + 1 \in 1..n /\ t[i] = q[i + 1]
  BY AtHead
<1>2. \A i \in 1..n : q[i].cmd = "P2P_GROUP_ADD" => TakenFrom(q, g, i)
  BY DEF Stays
<1>3. g # 0 \/ f => TakenFrom(q, g, 1)
  BY DEF Stays
<1>4. RemovalNames(q, g) /\ Head(q).cmd = "P2P_GROUP_REMOVE" =>
        \A j \in 1..m : t[j].cmd = "P2P_GROUP_REMOVE" => t[j].iface = 0
  BY TailRemovalNames
<1> HIDE DEF t, n, m
<1>5. ASSUME NEW i \in 1..m, TakenFrom(q, g, i + 1) PROVE TakenFrom(t, g, i)
  <2>1. PICK j \in (i + 1)..n : Takes(q[j], g)
    BY <1>5 DEF TakenFrom, n
  <2>2. j - 1 \in i..m /\ j - 1 \in 1..m /\ (j - 1) + 1 = j
    BY <1>1, <2>1
  <2>3. t[j - 1] = q[j]
    BY <1>1, <2>2
  <2>4. QED
    BY <2>1, <2>2, <2>3 DEF TakenFrom, m
<1>6. ASSUME ~Takes(q[1], g), TakenFrom(q, g, 1) PROVE TakenFrom(t, g, 1)
  <2>1. PICK j \in 1..n : Takes(q[j], g)
    BY <1>6 DEF TakenFrom, n
  <2>2. j # 1
    BY <1>6, <2>1
  <2>3. j - 1 \in 1..m /\ (j - 1) + 1 = j
    BY <1>1, <2>1, <2>2
  <2>4. t[j - 1] = q[j]
    BY <1>1, <2>3
  <2>5. QED
    BY <2>1, <2>3, <2>4 DEF TakenFrom, m
<1>7. ASSUME NEW i \in 1..m, t[i].cmd = "P2P_GROUP_ADD" PROVE TakenFrom(t, g, i)
  <2>1. i + 1 \in 1..n /\ q[i + 1].cmd = "P2P_GROUP_ADD"
    BY <1>1, <1>7
  <2>2. QED
    BY <1>2, <1>5, <2>1
<1>8. ASSUME ~Takes(Head(q), g), f2 => f \/ Head(q).cmd = "P2P_GROUP_ADD"
      PROVE  ~Stays(t, g, f2)
  <2>1. g # 0 \/ f2 => TakenFrom(q, g, 1)
    BY <1>1, <1>2, <1>3, <1>8
  <2>2. g # 0 \/ f2 => TakenFrom(t, g, 1)
    BY <1>1, <1>6, <1>8, <2>1
  <2>3. QED
    BY <1>7, <2>2 DEF Stays, m
<1>9. ASSUME RemovalNames(q, g), Head(q).cmd = "P2P_GROUP_REMOVE"
      PROVE  ~Stays(t, 0, FALSE)
  <2>1. ASSUME NEW i \in 1..m, t[i].cmd = "P2P_GROUP_ADD" PROVE TakenFrom(t, 0, i)
    <3>1. PICK j \in i..m : Takes(t[j], g)
      BY <1>7, <2>1 DEF TakenFrom, m
    <3>2. j \in 1..m
      BY <1>1, <3>1
    <3>3. Takes(t[j], 0)
      BY <1>4, <1>9, <3>1, <3>2 DEF Takes
    <3>4. QED
      BY <3>1, <3>3 DEF TakenFrom, m
  <2>2. QED
    BY <2>1 DEF Stays, m
<1>10. QED
  BY <1>8, <1>9 DEF t

\* Nor does a group that forms behind a removal of all there is.
LEMMA FormedStays ==
  ASSUME NEW q \in Seq(Requests), NEW g, ~Stays(q, 0, TRUE)
  PROVE  ~Stays(q, g, FALSE)
<1>1. \A i : TakenFrom(q, 0, i) => TakenFrom(q, g, i)
  BY DEF TakenFrom, Takes
<1>2. TakenFrom(q, 0, 1) /\ \A i \in 1..Len(q) : q[i].cmd = "P2P_GROUP_ADD" => TakenFrom(q, 0, i)
  BY DEF Stays
<1>3. QED
  BY <1>1, <1>2 DEF Stays

-----------------------------------------------------------------------------
\* The conversation.

WpaStep == \/ StartP2pGroupOwner \/ Converse \/ Stop \/ Stopped \/ LoseManager
           \/ Supplicant \/ UNCHANGED wpaVars

LEMMA WpaInitInv == WpaInit => WpaInv
<1> SUFFICES ASSUME WpaInit PROVE WpaInv
  OBVIOUS
<1> USE DEF WpaInit
<1>1. ManagerShape
  BY EmptySeq DEF ManagerShape
<1>2. SupplicantShape
  BY EmptySeq DEF SupplicantShape
<1>3. Closed /\ NothingStays
  BY DEF Closed, NothingStays
<1>4. OnTheWay
  BY DEF OnTheWay, InOrder, RemovalsBefore, RemovalNames
<1>5. KnownIsUp
  BY DEF KnownIsUp, OnlyStarted, HasStarted
<1>6. QED
  BY <1>1, <1>2, <1>3, <1>4, <1>5 DEF WpaInv

\* A socket that is attached has no removal in front of its requests.
LEMMA AttachedHasNoRemoval ==
  ASSUME WpaInv, sock # 0, attached = sock, call # "P2P_GROUP_REMOVE"
  PROVE  \A i \in 1..Len(requests) : requests[i].cmd # "P2P_GROUP_REMOVE"
<1>1. ASSUME NEW i \in 1..Len(requests), requests[i].cmd = "P2P_GROUP_REMOVE" PROVE FALSE
  <2>1. sock <= requests[i].from /\ requests[i].from < sock
    BY <1>1 DEF WpaInv, OnTheWay, InOrder, RemovalsBefore
  <2>2. requests[i] \in Requests
    BY ElementOfSeq DEF WpaInv, SupplicantShape
  <2>3. requests[i].from \in Nat /\ sock \in Nat
    BY <2>2 DEF Requests, WpaInv, ManagerShape
  <2>4. QED
    BY <2>1, <2>3
<1>2. QED
  BY <1>1

\* What is known of a group while no removal waits for its answer.
LEMMA Known ==
  ASSUME WpaInv, call # "P2P_GROUP_REMOVE", group_interface # 0 \/ HasStarted(inbox)
  PROVE  /\ group # 0 /\ ~forming /\ sock # 0 /\ attached = sock
         /\ \A i \in 1..Len(requests) : requests[i].cmd # "P2P_GROUP_REMOVE"
<1>1. inbox = <<>> => ~HasStarted(inbox)
  BY DEF HasStarted
<1>2. sock # 0
  BY <1>1 DEF WpaInv, Closed
<1>3. group # 0 /\ attached = sock
  BY DEF WpaInv, KnownIsUp
<1>4. ~forming
  BY <1>3 DEF WpaInv, SupplicantShape
<1>5. QED
  BY <1>2, <1>3, <1>4, AttachedHasNoRemoval

\* A datagram that asks for something other than a removal.
LEMMA AsksForGroup ==
  ASSUME WpaInv, NEW r \in Requests, r.cmd # "P2P_GROUP_REMOVE", r.from = sock', sock' = opened',
         (sock # 0 /\ UNCHANGED <<sock, opened>>) \/ (sock = 0 /\ opened' = opened + 1),
         requests' = Append(requests, r), call' # "P2P_GROUP_REMOVE",
         call # "P2P_GROUP_REMOVE", UNCHANGED <<attached, group>>
  PROVE  OnTheWay'
<1>1. /\ requests \in Seq(Requests) /\ attached \in Nat /\ opened \in Nat
      /\ attached <= opened /\ InOrder(requests, attached, opened)
      /\ sock \in {0, opened} /\ sock \in Nat
  BY DEF WpaInv, SupplicantShape, ManagerShape, OnTheWay
<1>2. attached <= opened' /\ opened <= opened' /\ opened' \in Nat
  BY <1>1
<1>3. InOrder(requests', attached, opened')
  BY <1>1, <1>2, AppendInOrder
<1>4. RemovalsBefore(requests, sock')
  <2>1. CASE sock # 0
    BY <2>1 DEF WpaInv, OnTheWay
  <2>2. CASE sock = 0
    <3>1. ASSUME NEW i \in 1..Len(requests), requests[i].cmd = "P2P_GROUP_REMOVE"
          PROVE  requests[i].from < sock'
      <4>1. requests[i] \in Requests /\ requests[i].from <= opened
        BY <1>1, <3>1, ElementOfSeq DEF InOrder
      <4>2. requests[i].from \in Nat
        BY <4>1 DEF Requests
      <4>3. QED
        BY <1>1, <2>2, <4>1, <4>2
    <3>2. QED
      BY <3>1 DEF RemovalsBefore
  <2>3. QED
    BY <2>1, <2>2
<1>5. RemovalsBefore(requests', sock')
  BY <1>1, <1>4, AppendRemovalsBefore
<1>6. RemovalNames(requests', group)
  BY <1>1, AppendRemovalNames DEF WpaInv, OnTheWay
<1>7. QED
  BY <1>2, <1>3, <1>5, <1>6 DEF OnTheWay

LEMMA StartKeepsWpaInv ==
  ASSUME WpaInv, StartP2pGroupOwner
  PROVE  WpaInv'
<1> DEFINE r == [cmd |-> "ATTACH", n |-> calls', iface |-> 0, from |-> sock']
<1>1. ManagerShape /\ SupplicantShape /\ Closed /\ KnownIsUp /\ OnTheWay
  BY DEF WpaInv
<1>2. /\ call = "none" /\ call' = "ATTACH" /\ requests' = Append(requests, r) /\ calls' = calls + 1
      /\ opened' = IF sock = 0 THEN opened + 1 ELSE opened
      /\ sock' = IF sock = 0 THEN opened' ELSE sock
      /\ UNCHANGED <<inbox, group_interface, connected, reads, answer,
                     attached, group, forming, formed>>
  BY DEF StartP2pGroupOwner, Send
<1>3. /\ (sock # 0 /\ UNCHANGED <<sock, opened>>) \/ (sock = 0 /\ opened' = opened + 1)
      /\ sock' = opened' /\ sock' # 0 /\ sock' \in Nat /\ opened' \in Nat /\ calls' \in Nat
  BY <1>1, <1>2 DEF ManagerShape, OnTheWay
<1>4. r \in Requests /\ r.cmd = "ATTACH" /\ r.from = sock'
  BY <1>3 DEF Requests, Commands
<1> HIDE DEF r
<1>5. ManagerShape'
  BY <1>1, <1>2, <1>3 DEF ManagerShape, Commands
<1>6. SupplicantShape'
  <2>1. requests' \in Seq(Requests)
    BY <1>1, <1>2, <1>4, AtEnd DEF SupplicantShape
  <2>2. QED
    BY <1>1, <1>2, <2>1 DEF SupplicantShape
<1>7. OnTheWay'
  BY <1>2, <1>3, <1>4, AsksForGroup
<1>8. Closed' /\ NothingStays'
  BY <1>2, <1>3 DEF Closed, NothingStays
<1>9. KnownIsUp'
  <2>1. group_interface # 0 \/ HasStarted(inbox) => sock' = sock
    BY <1>2, <1>3, Known
  <2>2. QED
    BY <1>1, <1>2, <2>1 DEF KnownIsUp
<1>10. QED
  BY <1>5, <1>6, <1>7, <1>8, <1>9 DEF WpaInv

\* Taking a datagram off the socket.
LEMMA RecvKeepsKnown ==
  ASSUME WpaInv, call # "P2P_GROUP_REMOVE", NEW d, Recv(d),
         UNCHANGED <<sock, group_interface, attached, group>>
  PROVE  /\ inbox' \in Seq(Letters) /\ KnownIsUp'
         /\ d = NoReply \/ d \in Letters
         /\ inbox = <<>> => inbox' = <<>>
<1>1. inbox \in Seq(Letters) /\ OnlyStarted(inbox, group) /\ KnownIsUp
  BY DEF WpaInv, ManagerShape, KnownIsUp
<1>2. CASE inbox = <<>>
  BY <1>1, <1>2 DEF Recv, KnownIsUp
<1>3. CASE inbox # <<>>
  <2>1. d = Head(inbox) /\ inbox' = Tail(inbox)
    BY <1>3 DEF Recv
  <2>2. d \in Letters /\ inbox' \in Seq(Letters)
    BY <1>1, <1>3, <2>1, HeadTailProperties
  <2>3. OnlyStarted(inbox', group) /\ (HasStarted(inbox') => HasStarted(inbox))
    BY <1>1, <1>3, <2>1, TailStarted
  <2>4. QED
    BY <1>1, <1>3, <2>2, <2>3 DEF KnownIsUp
<1>4. QED
  BY <1>2, <1>3

LEMMA AttachedKeepsWpaInv ==
  ASSUME WpaInv, Attached
  PROVE  WpaInv'
<1> DEFINE r == [cmd |-> "P2P_GROUP_ADD", n |-> calls', iface |-> 0, from |-> sock']
<1>1. ManagerShape /\ SupplicantShape /\ Closed /\ OnTheWay
  BY DEF WpaInv
<1>2. /\ call = "ATTACH" /\ call' = "P2P_GROUP_ADD" /\ requests' = Append(requests, r)
      /\ UNCHANGED <<sock, calls, opened, group_interface, connected, reads, answer,
                     attached, group, forming, formed>>
  BY DEF Attached, Send
<1>3. PICK d \in Received : Recv(d)
  BY DEF Attached
<1>4. inbox' \in Seq(Letters) /\ KnownIsUp'
  BY <1>2, <1>3, RecvKeepsKnown
<1>5. sock # 0 /\ sock' = opened' /\ sock' \in Nat /\ opened' \in Nat /\ calls' \in Nat
  BY <1>1, <1>2 DEF ManagerShape, OnTheWay, Closed
<1>6. r \in Requests /\ r.cmd = "P2P_GROUP_ADD" /\ r.from = sock'
  BY <1>5 DEF Requests, Commands
<1> HIDE DEF r
<1>7. ManagerShape'
  BY <1>1, <1>2, <1>4 DEF ManagerShape, Commands
<1>8. SupplicantShape'
  <2>1. requests' \in Seq(Requests)
    BY <1>1, <1>2, <1>6, AtEnd DEF SupplicantShape
  <2>2. QED
    BY <1>1, <1>2, <2>1 DEF SupplicantShape
<1>9. OnTheWay'
  BY <1>2, <1>5, <1>6, AsksForGroup
<1>10. Closed' /\ NothingStays'
  BY <1>2, <1>5 DEF Closed, NothingStays
<1>11. QED
  BY <1>4, <1>7, <1>8, <1>9, <1>10 DEF WpaInv

\* The rest of a start sends nothing.
LEMMA ListeningKeepsWpaInv ==
  ASSUME WpaInv, Added \/ ReadUntil
  PROVE  WpaInv'
<1>1. ManagerShape /\ SupplicantShape /\ Closed /\ OnTheWay /\ KnownIsUp
  BY DEF WpaInv
<1>2. /\ call \in {"P2P_GROUP_ADD", "until"} /\ call' \in {"until", "none"}
      /\ UNCHANGED <<sock, opened, calls, supplicant>>
  BY DEF Added, ReadUntil, StartFails, GroupStarted, ReadOn
<1>3. PICK d \in Received :
        /\ Recv(d)
        /\ \/ answer' = 0 /\ UNCHANGED group_interface
           \/ call = "until" /\ call' = "none" /\ UNCHANGED <<answer, group_interface>>
           \/ call = "until" /\ call' = "until" /\ UNCHANGED <<answer, group_interface>>
           \/ GroupStarted(d)
  BY DEF Added, ReadUntil, StartFails, ReadOn
<1>4. UNCHANGED <<requests, attached, group, forming, formed>>
  BY <1>2 DEF supplicant
<1>5. sock # 0
  BY <1>1, <1>2 DEF Closed
<1>6. SupplicantShape' /\ NothingStays'
  BY <1>1, <1>2, <1>4 DEF SupplicantShape, NothingStays
<1>7. OnTheWay'
  BY <1>1, <1>2, <1>4 DEF OnTheWay
<1>8. CASE UNCHANGED group_interface
  <2>1. inbox' \in Seq(Letters) /\ KnownIsUp'
    BY <1>2, <1>3, <1>4, <1>8, RecvKeepsKnown
  <2>2. answer' \in Nat /\ (call' = "until" => answer' = 0)
    BY <1>1, <1>2, <1>3, <1>8 DEF ManagerShape, Closed, GroupStarted
  <2>3. ManagerShape'
    BY <1>1, <1>2, <1>8, <2>1, <2>2 DEF ManagerShape
  <2>4. Closed'
    BY <1>2, <1>5, <2>2 DEF Closed
  <2>5. QED
    BY <1>6, <1>7, <2>1, <2>3, <2>4 DEF WpaInv
<1>9. CASE ~UNCHANGED group_interface
  <2>1. GroupStarted(d) /\ call' = "none" /\ group_interface' = d.n /\ answer' = d.n
        /\ d.what = "P2P-GROUP-STARTED"
    BY <1>3, <1>9 DEF GroupStarted
  <2>2. inbox # <<>> /\ d = Head(inbox) /\ inbox' = Tail(inbox) /\ inbox \in Seq(Letters)
    BY <1>1, <1>3, <2>1 DEF Recv, NoReply, ManagerShape
  <2>3. d.n = group /\ HasStarted(inbox) /\ ~HasStarted(inbox') /\ OnlyStarted(inbox', group)
        /\ inbox' \in Seq(Letters)
    BY <1>1, <1>2, <2>1, <2>2, TailStarted, AtHead DEF KnownIsUp
  <2>4. group # 0 /\ attached = sock /\ group \in Nat
    BY <1>1, <1>2, <2>3 DEF KnownIsUp, SupplicantShape
  <2>5. ManagerShape'
    BY <1>1, <1>2, <2>1, <2>3, <2>4 DEF ManagerShape
  <2>6. Closed'
    BY <1>2, <1>5, <2>1 DEF Closed
  <2>7. KnownIsUp'
    BY <1>2, <1>4, <2>1, <2>3, <2>4 DEF KnownIsUp
  <2>8. QED
    BY <1>6, <1>7, <2>5, <2>6, <2>7 DEF WpaInv
<1>10. QED
  BY <1>8, <1>9

\* A removal names the group that is up, or all.
LEMMA StopKeepsWpaInv ==
  ASSUME WpaInv, Stop
  PROVE  WpaInv' /\ ~GroupMayStay'
<1> DEFINE r == [cmd |-> "P2P_GROUP_REMOVE", n |-> calls', iface |-> group_interface, from |-> sock']
<1>1. ManagerShape /\ SupplicantShape /\ Closed /\ OnTheWay /\ KnownIsUp
  BY DEF WpaInv
<1>2. /\ call = "none" /\ sock # 0 /\ call' = "P2P_GROUP_REMOVE" /\ requests' = Append(requests, r)
      /\ UNCHANGED <<sock, calls, opened, inbox, group_interface, connected, reads, answer,
                     attached, group, forming, formed>>
  BY DEF Stop, Send
<1>3. r \in Requests /\ r.cmd = "P2P_GROUP_REMOVE" /\ r.iface = group_interface /\ r.from = sock
  BY <1>1, <1>2 DEF Requests, Commands, ManagerShape
<1>4. r.iface # 0 => r.iface = group /\ \A i \in 1..Len(requests) : requests[i].cmd # "P2P_GROUP_REMOVE"
  BY <1>1, <1>2, <1>3, Known DEF KnownIsUp
<1> HIDE DEF r
<1>5. ManagerShape' /\ Closed' /\ KnownIsUp'
  BY <1>1, <1>2 DEF ManagerShape, Commands, Closed, KnownIsUp
<1>6. SupplicantShape'
  <2>1. requests' \in Seq(Requests)
    BY <1>1, <1>2, <1>3, AtEnd DEF SupplicantShape
  <2>2. QED
    BY <1>1, <1>2, <2>1 DEF SupplicantShape
<1>7. OnTheWay'
  <2>1. sock = opened /\ requests \in Seq(Requests) /\ attached \in Nat /\ opened \in Nat
        /\ attached <= opened /\ InOrder(requests, attached, opened) /\ RemovalNames(requests, group)
    BY <1>1, <1>2 DEF OnTheWay, ManagerShape, SupplicantShape
  <2>2. InOrder(requests', attached, opened)
    BY <1>2, <1>3, <2>1, AppendInOrder
  <2>3. RemovalNames(requests', group)
    BY <1>2, <1>3, <1>4, <2>1, AppendRemovalNames
  <2>4. QED
    BY <1>1, <1>2, <2>2, <2>3 DEF OnTheWay
<1>8. ~GroupMayStay'
  <2>1. Takes(r, group)
    BY <1>3, <1>4 DEF Takes
  <2>2. ~Stays(requests', group, forming)
    BY <1>1, <1>2, <1>3, <2>1, AppendStays DEF SupplicantShape
  <2>3. GroupMayStay' <=> Stays(requests', group', forming')
    BY DEF GroupMayStay, RemovalFrom, Stays, TakenFrom, Takes
  <2>4. QED
    BY <1>2, <2>2, <2>3
<1>9. QED
  BY <1>5, <1>6, <1>7, <1>8 DEF WpaInv, NothingStays

\* A manager with no socket knows nothing.
LEMMA ForgettingKeepsWpaInv ==
  ASSUME WpaInv, Stopped \/ LoseManager
  PROVE  WpaInv'
<1>1. /\ sock' = 0 /\ inbox' = <<>> /\ group_interface' = 0 /\ call' = "none"
      /\ answer' \in {0, answer} /\ UNCHANGED <<opened, calls>>
      /\ UNCHANGED <<requests, attached, group, forming, formed>>
  BY DEF Stopped, LoseManager, supplicant
<1>2. ManagerShape' /\ SupplicantShape'
  BY <1>1, EmptySeq DEF WpaInv, ManagerShape, SupplicantShape
<1>3. OnTheWay'
  BY <1>1 DEF WpaInv, OnTheWay
<1>4. ~HasStarted(inbox') /\ OnlyStarted(inbox', group')
  BY <1>1 DEF HasStarted, OnlyStarted
<1>5. Closed' /\ NothingStays' /\ KnownIsUp'
  BY <1>1, <1>4 DEF Closed, NothingStays, KnownIsUp
<1>6. QED
  BY <1>2, <1>3, <1>5 DEF WpaInv

\* A datagram that is not a group event tells the manager nothing new.
Chatter == \/ UNCHANGED inbox
           \/ sock # 0 /\ \E d \in Letters : /\ d.what # "P2P-GROUP-STARTED"
                                           /\ inbox' = Append(inbox, d)

LEMMA ChatterKeepsStarted ==
  ASSUME WpaInv, Chatter, NEW g, OnlyStarted(inbox, g)
  PROVE  /\ inbox' \in Seq(Letters) /\ OnlyStarted(inbox', g)
         /\ HasStarted(inbox') => HasStarted(inbox)
         /\ sock = 0 => inbox' = inbox
<1>1. inbox \in Seq(Letters)
  BY DEF WpaInv, ManagerShape
<1>2. CASE UNCHANGED inbox
  BY <1>1, <1>2
<1>3. CASE ~UNCHANGED inbox
  <2>1. PICK d \in Letters : /\ sock # 0 /\ d.what # "P2P-GROUP-STARTED"
                             /\ inbox' = Append(inbox, d)
    BY <1>3 DEF Chatter
  <2>2. inbox' \in Seq(Letters)
    BY <1>1, <2>1, AtEnd
  <2>3. QED
    BY <1>1, <2>1, <2>2, AppendStarted
<1>4. QED
  BY <1>2, <1>3

\* What a request that is handled changes.
LEMMA Handled ==
  ASSUME WpaInv, HandleRequest
  PROVE  /\ requests # <<>> /\ requests' = Tail(requests) /\ Head(requests) \in Requests /\ Chatter
         /\ UNCHANGED <<sock, opened, group_interface, connected, call, calls, reads, answer, formed>>
         /\ \/ /\ UNCHANGED <<group, forming>> /\ ~Takes(Head(requests), group)
               /\ \/ UNCHANGED attached
                  \/ Head(requests).cmd = "ATTACH" /\ attached' = Head(requests).from
            \/ /\ Head(requests).cmd = "P2P_GROUP_ADD" /\ group = 0 /\ forming' = TRUE
               /\ UNCHANGED <<attached, group>>
            \/ /\ Head(requests).cmd = "P2P_GROUP_REMOVE" /\ group' = 0 /\ forming' = FALSE
               /\ UNCHANGED attached
<1> DEFINE r == Head(requests)
<1>1. requests # <<>> /\ requests \in Seq(Requests)
  BY DEF HandleRequest, WpaInv, SupplicantShape
<1>2. r \in Requests
  BY <1>1, AtHead
<1>3. /\ requests' = Tail(requests)
      /\ \/ r.cmd = "ATTACH" /\ Answer(r, "OK") /\ attached' = r.from /\ UNCHANGED <<group, forming>>
         \/ r.cmd = "P2P_GROUP_ADD" /\ Answer(r, "FAIL") /\ UNCHANGED <<attached, group, forming>>
         \/ /\ r.cmd = "P2P_GROUP_ADD" /\ group = 0 /\ ~forming /\ Answer(r, "OK")
            /\ forming' = TRUE /\ UNCHANGED <<attached, group>>
         \/ /\ r.cmd = "P2P_GROUP_REMOVE" /\ Names(r) /\ Answer(r, "OK") /\ group' = 0
            /\ forming' = FALSE /\ UNCHANGED attached
         \/ /\ r.cmd = "P2P_GROUP_REMOVE" /\ ~Names(r) /\ Answer(r, "FAIL")
            /\ UNCHANGED <<attached, group, forming>>
      /\ UNCHANGED <<sock, opened, group_interface, connected, call, calls, reads, answer, formed>>
  BY DEF HandleRequest
<1> HIDE DEF r
<1>4. ASSUME NEW what \in {"OK", "FAIL"}, Answer(r, what) PROVE Chatter
  <2>1. [what |-> what, re |-> r.cmd, n |-> r.n] \in Letters
    BY <1>2 DEF Letters, Requests
  <2>2. [what |-> what, re |-> r.cmd, n |-> r.n].what # "P2P-GROUP-STARTED"
    OBVIOUS
  <2>3. QED
    BY <1>4, <2>1, <2>2 DEF Answer, Deliver, Chatter
<1>5. Chatter
  BY <1>3, <1>4
<1>6. ~Takes(r, group) \/ (r.cmd = "P2P_GROUP_REMOVE" /\ Names(r))
  BY DEF Takes, Names
<1>7. QED
  BY <1>1, <1>2, <1>3, <1>5, <1>6 DEF r, Takes

\* wpa_supplicant forms no group that nobody may expect.
LEMMA SupplicantBringsNoGroup ==
  ASSUME WpaInv, Supplicant, ~GroupMayStay
  PROVE  ~GroupMayStay'
<1>1. ~Stays(requests, group, forming)
  BY MayStayIsStays
<1>2. GroupMayStay' <=> Stays(requests', group', forming')
  BY DEF GroupMayStay, RemovalFrom, Stays, TakenFrom, Takes
<1>3. requests \in Seq(Requests) /\ RemovalNames(requests, group) /\ (forming => group = 0)
  BY DEF WpaInv, SupplicantShape, OnTheWay
<1>4. CASE HandleRequest
  <2>1. requests # <<>> /\ requests' = Tail(requests)
    BY <1>4, Handled
  <2>2. CASE ~Takes(Head(requests), group) /\ UNCHANGED <<group, forming>>
    BY <1>1, <1>2, <1>3, <2>1, <2>2, TailStays
  <2>3. CASE Head(requests).cmd = "P2P_GROUP_ADD" /\ forming' = TRUE /\ UNCHANGED group
    <3>1. ~Takes(Head(requests), group)
      BY <2>3 DEF Takes
    <3>2. QED
      BY <1>1, <1>2, <1>3, <2>1, <2>3, <3>1, TailStays
  <2>4. CASE Head(requests).cmd = "P2P_GROUP_REMOVE" /\ group' = 0 /\ forming' = FALSE
    BY <1>1, <1>2, <1>3, <2>1, <2>4, TailStays
  <2>5. QED
    BY <1>4, <2>2, <2>3, <2>4, Handled
<1>5. CASE FormGroup
  <2>1. forming /\ group = 0 /\ forming' = FALSE /\ UNCHANGED requests
    BY <1>3, <1>5 DEF FormGroup
  <2>2. ~Stays(requests, 0, TRUE)
    BY <1>1, <2>1 DEF Stays
  <2>3. QED
    BY <1>2, <1>3, <2>1, <2>2, FormedStays
<1>6. CASE OtherEvent
  BY <1>1, <1>2, <1>6 DEF OtherEvent, supplicant
<1>7. QED
  BY <1>4, <1>5, <1>6 DEF Supplicant

LEMMA HandleRequestKeepsWpaInv ==
  ASSUME WpaInv, HandleRequest
  PROVE  WpaInv'
<1> DEFINE r == Head(requests)
<1>1. ManagerShape /\ SupplicantShape /\ Closed /\ OnTheWay /\ KnownIsUp
  BY DEF WpaInv
<1>2. /\ requests # <<>> /\ requests' = Tail(requests) /\ r \in Requests /\ Chatter
      /\ UNCHANGED <<sock, opened, group_interface, connected, call, calls, reads, answer, formed>>
      /\ UNCHANGED attached \/ (r.cmd = "ATTACH" /\ attached' = r.from)
      /\ \/ UNCHANGED <<group, forming>>
         \/ r.cmd = "P2P_GROUP_ADD" /\ group = 0 /\ group' = 0
         \/ r.cmd = "P2P_GROUP_REMOVE" /\ group' = 0 /\ forming' = FALSE
      /\ r.cmd = "P2P_GROUP_REMOVE" => ~Takes(r, group) \/ group' = 0
  BY Handled
<1>3. requests \in Seq(Requests) /\ Tail(requests) \in Seq(Requests)
  BY <1>1, <1>2, AtHead DEF SupplicantShape
<1>4. r.from \in Nat /\ attached \in Nat /\ opened \in Nat
  BY <1>1, <1>2 DEF Requests, SupplicantShape, ManagerShape
<1>5. /\ attached <= r.from /\ r.from <= opened
      /\ InOrder(Tail(requests), attached, opened) /\ InOrder(Tail(requests), r.from, opened)
  BY <1>1, <1>2, <1>3, <1>4, TailInOrder DEF OnTheWay
<1>6. RemovalNames(requests', group')
  <2>1. RemovalNames(Tail(requests), group)
    BY <1>1, <1>2, <1>3, TailRemovalNames DEF OnTheWay
  <2>2. CASE group' = group
    BY <1>2, <2>1, <2>2
  <2>3. CASE group' # group
    <3>1. r.cmd = "P2P_GROUP_REMOVE"
      BY <1>2, <2>3
    <3>2. \A j \in 1..Len(Tail(requests)) :
            Tail(requests)[j].cmd = "P2P_GROUP_REMOVE" => Tail(requests)[j].iface = 0
      BY <1>1, <1>2, <1>3, <3>1, TailRemovalNames DEF OnTheWay
    <3>3. QED
      BY <1>2, <3>2 DEF RemovalNames
  <2>4. QED
    BY <2>2, <2>3
<1>7. OnTheWay'
  <2>1. attached' <= opened' /\ InOrder(requests', attached', opened')
    BY <1>1, <1>2, <1>5 DEF OnTheWay
  <2>2. sock # 0 /\ call # "P2P_GROUP_REMOVE" => RemovalsBefore(requests', sock)
    BY <1>1, <1>2, <1>3, TailRemovalsBefore DEF OnTheWay
  <2>3. QED
    BY <1>1, <1>2, <1>6, <2>1, <2>2 DEF OnTheWay
<1>8. SupplicantShape'
  BY <1>1, <1>2, <1>3, <1>4 DEF SupplicantShape
<1>9. inbox' \in Seq(Letters) /\ (sock = 0 => inbox' = inbox)
  <2>1. CASE UNCHANGED inbox
    BY <1>1, <2>1 DEF ManagerShape
  <2>2. CASE ~UNCHANGED inbox
    BY <1>1, <1>2, <2>2, AtEnd DEF ManagerShape, Chatter
  <2>3. QED
    BY <2>1, <2>2
<1>10. ManagerShape' /\ Closed'
  BY <1>1, <1>2, <1>9 DEF ManagerShape, Closed
<1>11. KnownIsUp'
  <2> SUFFICES ASSUME call # "P2P_GROUP_REMOVE"
               PROVE  /\ group_interface # 0 =>
                           group_interface = group' /\ attached' = sock /\ ~HasStarted(inbox')
                      /\ HasStarted(inbox') => group' # 0 /\ attached' = sock
                      /\ OnlyStarted(inbox', group')
    BY <1>2 DEF KnownIsUp
  <2>1. OnlyStarted(inbox', group) /\ (HasStarted(inbox') => HasStarted(inbox))
    BY <1>1, <1>2, ChatterKeepsStarted DEF KnownIsUp
  <2>2. CASE group_interface # 0 \/ HasStarted(inbox)
    <3>1. /\ group # 0 /\ sock # 0 /\ attached = sock /\ sock = opened
          /\ \A i \in 1..Len(requests) : requests[i].cmd # "P2P_GROUP_REMOVE"
      BY <1>1, <2>2, Known DEF OnTheWay
    <3>2. r.cmd # "P2P_GROUP_REMOVE"
      BY <1>2, <1>3, <3>1, AtHead
    <3>3. r.from = sock
      BY <1>4, <1>5, <3>1
    <3>4. group' = group /\ attached' = sock
      BY <1>2, <3>1, <3>2, <3>3
    <3>5. QED
      BY <1>1, <2>1, <3>4 DEF KnownIsUp
  <2>3. CASE ~(group_interface # 0 \/ HasStarted(inbox))
    <3>1. ~HasStarted(inbox')
      BY <2>1, <2>3
    <3>2. OnlyStarted(inbox', group')
      BY <3>1 DEF HasStarted, OnlyStarted
    <3>3. QED
      BY <2>3, <3>1, <3>2
  <2>4. QED
    BY <2>2, <2>3
<1>12. NothingStays'
  BY <1>2, SupplicantBringsNoGroup DEF WpaInv, NothingStays, Supplicant
<1>13. QED
  BY <1>7, <1>8, <1>10, <1>11, <1>12 DEF WpaInv

\* The event of a group that forms is the only group event there is.
LEMMA FormGroupKeepsWpaInv ==
  ASSUME WpaInv, FormGroup
  PROVE  WpaInv'
<1>1. ManagerShape /\ SupplicantShape /\ Closed /\ OnTheWay /\ KnownIsUp
  BY DEF WpaInv
<1>2. /\ forming /\ group = 0 /\ forming' = FALSE
      /\ UNCHANGED <<sock, opened, group_interface, connected, call, calls, reads, answer,
                     requests, attached>>
  BY <1>1 DEF FormGroup, SupplicantShape
<1>3. call # "P2P_GROUP_REMOVE" => group_interface = 0 /\ ~HasStarted(inbox)
  BY <1>2, Known
<1>4. RemovalNames(requests, group')
  BY <1>1, <1>2 DEF OnTheWay, RemovalNames
<1>5. OnTheWay'
  BY <1>1, <1>2, <1>4 DEF OnTheWay
<1>6. NothingStays'
  BY <1>2, SupplicantBringsNoGroup DEF WpaInv, NothingStays, Supplicant
<1>7. CASE group' = formed' /\ formed' = formed + 1
           /\ Deliver(attached, "P2P-GROUP-STARTED", "event", group')
  <2> DEFINE d == [what |-> "P2P-GROUP-STARTED", re |-> "event", n |-> group']
  <2>1. group' \in Nat /\ formed' \in Nat /\ group' # 0 /\ group' = formed'
    BY <1>1, <1>7 DEF SupplicantShape
  <2>2. d \in Letters /\ d.what = "P2P-GROUP-STARTED" /\ d.n = group'
    BY <2>1 DEF Letters
  <2>3. \/ sock # 0 /\ attached = sock /\ inbox' = Append(inbox, d)
        \/ UNCHANGED inbox
    BY <1>7 DEF Deliver
  <2> HIDE DEF d
  <2>4. inbox \in Seq(Letters)
    BY <1>1 DEF ManagerShape
  <2>5. inbox' \in Seq(Letters)
    BY <2>2, <2>3, <2>4, AtEnd
  <2>6. SupplicantShape'
    BY <1>1, <1>2, <2>1 DEF SupplicantShape
  <2>7. ManagerShape' /\ Closed'
    BY <1>1, <1>2, <2>3, <2>5 DEF ManagerShape, Closed
  <2>8. KnownIsUp'
    <3>1. ASSUME call # "P2P_GROUP_REMOVE"
          PROVE  /\ HasStarted(inbox') => attached = sock
                 /\ OnlyStarted(inbox', group')
      <4>1. ~HasStarted(inbox) /\ OnlyStarted(inbox, group')
        BY <1>3, <3>1 DEF HasStarted, OnlyStarted
      <4>2. QED
        BY <2>2, <2>3, <2>4, <4>1, AppendStarted
    <3>2. QED
      BY <1>2, <1>3, <2>1, <3>1 DEF KnownIsUp
  <2>9. QED
    BY <1>5, <1>6, <2>6, <2>7, <2>8 DEF WpaInv
<1>8. CASE Deliver(attached, "other", "event", 0) /\ UNCHANGED <<group, formed>>
  <2> DEFINE d == [what |-> "other", re |-> "event", n |-> 0]
  <2>1. d \in Letters /\ d.what # "P2P-GROUP-STARTED"
    BY DEF Letters
  <2>2. Chatter
    BY <1>8, <2>1 DEF Deliver, Chatter
  <2>3. OnlyStarted(inbox, group) \/ call = "P2P_GROUP_REMOVE"
    BY <1>1 DEF KnownIsUp
  <2>4. SupplicantShape'
    BY <1>1, <1>2, <1>8 DEF SupplicantShape
  <2>5. inbox' \in Seq(Letters) /\ (sock = 0 => inbox' = inbox)
    <3>1. CASE UNCHANGED inbox
      BY <1>1, <3>1 DEF ManagerShape
    <3>2. CASE ~UNCHANGED inbox
      BY <1>1, <2>2, <3>2, AtEnd DEF ManagerShape, Chatter
    <3>3. QED
      BY <3>1, <3>2
  <2>6. ManagerShape' /\ Closed'
    BY <1>1, <1>2, <2>5 DEF ManagerShape, Closed
  <2>7. KnownIsUp'
    BY <1>1, <1>2, <1>8, <2>2, <2>3, ChatterKeepsStarted DEF KnownIsUp
  <2>8. QED
    BY <1>5, <1>6, <2>4, <2>6, <2>7 DEF WpaInv
<1>9. QED
  BY <1>7, <1>8 DEF FormGroup

LEMMA OtherEventKeepsWpaInv ==
  ASSUME WpaInv, OtherEvent
  PROVE  WpaInv'
<1> DEFINE d == [what |-> "other", re |-> "event", n |-> 0]
<1>1. ManagerShape /\ SupplicantShape /\ Closed /\ OnTheWay /\ KnownIsUp
  BY DEF WpaInv
<1>2. /\ attached # 0 /\ attached = sock
      /\ UNCHANGED <<sock, opened, group_interface, connected, call, calls, reads, answer>>
      /\ UNCHANGED <<requests, attached, group, forming, formed>>
  BY DEF OtherEvent, supplicant
<1>3. d \in Letters /\ d.what # "P2P-GROUP-STARTED"
  BY DEF Letters
<1>4. sock # 0 /\ inbox' = Append(inbox, d)
  BY <1>2 DEF OtherEvent, Deliver
<1>5. Chatter
  BY <1>3, <1>4 DEF Chatter
<1>6. inbox' \in Seq(Letters)
  BY <1>1, <1>3, <1>4, AtEnd DEF ManagerShape
<1>7. ManagerShape' /\ SupplicantShape' /\ Closed'
  BY <1>1, <1>2, <1>4, <1>6 DEF ManagerShape, SupplicantShape, Closed
<1>8. OnTheWay'
  BY <1>1, <1>2 DEF OnTheWay
<1>9. KnownIsUp'
  BY <1>1, <1>2, <1>5, ChatterKeepsStarted DEF KnownIsUp
<1>10. NothingStays'
  BY <1>2, SupplicantBringsNoGroup DEF WpaInv, NothingStays, Supplicant
<1>11. QED
  BY <1>7, <1>8, <1>9, <1>10 DEF WpaInv

LEMMA WpaStepInv ==
  ASSUME WpaInv, WpaStep
  PROVE  WpaInv'
<1>1. CASE UNCHANGED wpaVars
  BY <1>1 DEF wpaVars, manager, supplicant, WpaInv, ManagerShape, SupplicantShape, Closed,
              OnTheWay, KnownIsUp, NothingStays, GroupMayStay, RemovalFrom
<1>2. QED
  BY <1>1, StartKeepsWpaInv, AttachedKeepsWpaInv, ListeningKeepsWpaInv, StopKeepsWpaInv,
     ForgettingKeepsWpaInv, HandleRequestKeepsWpaInv, FormGroupKeepsWpaInv,
     OtherEventKeepsWpaInv
  DEF WpaStep, Converse, Supplicant

-----------------------------------------------------------------------------
\* The threads.

LEMMA Goes ==
  ASSUME DirectShape, NEW label
  PROVE  /\ GoTo("loop", label) => /\ at'["loop"] = label /\ at'["main"] = at["main"]
                                   /\ label \in LoopLabels =>
                                        at' \in [Threads -> LoopLabels \cup MainLabels]
         /\ GoTo("main", label) => /\ at'["main"] = label /\ at'["loop"] = at["loop"]
                                   /\ label \in MainLabels =>
                                        at' \in [Threads -> LoopLabels \cup MainLabels]
  BY DEF GoTo, DirectShape, Threads

\* DnsmasqDhcpServer is left alone by what is not in it.
LEMMA DhcpGoes ==
  ASSUME DirectShape, NEW from, NEW to
  PROVE  /\ DhcpStep("loop", from, to) =>
              /\ at["loop"] = from /\ GoTo("loop", to) /\ UNCHANGED <<wpaVars, joined, faults>>
              /\ overlapped' <=> overlapped \/ (InDhcp(to) /\ InDhcp(at["main"]))
         /\ DhcpStep("main", from, to) =>
              /\ at["main"] = from /\ GoTo("main", to) /\ UNCHANGED <<wpaVars, joined, faults>>
              /\ overlapped' <=> overlapped \/ (InDhcp(to) /\ InDhcp(at["loop"]))
<1>1. ASSUME DhcpStep("loop", from, to)
      PROVE  overlapped' <=> overlapped \/ (InDhcp(to) /\ InDhcp(at["main"]))
  <2>1. at'["loop"] = to /\ at'["main"] = at["main"]
    BY <1>1, Goes DEF DhcpStep
  <2>2. (\A u \in Threads : InDhcp(at'[u])) <=> InDhcp(to) /\ InDhcp(at["main"])
    BY <2>1 DEF Threads
  <2>3. QED
    BY <1>1, <2>2 DEF DhcpStep
<1>2. ASSUME DhcpStep("main", from, to)
      PROVE  overlapped' <=> overlapped \/ (InDhcp(to) /\ InDhcp(at["loop"]))
  <2>1. at'["main"] = to /\ at'["loop"] = at["loop"]
    BY <1>2, Goes DEF DhcpStep
  <2>2. (\A u \in Threads : InDhcp(at'[u])) <=> InDhcp(to) /\ InDhcp(at["loop"])
    BY <2>1 DEF Threads
  <2>3. QED
    BY <1>2, <2>2 DEF DhcpStep
<1>3. QED
  BY <1>1, <1>2 DEF DhcpStep

LEMMA WifiInitInv == Init => WifiInv
<1> SUFFICES ASSUME Init PROVE WifiInv
  OBVIOUS
<1>1. WpaInv
  BY WpaInitInv DEF Init
<1>2. /\ at = [loop |-> "idle", main |-> "running"] /\ joined = FALSE
      /\ pid = 0 /\ running = {} /\ signalled = {} /\ zombies = {}
      /\ told = 0 /\ overlapped = FALSE /\ crashes = 0 /\ deaths = 0
      /\ inbox = <<>> /\ call = "none"
  BY DEF Init, WpaInit
<1>3. at["loop"] = "idle" /\ at["main"] = "running" /\ at \in [Threads -> LoopLabels \cup MainLabels]
  BY <1>2 DEF Threads, LoopLabels, MainLabels
<1>4. DirectShape
  BY <1>2, <1>3 DEF DirectShape, LoopLabels, MainLabels
<1>5. InCall /\ AtTheEnd
  BY <1>2, <1>3 DEF InCall, AtTheEnd
<1>6. OneServer
  BY <1>2, <1>3 DEF OneServer, InDhcp, Children
<1>7. OneGroup
  <2>1. ~HasStarted(inbox)
    BY <1>2 DEF HasStarted
  <2>2. QED
    BY <1>2, <1>3, <2>1 DEF OneGroup, Children
<1>8. QED
  BY <1>1, <1>4, <1>5, <1>6, <1>7 DEF WifiInv, DirectInv

LEMMA HandleStartKeepsDirectInv ==
  ASSUME WifiInv, HandleStart
  PROVE  DirectInv'
<1>1. DirectShape /\ InCall /\ AtTheEnd /\ OneServer /\ OneGroup
  BY DEF WifiInv, DirectInv
<1>2. /\ at["loop"] = "idle" /\ at'["loop"] = "form" /\ at'["main"] = at["main"]
      /\ at' \in [Threads -> LoopLabels \cup MainLabels]
      /\ ~joined /\ call = "none" /\ call' = "ATTACH"
      /\ UNCHANGED <<inbox, group_interface, answer, group, formed>>
      /\ UNCHANGED <<pid, running, signalled, zombies, joined, told, overlapped, crashes, deaths>>
  BY <1>1, Goes DEF HandleStart, LoopRuns, StartP2pGroupOwner, Send, Elsewhere, dhcpVars, faults,
                    LoopLabels
<1>3. DirectShape'
  BY <1>1, <1>2 DEF DirectShape, LoopLabels, MainLabels
<1>4. InCall' /\ AtTheEnd'
  BY <1>1, <1>2 DEF InCall, AtTheEnd
<1>5. OneServer'
  BY <1>1, <1>2 DEF OneServer, InDhcp, Children
<1>6. OneGroup'
  BY <1>1, <1>2 DEF OneGroup, Children, Served
<1>7. QED
  BY <1>3, <1>4, <1>5, <1>6 DEF DirectInv

\* What a start comes to.
LEMMA StartResult ==
  ASSUME WpaInv, Converse
  PROVE  /\ call \in {"ATTACH", "P2P_GROUP_ADD", "until"}
         /\ call' \in {"P2P_GROUP_ADD", "until", "none"}
         /\ UNCHANGED <<group, formed, sock>> /\ (HasStarted(inbox') => HasStarted(inbox))
         /\ \/ UNCHANGED group_interface /\ (call' = "none" => answer' = 0)
            \/ /\ call' = "none" /\ answer' = group /\ group_interface' = group
               /\ group # 0 /\ HasStarted(inbox)
<1>1. ManagerShape /\ Closed /\ KnownIsUp
  BY DEF WpaInv
<1>2. /\ call \in {"ATTACH", "P2P_GROUP_ADD", "until"}
      /\ call' \in {"P2P_GROUP_ADD", "until", "none"} /\ UNCHANGED <<group, formed, sock>>
  BY DEF Converse, Attached, Send, Added, ReadUntil, StartFails, GroupStarted, ReadOn, supplicant
<1>3. PICK d \in Received :
        /\ Recv(d)
        /\ \/ UNCHANGED group_interface /\ (call' = "none" => answer' = 0)
           \/ GroupStarted(d)
  BY <1>1 DEF Converse, Attached, Send, Added, ReadUntil, StartFails, ReadOn, Closed
<1>4. inbox \in Seq(Letters) /\ OnlyStarted(inbox, group)
  BY <1>1, <1>2 DEF ManagerShape, KnownIsUp
<1>5. HasStarted(inbox') => HasStarted(inbox)
  BY <1>3, <1>4, TailStarted DEF Recv
<1>6. ASSUME GroupStarted(d)
      PROVE  /\ call' = "none" /\ answer' = group /\ group_interface' = group
             /\ group # 0 /\ HasStarted(inbox)
  <2>1. d.what = "P2P-GROUP-STARTED" /\ call' = "none" /\ group_interface' = d.n /\ answer' = d.n
    BY <1>6 DEF GroupStarted
  <2>2. inbox # <<>> /\ d = Head(inbox)
    BY <1>3, <2>1 DEF Recv, NoReply
  <2>3. d.n = group /\ HasStarted(inbox)
    BY <1>4, <2>1, <2>2, TailStarted
  <2>4. QED
    BY <1>1, <1>2, <2>1, <2>3 DEF KnownIsUp
<1>7. QED
  BY <1>2, <1>3, <1>5, <1>6

LEMMA FormKeepsDirectInv ==
  ASSUME WifiInv, Form
  PROVE  DirectInv'
<1>1. WpaInv /\ DirectShape /\ InCall /\ AtTheEnd /\ OneServer /\ OneGroup
  BY DEF WifiInv, DirectInv
<1>2. Converse /\ UNCHANGED <<pid, running, signalled, zombies, told, joined, overlapped, crashes, deaths>>
  BY DEF Form, Elsewhere, dhcpVars, faults
<1>3. /\ call \in {"ATTACH", "P2P_GROUP_ADD", "until"} /\ call' \in {"P2P_GROUP_ADD", "until", "none"}
      /\ UNCHANGED <<group, formed>> /\ (HasStarted(inbox') => HasStarted(inbox))
      /\ \/ UNCHANGED group_interface /\ (call' = "none" => answer' = 0)
         \/ /\ call' = "none" /\ answer' = group /\ group_interface' = group
            /\ group # 0 /\ HasStarted(inbox)
  BY <1>1, <1>2, StartResult
<1>4. at["loop"] = "form" /\ at["main"] # "removing"
  BY <1>1, <1>3 DEF InCall
<1>5. told # 0 /\ at["main"] = "running" => ~HasStarted(inbox)
  BY <1>1, <1>3 DEF OneGroup, KnownIsUp, WpaInv
<1>6. CASE call' # "none"
  <2>1. UNCHANGED at
    BY <1>6 DEF Form
  <2>2. DirectShape' /\ InCall' /\ AtTheEnd'
    BY <1>1, <1>2, <1>3, <1>4, <1>6, <2>1 DEF DirectShape, InCall, AtTheEnd
  <2>3. OneServer'
    BY <1>1, <1>2, <1>4, <2>1 DEF OneServer, Children
  <2>4. OneGroup'
    BY <1>1, <1>2, <1>3, <1>4, <1>6, <2>1 DEF OneGroup, Children, Served
  <2>5. QED
    BY <2>2, <2>3, <2>4 DEF DirectInv
<1>7. CASE call' = "none"
  <2>1. /\ at'["loop"] = IF answer' = 0 THEN "idle" ELSE "serve"
        /\ at'["main"] = at["main"] /\ at' \in [Threads -> LoopLabels \cup MainLabels]
    BY <1>1, <1>7, Goes DEF Form, LoopLabels
  <2>2. DirectShape' /\ InCall' /\ AtTheEnd'
    BY <1>1, <1>2, <1>3, <1>4, <1>7, <2>1 DEF DirectShape, InCall, AtTheEnd, LoopLabels
  <2>3. OneServer'
    BY <1>1, <1>2, <1>4, <2>1 DEF OneServer, InDhcp, Children
  <2>4. ASSUME answer' = 0 PROVE OneGroup'
    <3>1. at'["loop"] = "idle" /\ UNCHANGED group_interface
      BY <1>3, <1>7, <2>1, <2>4
    <3> SUFFICES ASSUME at["main"] = "running" PROVE OneGroup'
      BY <2>1 DEF OneGroup
    <3>2. told # 0 => group_interface = told /\ pid = told /\ Served(told)
      BY <1>1 DEF OneGroup
    <3>3. HasStarted(inbox') => group \notin Children
      BY <1>1, <1>3 DEF OneGroup
    <3>4. Served(told)' <=> Served(told)
      BY <1>2 DEF Served
    <3>5. ~overlapped /\ Children' = Children /\ Children \subseteq 1..formed
      BY <1>1, <1>2 DEF OneGroup, Children
    <3>6. QED
      BY <1>2, <1>3, <2>1, <3>1, <3>2, <3>3, <3>4, <3>5 DEF OneGroup
  <2>5. ASSUME answer' # 0 PROVE OneGroup'
    <3>1. /\ at'["loop"] = "serve" /\ answer' = group /\ group_interface' = group
          /\ HasStarted(inbox) /\ call # "P2P_GROUP_REMOVE"
      BY <1>3, <1>7, <2>1, <2>5
    <3> SUFFICES ASSUME at["main"] = "running" PROVE OneGroup'
      BY <2>1 DEF OneGroup
    <3>2. told = 0 /\ group \notin Children
      BY <1>1, <1>5, <3>1 DEF OneGroup
    <3>3. ~overlapped /\ Children' = Children /\ Children \subseteq 1..formed
      BY <1>1, <1>2 DEF OneGroup, Children
    <3>4. QED
      BY <1>2, <1>3, <1>7, <2>1, <3>1, <3>2, <3>3 DEF OneGroup
  <2>6. QED
    BY <2>2, <2>3, <2>4, <2>5 DEF DirectInv
<1>8. QED
  BY <1>6, <1>7

LEMMA ServeKeepsDirectInv ==
  ASSUME WifiInv, Serve
  PROVE  DirectInv'
<1>1. WpaInv /\ DirectShape /\ InCall /\ AtTheEnd /\ OneServer /\ OneGroup
  BY DEF WifiInv, DirectInv
<1>2. /\ at["loop"] = "serve" /\ UNCHANGED <<wpaVars, joined, faults, told, pid, signalled, zombies>>
      /\ \/ /\ GoTo("loop", "started") /\ pid = 0 /\ running' = running \cup {answer}
            /\ overlapped' <=> overlapped \/ InDhcp(at["main"])
         \/ /\ GoTo("loop", "remove") /\ UNCHANGED running
            /\ overlapped' <=> overlapped
  BY <1>1, DhcpGoes DEF Serve, dhcpVars, InDhcp
<1>3. UNCHANGED <<inbox, call, group_interface, answer, group, formed, crashes, deaths>>
  BY <1>2 DEF wpaVars, manager, supplicant, faults
<1>4. ~joined /\ answer # 0
  BY <1>1, <1>2 DEF AtTheEnd, InCall
<1>5. CASE GoTo("loop", "remove") /\ UNCHANGED running
  <2>1. /\ at'["loop"] = "remove" /\ at'["main"] = at["main"]
        /\ at' \in [Threads -> LoopLabels \cup MainLabels] /\ (overlapped' <=> overlapped)
    BY <1>1, <1>2, <1>5, Goes DEF LoopLabels
  <2>2. DirectShape' /\ InCall' /\ AtTheEnd'
    BY <1>1, <1>2, <1>3, <1>4, <1>5, <2>1 DEF DirectShape, InCall, AtTheEnd, LoopLabels
  <2>3. OneServer'
    BY <1>1, <1>2, <1>3, <1>5, <2>1 DEF OneServer, InDhcp, Children
  <2>4. OneGroup'
    BY <1>1, <1>2, <1>3, <1>5, <2>1 DEF OneGroup, Children, Served
  <2>5. QED
    BY <2>2, <2>3, <2>4 DEF DirectInv
<1>6. CASE GoTo("loop", "started") /\ pid = 0 /\ running' = running \cup {answer}
  <2>1. /\ at'["loop"] = "started" /\ at'["main"] = at["main"]
        /\ at' \in [Threads -> LoopLabels \cup MainLabels]
        /\ overlapped' <=> overlapped \/ InDhcp(at["main"])
    BY <1>1, <1>2, <1>6, Goes DEF LoopLabels, InDhcp
  <2>2. DirectShape' /\ InCall' /\ AtTheEnd'
    BY <1>1, <1>2, <1>3, <1>4, <1>6, <2>1 DEF DirectShape, InCall, AtTheEnd, LoopLabels
  <2>3. OneServer'
    BY <1>1, <1>2, <1>3, <1>6, <2>1 DEF OneServer, InDhcp, Children
  <2>4. OneGroup'
    <3> SUFFICES ASSUME at["main"] = "running" PROVE OneGroup'
      BY <2>1 DEF OneGroup
    <3>1. /\ ~overlapped /\ told = 0 /\ group_interface = answer /\ call = "none"
          /\ answer \notin Children /\ Children \subseteq 1..formed
      BY <1>1, <1>2 DEF OneGroup
    <3>2. answer = group /\ ~HasStarted(inbox)
      BY <1>1, <1>4, <3>1 DEF WpaInv, KnownIsUp
    <3>3. answer \in 1..formed
      BY <1>1, <1>4, <3>2 DEF WpaInv, SupplicantShape
    <3>4. answer \notin signalled
      BY <1>1, <3>1 DEF DirectShape, Children
    <3>5. Children' = Children \cup {answer}
      BY <1>2, <1>6 DEF Children
    <3>6. Served(answer)'
      BY <1>2, <1>3, <1>6, <3>4 DEF Served
    <3>7. QED
      BY <1>2, <1>3, <2>1, <3>1, <3>2, <3>3, <3>5, <3>6 DEF OneGroup, InDhcp
  <2>5. QED
    BY <2>2, <2>3, <2>4 DEF DirectInv
<1>7. QED
  BY <1>2, <1>5, <1>6

LEMMA StartedKeepsDirectInv ==
  ASSUME WifiInv, Started
  PROVE  DirectInv'
<1>1. WpaInv /\ DirectShape /\ InCall /\ AtTheEnd /\ OneServer /\ OneGroup
  BY DEF WifiInv, DirectInv
<1>2. /\ at["loop"] = "started" /\ UNCHANGED <<wpaVars, joined, faults, told, running, signalled, zombies>>
      /\ GoTo("loop", "confirm") /\ pid' = answer /\ (overlapped' <=> overlapped)
  BY <1>1, DhcpGoes DEF Started, InDhcp
<1>3. UNCHANGED <<inbox, call, group_interface, answer, group, formed, crashes, deaths>>
  BY <1>2 DEF wpaVars, manager, supplicant, faults
<1>4. ~joined /\ answer # 0 /\ answer \in Nat
  BY <1>1, <1>2 DEF AtTheEnd, InCall, WpaInv, ManagerShape
<1>5. /\ at'["loop"] = "confirm" /\ at'["main"] = at["main"]
      /\ at' \in [Threads -> LoopLabels \cup MainLabels]
  BY <1>1, <1>2, Goes DEF LoopLabels
<1>6. DirectShape' /\ InCall' /\ AtTheEnd'
  BY <1>1, <1>2, <1>3, <1>4, <1>5 DEF DirectShape, InCall, AtTheEnd, LoopLabels
<1>7. OneServer'
  BY <1>1, <1>2, <1>3, <1>4, <1>5 DEF OneServer, InDhcp, Children
<1>8. OneGroup'
  BY <1>1, <1>2, <1>3, <1>5 DEF OneGroup, Children, Served
<1>9. QED
  BY <1>6, <1>7, <1>8 DEF DirectInv

\* The handlers that touch neither the manager nor the DHCP server.
LEMMA HandlersKeepDirectInv ==
  ASSUME WifiInv, Confirm \/ Preview \/ HandleStop
  PROVE  DirectInv'
<1>1. WpaInv /\ DirectShape /\ InCall /\ AtTheEnd /\ OneServer /\ OneGroup
  BY DEF WifiInv, DirectInv
<1>2. /\ at["loop"] \in {"confirm", "preview", "idle"} /\ ~joined
      /\ \/ GoTo("loop", "idle") /\ at["loop"] = "preview" /\ told' = answer
         \/ GoTo("loop", "preview") /\ at["loop"] = "confirm" /\ told' = told
         \/ GoTo("loop", "kill") /\ at["loop"] = "confirm" /\ told' = told
         \/ GoTo("loop", "kill") /\ told' = 0
      /\ UNCHANGED <<wpaVars, pid, running, signalled, zombies, joined, overlapped, faults>>
  BY <1>1 DEF Confirm, Preview, HandleStop, LoopRuns, Elsewhere, dhcpVars, AtTheEnd
<1>3. UNCHANGED <<inbox, call, group_interface, answer, group, formed, crashes, deaths>>
  BY <1>2 DEF wpaVars, manager, supplicant, faults
<1>4. /\ at'["loop"] \in {"idle", "preview", "kill"} /\ at'["main"] = at["main"]
      /\ at' \in [Threads -> LoopLabels \cup MainLabels]
      /\ at'["loop"] = "idle" => told' = answer /\ at["loop"] = "preview"
      /\ at'["loop"] = "preview" => told' = told /\ at["loop"] = "confirm"
      /\ at'["loop"] = "kill" => told' = 0 \/ (at["loop"] = "confirm" /\ told' = told)
  BY <1>1, <1>2, Goes DEF LoopLabels, DhcpStop
<1>5. told' \in Nat
  BY <1>1, <1>2 DEF DirectShape, WpaInv, ManagerShape
<1>6. DirectShape' /\ InCall' /\ AtTheEnd'
  BY <1>1, <1>2, <1>3, <1>4, <1>5 DEF DirectShape, InCall, AtTheEnd, LoopLabels, DhcpStop
<1>7. OneServer'
  BY <1>1, <1>2, <1>3, <1>4 DEF OneServer, InDhcp, Children
<1>8. OneGroup'
  <2>1. CASE at'["loop"] = "idle"
    BY <1>1, <1>2, <1>3, <1>4, <2>1 DEF OneGroup, Children, Served
  <2>2. CASE at'["loop"] = "preview"
    BY <1>1, <1>2, <1>3, <1>4, <2>2 DEF OneGroup, Children, Served
  <2>3. CASE at'["loop"] = "kill"
    BY <1>1, <1>2, <1>3, <1>4, <2>3 DEF OneGroup, Children, Served
  <2>4. QED
    BY <1>4, <2>1, <2>2, <2>3
<1>9. QED
  BY <1>6, <1>7, <1>8 DEF DirectInv

LEMMA RemovalKeepsDirectInv ==
  ASSUME WifiInv, NEW t \in Threads, AskRemoval(t) \/ Removed(t)
  PROVE  DirectInv'
<1>1. WpaInv /\ DirectShape /\ InCall /\ AtTheEnd /\ OneServer /\ OneGroup
  BY DEF WifiInv, DirectInv
<1>2. /\ UNCHANGED <<answer, group, formed>> /\ at[t] \in {"remove", "removing"}
      /\ UNCHANGED <<pid, running, signalled, zombies, joined, told, overlapped, crashes, deaths>>
      /\ \/ /\ GoTo(t, "removing") /\ call = "none" /\ call' = "P2P_GROUP_REMOVE"
         \/ /\ GoTo(t, AfterRemove(t)) /\ at[t] = "remove" /\ call = "none" /\ call' = "none"
            /\ UNCHANGED <<inbox, group_interface>>
         \/ /\ GoTo(t, AfterRemove(t)) /\ at[t] = "removing" /\ call = "P2P_GROUP_REMOVE"
            /\ call' = "none" /\ inbox' = <<>> /\ group_interface' = 0
  BY DEF AskRemoval, Removed, Stop, Send, Stopped, Elsewhere, dhcpVars, faults, wpaVars,
         manager, supplicant
<1>3. ~HasStarted(<<>>)
  BY DEF HasStarted
<1>4. CASE t = "loop"
  <2>1. /\ at["loop"] \in {"remove", "removing"} /\ at'["main"] = at["main"] /\ ~joined
        /\ at' \in [Threads -> LoopLabels \cup MainLabels]
        /\ \/ at'["loop"] = "removing" /\ call = "none" /\ call' = "P2P_GROUP_REMOVE"
           \/ /\ at'["loop"] = "idle" /\ at["loop"] = "remove" /\ call = "none" /\ call' = "none"
              /\ UNCHANGED <<inbox, group_interface>>
           \/ /\ at'["loop"] = "idle" /\ at["loop"] = "removing" /\ call = "P2P_GROUP_REMOVE"
              /\ call' = "none" /\ inbox' = <<>> /\ group_interface' = 0
    BY <1>1, <1>2, <1>4, Goes DEF AfterRemove, LoopLabels, AtTheEnd
  <2>2. DirectShape' /\ InCall' /\ AtTheEnd'
    BY <1>1, <1>2, <2>1 DEF DirectShape, InCall, AtTheEnd, LoopLabels
  <2>3. OneServer'
    BY <1>1, <1>2, <2>1 DEF OneServer, InDhcp, Children
  <2>4. OneGroup'
    <3> SUFFICES ASSUME at["main"] = "running" PROVE OneGroup'
      BY <2>1 DEF OneGroup
    <3>1. /\ told = 0 /\ ~overlapped /\ Children \subseteq 1..formed /\ Children' = Children
          /\ HasStarted(inbox) /\ call # "P2P_GROUP_REMOVE" => group \notin Children
      BY <1>1, <1>2, <2>1 DEF OneGroup, Children
    <3>2. HasStarted(inbox') /\ call' # "P2P_GROUP_REMOVE" => group \notin Children
      BY <1>3, <2>1, <3>1
    <3>3. QED
      BY <1>2, <2>1, <3>1, <3>2 DEF OneGroup
  <2>5. QED
    BY <2>2, <2>3, <2>4 DEF DirectInv
<1>5. CASE t = "main"
  <2>1. /\ at["main"] \in {"remove", "removing"} /\ at'["loop"] = at["loop"] /\ ~joined
        /\ at' \in [Threads -> LoopLabels \cup MainLabels]
        /\ \/ at'["main"] = "removing" /\ call = "none" /\ call' = "P2P_GROUP_REMOVE"
           \/ at'["main"] = "leave" /\ at["main"] = "remove" /\ call = "none" /\ call' = "none"
           \/ at'["main"] = "leave" /\ at["main"] = "removing" /\ call = "P2P_GROUP_REMOVE"
              /\ call' = "none"
    BY <1>1, <1>2, <1>5, Goes DEF AfterRemove, MainLabels, AtTheEnd, DhcpStop
  <2>2. DirectShape' /\ InCall' /\ AtTheEnd'
    BY <1>1, <1>2, <2>1 DEF DirectShape, InCall, AtTheEnd, MainLabels
  <2>3. OneServer'
    BY <1>1, <1>2, <2>1 DEF OneServer, InDhcp, Children
  <2>4. OneGroup'
    BY <2>1 DEF OneGroup
  <2>5. QED
    BY <2>2, <2>3, <2>4 DEF DirectInv
<1>6. QED
  BY <1>4, <1>5 DEF Threads

\* DnsmasqDhcpServer::Stop, on either thread.
LEMMA DhcpStopOnLoop ==
  ASSUME WifiInv, Kill("loop") \/ Reap("loop") \/ Clear("loop")
  PROVE  DirectInv'
<1>1. WpaInv /\ DirectShape /\ InCall /\ AtTheEnd /\ OneServer /\ OneGroup
  BY DEF WifiInv, DirectInv
<1>2. at["loop"] \in DhcpStop /\ ~joined
  BY <1>1, DhcpGoes DEF Kill, Reap, Clear, AtTheEnd, DhcpStop
<1>3. /\ UNCHANGED <<wpaVars, joined, faults, told, running>>
      /\ \/ /\ at["loop"] = "kill" /\ GoTo("loop", "reap") /\ pid # 0 /\ UNCHANGED <<pid, zombies>>
            /\ signalled' = signalled \cup ({pid} \cap running)
            /\ overlapped' <=> overlapped \/ InDhcp(at["main"])
         \/ /\ at["loop"] = "kill" /\ GoTo("loop", "remove") /\ UNCHANGED <<pid, zombies, signalled>>
            /\ overlapped' <=> overlapped
         \/ /\ at["loop"] = "reap" /\ GoTo("loop", "clear") /\ UNCHANGED <<pid, signalled>>
            /\ \/ pid # 0 /\ pid \notin running /\ zombies' = zombies \ {pid}
               \/ pid = 0 /\ zombies' \subseteq zombies
            /\ overlapped' <=> overlapped \/ InDhcp(at["main"])
         \/ /\ at["loop"] = "clear" /\ GoTo("loop", "remove") /\ UNCHANGED <<zombies, signalled>>
            /\ pid' = 0 /\ (overlapped' <=> overlapped)
  BY <1>1, <1>2, DhcpGoes DEF Kill, Reap, Clear, AfterDhcpStop, InDhcp, dhcpVars
<1>4. UNCHANGED <<inbox, call, group_interface, answer, group, formed, crashes, deaths>>
  BY <1>3 DEF wpaVars, manager, supplicant, faults
<1>5. /\ at'["loop"] \in {"reap", "remove", "clear"} /\ at'["main"] = at["main"]
      /\ at' \in [Threads -> LoopLabels \cup MainLabels]
  BY <1>1, <1>3, Goes DEF LoopLabels, DhcpStop
<1>6. DirectShape'
  BY <1>1, <1>3, <1>4, <1>5 DEF DirectShape, LoopLabels, DhcpStop
<1>7. InCall' /\ AtTheEnd'
  BY <1>1, <1>2, <1>3, <1>4, <1>5 DEF InCall, AtTheEnd, DhcpStop
<1>8. OneServer'
  <2>1. CASE /\ at["loop"] = "kill" /\ GoTo("loop", "reap") /\ pid # 0 /\ UNCHANGED <<pid, zombies>>
             /\ overlapped' <=> overlapped \/ InDhcp(at["main"])
    <3>1. at'["loop"] = "reap"
      BY <1>1, <2>1, Goes
    <3>2. QED
      BY <1>1, <1>3, <1>4, <1>5, <2>1, <3>1 DEF OneServer, InDhcp, Children
  <2>2. CASE at["loop"] = "kill" /\ GoTo("loop", "remove")
    <3>1. at'["loop"] = "remove"
      BY <1>1, <2>2, Goes
    <3>2. QED
      BY <1>1, <1>3, <1>4, <1>5, <2>2, <3>1 DEF OneServer, InDhcp, Children
  <2>3. CASE at["loop"] = "reap" /\ GoTo("loop", "clear")
    <3>1. at'["loop"] = "clear"
      BY <1>1, <2>3, Goes
    <3>2. ~overlapped' => ~InDhcp(at["main"]) /\ pid # 0 /\ Children = {pid}
      BY <1>1, <1>3, <2>3 DEF OneServer, InDhcp
    <3>3. ~overlapped' => Children' = {}
      BY <1>3, <2>3, <3>2 DEF Children
    <3>4. QED
      BY <1>3, <1>4, <1>5, <3>1, <3>2, <3>3 DEF OneServer, InDhcp
  <2>4. CASE at["loop"] = "clear" /\ GoTo("loop", "remove")
    <3>1. at'["loop"] = "remove"
      BY <1>1, <2>4, Goes
    <3>2. QED
      BY <1>1, <1>3, <1>4, <1>5, <2>4, <3>1 DEF OneServer, InDhcp, Children
  <2>5. QED
    BY <1>3, <2>1, <2>2, <2>3, <2>4
<1>9. OneGroup'
  <2> SUFFICES ASSUME at["main"] = "running" PROVE OneGroup'
    BY <1>5 DEF OneGroup
  <2>1. /\ told = 0 /\ ~overlapped' /\ Children \subseteq 1..formed
        /\ HasStarted(inbox) /\ call # "P2P_GROUP_REMOVE" => group \notin Children
    BY <1>1, <1>2, <1>3 DEF OneGroup, InDhcp, DhcpStop
  <2>2. Children' \subseteq Children
    BY <1>3 DEF Children
  <2>3. QED
    BY <1>3, <1>4, <1>5, <2>1, <2>2 DEF OneGroup
<1>10. QED
  BY <1>6, <1>7, <1>8, <1>9 DEF DirectInv

LEMMA DhcpStopOnMain ==
  ASSUME WifiInv, Kill("main") \/ Reap("main") \/ Clear("main")
  PROVE  DirectInv'
<1>1. WpaInv /\ DirectShape /\ InCall /\ AtTheEnd /\ OneServer /\ OneGroup
  BY DEF WifiInv, DirectInv
<1>2. /\ UNCHANGED <<wpaVars, joined, faults, told, running>>
      /\ \/ /\ at["main"] = "kill" /\ GoTo("main", "reap") /\ pid # 0 /\ UNCHANGED <<pid, zombies>>
            /\ signalled' = signalled \cup ({pid} \cap running)
            /\ overlapped' <=> overlapped \/ InDhcp(at["loop"])
         \/ /\ at["main"] = "kill" /\ GoTo("main", AfterDhcpStop) /\ pid = 0
            /\ UNCHANGED <<pid, zombies, signalled>>
            /\ overlapped' <=> overlapped
         \/ /\ at["main"] = "reap" /\ GoTo("main", "clear") /\ UNCHANGED <<pid, signalled>>
            /\ \/ pid # 0 /\ pid \notin running /\ zombies' = zombies \ {pid}
               \/ pid = 0 /\ zombies' \subseteq zombies
            /\ overlapped' <=> overlapped \/ InDhcp(at["loop"])
         \/ /\ at["main"] = "clear" /\ GoTo("main", AfterDhcpStop) /\ UNCHANGED <<zombies, signalled>>
            /\ pid' = 0 /\ (overlapped' <=> overlapped)
  BY <1>1, DhcpGoes DEF Kill, Reap, Clear, AfterDhcpStop, InDhcp, dhcpVars
<1>3. UNCHANGED <<inbox, call, group_interface, answer, group, formed, crashes, deaths>>
  BY <1>2 DEF wpaVars, manager, supplicant, faults
<1>4. /\ at'["main"] \in {"reap", "remove", "clear", "ended"} /\ at'["loop"] = at["loop"]
      /\ at' \in [Threads -> LoopLabels \cup MainLabels]
      /\ at'["main"] = "remove" => ~joined
      /\ at'["main"] = "ended" => joined /\ pid' = 0
      /\ at["main"] \in DhcpStop
  BY <1>1, <1>2, Goes DEF MainLabels, DhcpStop, AfterDhcpStop
<1>5. DirectShape'
  BY <1>1, <1>2, <1>3, <1>4 DEF DirectShape, MainLabels, DhcpStop
<1>6. InCall' /\ AtTheEnd'
  BY <1>1, <1>2, <1>3, <1>4 DEF InCall, AtTheEnd, DhcpStop
<1>7. OneServer'
  <2>1. CASE /\ at["main"] = "kill" /\ GoTo("main", "reap") /\ pid # 0 /\ UNCHANGED <<pid, zombies>>
             /\ overlapped' <=> overlapped \/ InDhcp(at["loop"])
    <3>1. at'["main"] = "reap"
      BY <1>1, <2>1, Goes
    <3>2. QED
      BY <1>1, <1>2, <1>3, <1>4, <2>1, <3>1 DEF OneServer, InDhcp, Children
  <2>2. CASE at["main"] = "kill" /\ GoTo("main", AfterDhcpStop)
    <3>1. at'["main"] \in {"remove", "ended"}
      BY <1>1, <2>2, Goes DEF AfterDhcpStop
    <3>2. QED
      BY <1>1, <1>2, <1>3, <1>4, <2>2, <3>1 DEF OneServer, InDhcp, Children
  <2>3. CASE at["main"] = "reap" /\ GoTo("main", "clear")
    <3>1. at'["main"] = "clear"
      BY <1>1, <2>3, Goes
    <3>2. ~overlapped' => ~InDhcp(at["loop"]) /\ pid # 0 /\ Children = {pid}
      BY <1>1, <1>2, <2>3 DEF OneServer, InDhcp
    <3>3. ~overlapped' => Children' = {}
      BY <1>2, <2>3, <3>2 DEF Children
    <3>4. QED
      BY <1>2, <1>3, <1>4, <3>1, <3>2, <3>3 DEF OneServer, InDhcp
  <2>4. CASE at["main"] = "clear" /\ GoTo("main", AfterDhcpStop)
    <3>1. at'["main"] \in {"remove", "ended"}
      BY <1>1, <2>4, Goes DEF AfterDhcpStop
    <3>2. QED
      BY <1>1, <1>2, <1>3, <1>4, <2>4, <3>1 DEF OneServer, InDhcp, Children
  <2>5. QED
    BY <1>2, <2>1, <2>2, <2>3, <2>4
<1>8. OneGroup'
  BY <1>4 DEF OneGroup
<1>9. QED
  BY <1>5, <1>6, <1>7, <1>8 DEF DirectInv

LEMMA ShutdownKeepsDirectInv ==
  ASSUME WifiInv, \/ OnDisconnect \/ SkipCleanup \/ TeardownWifiDirect
                  \/ LeaveLoop \/ JoinLoop
  PROVE  DirectInv'
<1>1. WpaInv /\ DirectShape /\ InCall /\ AtTheEnd /\ OneServer /\ OneGroup
  BY DEF WifiInv, DirectInv
<1>2. /\ UNCHANGED <<wpaVars, pid, running, signalled, zombies, overlapped, faults>> /\ told' \in {0, told}
      /\ \/ at["main"] = "running" /\ GoTo("main", "streams") /\ UNCHANGED joined
         \/ at["main"] = "running" /\ GoTo("main", "leave") /\ UNCHANGED joined
         \/ at["main"] = "streams" /\ GoTo("main", "kill") /\ UNCHANGED joined
         \/ at["main"] = "leave" /\ GoTo("main", "join") /\ UNCHANGED joined
         \/ at["main"] = "join" /\ GoTo("main", "kill") /\ joined' = TRUE /\ at["loop"] = "idle"
  BY DEF OnDisconnect, SkipCleanup, TeardownWifiDirect, LeaveLoop, JoinLoop, Elsewhere, dhcpVars
<1>3. UNCHANGED <<inbox, call, group_interface, answer, group, formed, crashes, deaths>>
  BY <1>2 DEF wpaVars, manager, supplicant, faults
<1>4. /\ at["main"] \in {"running", "streams", "leave", "join"}
      /\ at'["main"] \in {"streams", "leave", "kill", "join"}
      /\ at'["loop"] = at["loop"] /\ at' \in [Threads -> LoopLabels \cup MainLabels]
      /\ joined' => at'["main"] = "kill" /\ at["loop"] = "idle"
  BY <1>1, <1>2, Goes DEF MainLabels, DhcpStop, AtTheEnd
<1>5. DirectShape' /\ InCall' /\ AtTheEnd'
  BY <1>1, <1>2, <1>3, <1>4 DEF DirectShape, InCall, AtTheEnd, MainLabels, DhcpStop
<1>6. OneServer'
  BY <1>1, <1>2, <1>3, <1>4 DEF OneServer, InDhcp, Children
<1>7. OneGroup'
  BY <1>4 DEF OneGroup
<1>8. QED
  BY <1>5, <1>6, <1>7 DEF DirectInv

LEMMA CrashKeepsDirectInv ==
  ASSUME WifiInv, CrashAndRestart
  PROVE  DirectInv'
<1>1. /\ at' = [loop |-> "idle", main |-> "running"] /\ joined' = FALSE
      /\ pid' = 0 /\ running' = {} /\ signalled' = {} /\ zombies' = {} /\ told' = 0
      /\ overlapped' = FALSE /\ deaths' = deaths /\ crashes' = crashes + 1
      /\ inbox' = <<>> /\ call' = "none"
  BY DEF CrashAndRestart, LoseManager
<1>2. at'["loop"] = "idle" /\ at'["main"] = "running" /\ at' \in [Threads -> LoopLabels \cup MainLabels]
  BY <1>1 DEF Threads, LoopLabels, MainLabels
<1>3. DirectShape'
  BY <1>1, <1>2 DEF WifiInv, DirectInv, DirectShape, LoopLabels, MainLabels
<1>4. InCall' /\ AtTheEnd'
  BY <1>1, <1>2 DEF InCall, AtTheEnd
<1>5. OneServer'
  BY <1>1, <1>2 DEF OneServer, InDhcp, Children
<1>6. ~HasStarted(inbox')
  BY <1>1 DEF HasStarted
<1>7. OneGroup'
  BY <1>1, <1>2, <1>6 DEF OneGroup, Children
<1>8. QED
  BY <1>3, <1>4, <1>5, <1>7 DEF DirectInv

LEMMA DnsmasqKeepsDirectInv ==
  ASSUME WifiInv, DnsmasqObeys \/ DnsmasqDies
  PROVE  DirectInv'
<1>1. WpaInv /\ DirectShape /\ InCall /\ AtTheEnd /\ OneServer /\ OneGroup
  BY DEF WifiInv, DirectInv
<1>2. PICK d \in running : DnsmasqEnds(d) /\ \/ d \in signalled /\ deaths' = deaths
                                             \/ d \notin signalled /\ deaths' = deaths + 1
  BY <1>1 DEF DnsmasqObeys, DnsmasqDies, DirectShape
<1>3. /\ running' = running \ {d} /\ signalled' = signalled \ {d} /\ zombies' = zombies \cup {d}
      /\ UNCHANGED <<at, joined, pid, told, overlapped, crashes>>
      /\ UNCHANGED <<inbox, call, group_interface, answer, group, formed>>
  BY <1>2 DEF DnsmasqEnds, wpaVars, manager, supplicant
<1>4. Children' = Children
  BY <1>2, <1>3 DEF Children
<1>5. deaths \in Nat /\ deaths' \in Nat
  BY <1>1, <1>2 DEF DirectShape
<1>6. ASSUME NEW n, Served(n) PROVE Served(n)'
  BY <1>2, <1>3, <1>5, <1>6 DEF Served
<1>7. DirectShape'
  BY <1>1, <1>3, <1>5 DEF DirectShape
<1>8. InCall' /\ AtTheEnd' /\ OneServer'
  BY <1>1, <1>3, <1>4 DEF InCall, AtTheEnd, OneServer
<1>9. OneGroup'
  BY <1>1, <1>3, <1>4, <1>6 DEF OneGroup, Served
<1>10. QED
  BY <1>7, <1>8, <1>9 DEF DirectInv

LEMMA SupplicantKeepsDirectInv ==
  ASSUME WifiInv, WpaInv', Supplicant, UNCHANGED <<at, told>>, Elsewhere
  PROVE  DirectInv'
<1>1. WpaInv /\ DirectShape /\ InCall /\ AtTheEnd /\ OneServer /\ OneGroup
  BY DEF WifiInv, DirectInv
<1>2. UNCHANGED <<at, told, pid, running, signalled, zombies, joined, overlapped, crashes, deaths>>
  BY DEF Elsewhere, dhcpVars, faults
<1>3. UNCHANGED <<call, group_interface, answer>>
  BY DEF Supplicant, HandleRequest, FormGroup, OtherEvent
<1>4. formed \in Nat /\ (formed' = formed \/ formed' = formed + 1)
  BY <1>1 DEF Supplicant, HandleRequest, FormGroup, OtherEvent, supplicant, WpaInv, SupplicantShape
<1>5. ASSUME call # "P2P_GROUP_REMOVE", HasStarted(inbox')
      PROVE  group' = formed + 1 \/ (group' = group /\ HasStarted(inbox))
  <2>1. OnlyStarted(inbox, group) /\ group' # 0
    BY <1>1, <1>3, <1>5 DEF WpaInv, KnownIsUp
  <2>2. CASE HandleRequest
    BY <1>1, <2>1, <2>2, <1>5, Handled, ChatterKeepsStarted
  <2>3. CASE FormGroup
    <3>1. group = 0
      BY <1>1, <2>3 DEF FormGroup, WpaInv, SupplicantShape
    <3>2. QED
      BY <2>1, <2>3, <3>1 DEF FormGroup
  <2>4. CASE OtherEvent
    <3> DEFINE d == [what |-> "other", re |-> "event", n |-> 0]
    <3>1. d \in Letters /\ d.what # "P2P-GROUP-STARTED"
      BY DEF Letters
    <3>2. sock # 0 /\ inbox' = Append(inbox, d) /\ UNCHANGED group
      BY <2>4 DEF OtherEvent, Deliver, supplicant
    <3>3. Chatter
      BY <3>1, <3>2 DEF Chatter
    <3>4. QED
      BY <1>1, <1>5, <2>1, <3>2, <3>3, ChatterKeepsStarted
  <2>5. QED
    BY <2>2, <2>3, <2>4 DEF Supplicant
<1>6. DirectShape' /\ InCall' /\ AtTheEnd'
  BY <1>1, <1>2, <1>3 DEF DirectShape, InCall, AtTheEnd
<1>7. OneServer'
  BY <1>1, <1>2, <1>3 DEF OneServer, Children
<1>8. OneGroup'
  <2> SUFFICES ASSUME at["main"] = "running" PROVE OneGroup'
    BY <1>2 DEF OneGroup
  <2>1. Children' = Children /\ Children \subseteq 1..formed
    BY <1>1, <1>2 DEF OneGroup, Children
  <2>2. Children \subseteq 1..formed' /\ formed + 1 \notin Children
    BY <1>4, <2>1
  <2>3. HasStarted(inbox') /\ call # "P2P_GROUP_REMOVE" => group' \notin Children
    BY <1>1, <1>5, <2>2 DEF OneGroup
  <2>4. \A n : Served(n)' <=> Served(n)
    BY <1>2 DEF Served
  <2>5. QED
    BY <1>1, <1>2, <1>3, <2>1, <2>2, <2>3, <2>4 DEF OneGroup, Served
<1>9. QED
  BY <1>6, <1>7, <1>8 DEF DirectInv

-----------------------------------------------------------------------------
\* Every step.

LEMMA NextIsWpaStep == Next => WpaStep
  BY DEF Next, LoopThread, MainThread, HandleStart, HandleStop, Form, Serve, Started, Confirm, Preview,
         Kill, Reap, Clear, DhcpStep, AskRemoval, Removed, LeaveLoop, JoinLoop,
         OnDisconnect, SkipCleanup, TeardownWifiDirect,
         DnsmasqObeys, DnsmasqDies, DnsmasqEnds, CrashAndRestart, WpaStep

LEMMA WifiStepInv == WifiInv /\ [Next]_vars => WifiInv'
<1> SUFFICES ASSUME WifiInv, [Next]_vars PROVE WifiInv'
  OBVIOUS
<1>1. CASE Next
  <2>1. WpaInv'
    BY <1>1, NextIsWpaStep, WpaStepInv DEF WifiInv
  <2>2. ASSUME LoopThread PROVE DirectInv'
    BY <2>1, <2>2, FormKeepsDirectInv, ServeKeepsDirectInv, StartedKeepsDirectInv, HandlersKeepDirectInv,
       DhcpStopOnLoop, RemovalKeepsDirectInv DEF LoopThread, Threads
  <2>3. ASSUME MainThread PROVE DirectInv'
    BY <2>1, <2>3, DhcpStopOnMain, RemovalKeepsDirectInv, ShutdownKeepsDirectInv DEF MainThread, Threads
  <2>4. DirectInv'
    BY <1>1, <2>1, <2>2, <2>3, HandleStartKeepsDirectInv, HandlersKeepDirectInv,
       ShutdownKeepsDirectInv, DnsmasqKeepsDirectInv, CrashKeepsDirectInv, SupplicantKeepsDirectInv
    DEF Next, WifiInv
  <2>5. QED
    BY <2>1, <2>4 DEF WifiInv
<1>2. CASE UNCHANGED vars
  <2>1. /\ UNCHANGED wpaVars
        /\ UNCHANGED <<at, told, pid, running, signalled, zombies, joined, overlapped, crashes, deaths>>
    BY <1>2 DEF vars, dhcpVars, faults
  <2>2. WpaInv'
    BY <2>1, WpaStepInv DEF WpaStep, WifiInv
  <2>3. UNCHANGED <<inbox, call, group_interface, answer, group, formed>>
    BY <2>1 DEF wpaVars, manager, supplicant
  <2>4. DirectShape' /\ InCall' /\ AtTheEnd'
    BY <2>1, <2>3 DEF WifiInv, DirectInv, DirectShape, InCall, AtTheEnd
  <2>5. OneServer' /\ OneGroup'
    BY <2>1, <2>3 DEF WifiInv, DirectInv, OneServer, OneGroup, Children, Served
  <2>6. QED
    BY <2>2, <2>4, <2>5 DEF WifiInv, DirectInv
<1>3. QED
  BY <1>1, <1>2

\* The conversation, the groups and the dnsmasq processes fit together in every
\* state (WpaWifiManager and DnsmasqDhcpServer under WifiDirectHandler).
THEOREM WifiInvariant == Spec => []WifiInv
<1>1. QED
  BY WifiInitInv, WifiStepInv, PTL DEF Spec

\* From the answer that names a group until it is stopped, that group is up and
\* its dnsmasq serves it (WifiDirectHandler::HandleStart).
THEOREM ToldGroupStaysServed == Spec => []ToldGroupIsServed
<1>1. WifiInv => ToldGroupIsServed
  <2> SUFFICES ASSUME WifiInv, told # 0, at["loop"] = "idle", at["main"] = "running"
               PROVE  /\ group = told /\ pid = told
                      /\ told \in running \/ (told \in zombies /\ deaths > 0)
    BY DEF ToldGroupIsServed
  <2>1. group_interface = told /\ pid = told /\ Served(told)
    BY DEF WifiInv, DirectInv, OneGroup
  <2>2. call # "P2P_GROUP_REMOVE"
    BY DEF WifiInv, DirectInv, InCall
  <2>3. group = told
    BY <2>1, <2>2 DEF WifiInv, WpaInv, KnownIsUp
  <2>4. QED
    BY <2>1, <2>3 DEF Served
<1>2. QED
  BY <1>1, WifiInvariant, PTL

\* An orderly end leaves no dnsmasq (DnsmasqDhcpServer's destructor, after the
\* event loop is joined).
THEOREM OrderlyEndLeavesNoDnsmasq == Spec => []NoDnsmasqSurvives
<1>1. WifiInv => NoDnsmasqSurvives
  <2> SUFFICES ASSUME WifiInv, at["main"] = "ended", ~overlapped PROVE running \cup zombies = {}
    BY DEF NoDnsmasqSurvives
  <2>1. pid = 0 /\ at["loop"] = "idle"
    BY DEF WifiInv, DirectInv, AtTheEnd
  <2>2. QED
    BY <2>1 DEF WifiInv, DirectInv, OneServer, Children
<1>2. QED
  BY <1>1, WifiInvariant, PTL

-----------------------------------------------------------------------------
\* The contract.  A step that moves neither the group, the socket, what is known
\* of dnsmasq nor the life of the process is none of its steps.

LEMMA SameGroup ==
  ASSUME UNCHANGED <<requests, group, forming>>
  PROVE  GroupMayStay' = GroupMayStay
  BY DEF GroupMayStay, RemovalFrom

Alive == at["main"] # "ended"

LEMMA NothingOfTheContract ==
  ASSUME UNCHANGED <<sock, crashes, Alive, requests, group, forming>>,
         pid' # 0 <=> pid # 0
  PROVE  UNCHANGED Contract!contractVars
<1>1. GroupMayStay' = GroupMayStay
  BY SameGroup
<1>2. QED
  BY <1>1 DEF Contract!contractVars, Alive

\* A start asks for a group.
LEMMA AskingKeepsGroup ==
  ASSUME WifiInv, NEW r \in Requests, r.cmd # "P2P_GROUP_REMOVE",
         requests' = Append(requests, r), UNCHANGED <<group, forming>>
  PROVE  GroupMayStay => GroupMayStay'
<1>1. requests \in Seq(Requests)
  BY DEF WifiInv, WpaInv, SupplicantShape
<1>2. GroupMayStay' <=> Stays(requests', group', forming')
  BY DEF GroupMayStay, RemovalFrom, Stays, TakenFrom, Takes
<1>3. r.cmd \in {"ATTACH", "P2P_GROUP_ADD"}
  BY DEF Requests, Commands
<1>4. Stays(requests, group, forming) => Stays(Append(requests, r), group, forming)
  BY <1>1, <1>3, AppendStays
<1>5. QED
  BY <1>2, <1>4, MayStayIsStays

LEMMA StartKeepsContract ==
  ASSUME WifiInv, HandleStart \/ Form
  PROVE  [Contract!Next]_(Contract!contractVars)
<1>1. ManagerShape /\ SupplicantShape /\ DirectShape /\ AtTheEnd /\ Closed /\ OnTheWay
  BY DEF WifiInv, WpaInv, DirectInv
<1>2. UNCHANGED <<pid, crashes>>
  BY DEF HandleStart, Form, Elsewhere, dhcpVars, faults
<1>3. at'["main"] = at["main"]
  <2>1. \/ UNCHANGED at \/ GoTo("loop", "form") \/ GoTo("loop", "idle") \/ GoTo("loop", "serve")
    BY DEF HandleStart, Form
  <2>2. QED
    BY <1>1, <2>1, Goes
<1>4. at["main"] # "ended"
  <2>1. Form => at["loop"] = "form"
    BY DEF Form, Converse, Attached, Added, ReadUntil, WifiInv, DirectInv, InCall
  <2>2. QED
    BY <1>1, <2>1 DEF AtTheEnd, HandleStart, LoopRuns
<1>5. CASE Form /\ (Added \/ ReadUntil)
  <2>1. UNCHANGED <<sock, requests, group, forming>>
    BY <1>5 DEF Added, ReadUntil, StartFails, GroupStarted, ReadOn, supplicant
  <2>2. QED
    BY <1>2, <1>3, <2>1, NothingOfTheContract DEF Alive
<1>6. CASE HandleStart \/ (Form /\ Attached)
  <2> DEFINE r == [cmd |-> call', n |-> calls', iface |-> 0, from |-> sock']
  <2>1. /\ requests' = Append(requests, r) /\ UNCHANGED <<group, forming>>
        /\ call' \in {"ATTACH", "P2P_GROUP_ADD"} /\ calls' \in Nat
    <3>1. CASE HandleStart
      BY <1>1, <3>1 DEF HandleStart, StartP2pGroupOwner, Send, ManagerShape
    <3>2. CASE Attached
      BY <1>1, <3>2 DEF Attached, Send, ManagerShape
    <3>3. QED
      BY <1>6, <3>1, <3>2
  <2>2. sock' # 0 /\ sock' \in Nat
    BY <1>1, <1>6 DEF HandleStart, StartP2pGroupOwner, Attached, ManagerShape, OnTheWay, Closed
  <2>3. r \in Requests /\ r.cmd # "P2P_GROUP_REMOVE"
    BY <2>1, <2>2 DEF Requests, Commands
  <2> HIDE DEF r
  <2>4. GroupMayStay => GroupMayStay'
    BY <2>1, <2>3, AskingKeepsGroup
  <2>5. QED
    BY <1>2, <1>3, <1>4, <2>2, <2>4 DEF Contract!Next, Contract!FormGroup
<1>7. QED
  BY <1>5, <1>6 DEF Form, Converse

\* What the session does with dnsmasq.
LEMMA DhcpKeepsContract ==
  ASSUME WifiInv, WifiInv', NEW t \in Threads,
         Serve \/ Started \/ Kill(t) \/ Reap(t) \/ Clear(t)
  PROVE  [Contract!Next]_(Contract!contractVars)
<1>1. DirectShape /\ InCall /\ AtTheEnd /\ AtTheEnd'
  BY DEF WifiInv, DirectInv
<1>2. UNCHANGED <<sock, crashes, requests, group, forming>>
  BY DEF Serve, Started, Kill, Reap, Clear, DhcpStep, wpaVars, manager, supplicant, faults
<1>3. ~Alive => ~Alive'
  <2>1. ASSUME ~Alive PROVE t # "main" \/ Serve \/ Started
    BY <2>1, DhcpGoes DEF Alive, Kill, Reap, Clear, DhcpStep
  <2>2. Serve \/ Started => at'["main"] = at["main"]
    BY <1>1, DhcpGoes, Goes DEF Serve, Started
  <2>3. t = "loop" /\ (Kill(t) \/ Reap(t) \/ Clear(t)) => at'["main"] = at["main"]
    BY <1>1, DhcpGoes, Goes DEF Kill, Reap, Clear
  <2>4. QED
    BY <2>1, <2>2, <2>3 DEF Alive, Threads
<1>4. \/ pid' \in {0, pid}
      \/ pid' # 0
  OBVIOUS
<1>5. GroupMayStay' = GroupMayStay
  BY <1>2, SameGroup
<1>6. CASE Alive' = Alive /\ (pid' # 0 <=> pid # 0)
  BY <1>2, <1>6, NothingOfTheContract
<1>7. CASE Alive' = Alive /\ pid' = 0 /\ pid # 0
  BY <1>2, <1>5, <1>7 DEF Contract!Next, Contract!StopDhcp, Alive
<1>8. CASE Alive' = Alive /\ pid' # 0 /\ pid = 0
  BY <1>2, <1>5, <1>8 DEF Contract!Next, Contract!StartDhcp, Alive
<1>9. CASE Alive /\ ~Alive'
  <2>1. pid' = 0 /\ crashes \in Nat
    BY <1>1, <1>9 DEF AtTheEnd, Alive, DirectShape
  <2>2. QED
    BY <1>2, <1>5, <1>9, <2>1 DEF Contract!Next, Contract!ProcessEnds, Alive
<1>10. QED
  BY <1>3, <1>6, <1>7, <1>8, <1>9 DEF Alive

\* What the session does with the group, and the rest of what ends the process.
LEMMA RemovalKeepsContract ==
  ASSUME WifiInv, NEW t \in Threads, AskRemoval(t) \/ Removed(t)
  PROVE  [Contract!Next]_(Contract!contractVars)
<1>1. DirectShape /\ InCall /\ AtTheEnd /\ WpaInv
  BY DEF WifiInv, DirectInv
<1>2. UNCHANGED <<pid, crashes>> /\ at[t] \in {"remove", "removing"}
  BY DEF AskRemoval, Removed, Elsewhere, dhcpVars, faults
<1>3. Alive /\ Alive'
  <2>1. at[t] # "idle" /\ at[t] # "ended" /\ at[t] \notin DhcpStop
    BY <1>2 DEF DhcpStop
  <2>2. Alive
    BY <1>1, <2>1 DEF AtTheEnd, Alive, Threads
  <2>3. \/ GoTo(t, "removing") \/ GoTo(t, AfterRemove(t))
    BY DEF AskRemoval, Removed
  <2>4. AfterRemove(t) \in {"idle", "leave"}
    BY DEF AfterRemove
  <2>5. Alive'
    BY <1>1, <2>2, <2>3, <2>4, Goes DEF Alive, Threads
  <2>6. QED
    BY <2>2, <2>5
<1>4. CASE AskRemoval(t) /\ Stop
  <2>1. ~GroupMayStay' /\ UNCHANGED sock
    BY <1>1, <1>4, StopKeepsWpaInv DEF Stop
  <2>2. QED
    BY <1>2, <1>3, <2>1 DEF Contract!Next, Contract!GroupGoes, Alive
<1>5. CASE AskRemoval(t) /\ UNCHANGED wpaVars
  <2>1. UNCHANGED <<sock, requests, group, forming>>
    BY <1>5 DEF wpaVars, manager, supplicant
  <2>2. QED
    BY <1>2, <1>3, <2>1, NothingOfTheContract
<1>6. CASE Removed(t)
  <2>1. call = "P2P_GROUP_REMOVE" /\ sock' = 0 /\ UNCHANGED <<requests, group, forming>>
    BY <1>6 DEF Removed, Stopped, supplicant
  <2>2. GroupMayStay = FALSE
    BY <1>1, <2>1 DEF WpaInv, NothingStays, GroupMayStay
  <2>3. GroupMayStay' = GroupMayStay
    BY <2>1, SameGroup
  <2>4. QED
    BY <1>2, <1>3, <2>1, <2>2, <2>3 DEF Contract!Next, Contract!StopManager, Alive
<1>7. QED
  BY <1>4, <1>5, <1>6 DEF AskRemoval

LEMMA CrashKeepsContract ==
  ASSUME WifiInv, CrashAndRestart
  PROVE  [Contract!Next]_(Contract!contractVars)
<1>1. /\ crashes \in Nat /\ crashes' = crashes + 1 /\ Alive /\ pid' = 0 /\ sock' = 0
      /\ at'["main"] = "running" /\ UNCHANGED <<requests, group, forming>>
  BY DEF CrashAndRestart, LoseManager, supplicant, Alive, WifiInv, DirectInv, DirectShape
<1>2. GroupMayStay' = GroupMayStay
  BY <1>1, SameGroup
<1>3. QED
  BY <1>1, <1>2 DEF Contract!Next, Contract!ProcessEnds, Alive

LEMMA SupplicantKeepsContract ==
  ASSUME WifiInv, Supplicant, UNCHANGED <<at, told>>, Elsewhere
  PROVE  [Contract!Next]_(Contract!contractVars)
<1>1. UNCHANGED <<sock, pid, crashes, at>>
  BY DEF Supplicant, HandleRequest, FormGroup, OtherEvent, Elsewhere, dhcpVars, faults
<1>2. GroupMayStay \in BOOLEAN /\ GroupMayStay' \in BOOLEAN
  BY DEF GroupMayStay
<1>3. CASE GroupMayStay' = GroupMayStay
  BY <1>1, <1>3 DEF Contract!contractVars
<1>4. CASE GroupMayStay' # GroupMayStay
  <2>1. ~GroupMayStay'
    BY <1>2, <1>4, SupplicantBringsNoGroup DEF WifiInv
  <2>2. QED
    BY <1>1, <2>1 DEF Contract!Next, Contract!GroupGoes
<1>5. QED
  BY <1>3, <1>4

\* What leaves the contract's state alone.
LEMMA RestKeepsContract ==
  ASSUME WifiInv, \/ Confirm \/ Preview \/ HandleStop
                  \/ OnDisconnect \/ SkipCleanup \/ TeardownWifiDirect \/ LeaveLoop \/ JoinLoop
                  \/ DnsmasqObeys \/ DnsmasqDies \/ UNCHANGED vars
  PROVE  [Contract!Next]_(Contract!contractVars)
<1>1. UNCHANGED <<sock, requests, group, forming, pid, crashes>>
  BY DEF Confirm, Preview, HandleStop, OnDisconnect, SkipCleanup, TeardownWifiDirect, LeaveLoop,
         JoinLoop, DnsmasqObeys, DnsmasqDies, DnsmasqEnds, Elsewhere, vars, wpaVars, manager, supplicant, dhcpVars, faults
<1>2. UNCHANGED Alive
  <2>1. DirectShape
    BY DEF WifiInv, DirectInv
  <2>2. CASE \/ Confirm \/ Preview \/ HandleStop
             \/ OnDisconnect \/ SkipCleanup \/ TeardownWifiDirect \/ LeaveLoop \/ JoinLoop
    BY <2>1, <2>2, Goes DEF Confirm, Preview, HandleStop, OnDisconnect, SkipCleanup,
       TeardownWifiDirect, LeaveLoop, JoinLoop, Alive
  <2>3. CASE DnsmasqObeys \/ DnsmasqDies \/ UNCHANGED vars
    BY <2>3 DEF DnsmasqObeys, DnsmasqDies, DnsmasqEnds, vars, Alive
  <2>4. QED
    BY <2>2, <2>3
<1>3. QED
  BY <1>1, <1>2, NothingOfTheContract

\* The calls of IWifiManager and IDhcpServer, conversations with wpa_supplicant and
\* dnsmasq that two threads, a crash or a lost answer may cut into, keep the
\* contract ControlPlane takes for granted.
THEOREM WifiKeepsItsContract == Spec => ImplementsContract
<1>1. Init => Contract!Init
  <2> SUFFICES ASSUME Init PROVE Contract!Init
    OBVIOUS
  <2>1. ~GroupMayStay
    BY DEF Init, WpaInit, GroupMayStay, RemovalFrom
  <2>2. QED
    BY <2>1 DEF Init, WpaInit, Contract!Init
<1>2. WifiInv /\ WifiInv' /\ [Next]_vars => [Contract!Next]_(Contract!contractVars)
  <2> SUFFICES ASSUME WifiInv, WifiInv', [Next]_vars
               PROVE  [Contract!Next]_(Contract!contractVars)
    OBVIOUS
  <2>1. CASE LoopThread
    BY <2>1, StartKeepsContract, DhcpKeepsContract, RemovalKeepsContract, RestKeepsContract
    DEF LoopThread, Threads
  <2>2. CASE MainThread
    BY <2>2, DhcpKeepsContract, RemovalKeepsContract, RestKeepsContract DEF MainThread, Threads
  <2>3. QED
    BY <2>1, <2>2, StartKeepsContract, CrashKeepsContract, SupplicantKeepsContract,
       RestKeepsContract
    DEF Next
<1>3. QED
  BY <1>1, <1>2, WifiInvariant, PTL DEF Spec, ImplementsContract, Contract!Spec
=============================================================================

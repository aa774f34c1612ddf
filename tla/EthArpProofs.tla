---------------------------- MODULE EthArpProofs ----------------------------
(***************************************************************************)
(* The safety of the ARP table for every table size, every set of hosts    *)
(* and every age limit.                                                    *)
(*                                                                         *)
(* The inductive invariant adds to the properties what makes them          *)
(* inductive: an entry that is not empty names a host and has not reached  *)
(* its end, a stable one holds the address that its host announced last,   *)
(* and one that is being asked for again was asked for in this timer       *)
(* period.                                                                 *)
(***************************************************************************)
EXTENDS EthArp, TLAPS

Known(e) == e.state # "EMPTY" => e.ip \in Hosts /\ e.ctime < ARP_MAXAGE

Waits(e) == e.q # None => e.state = "PENDING" /\ e.ip = Hop(e.q)

Fresh(e, hd) == Stable(e) => e.mac \in Macs /\ e.mac = hd[e.ip]

Pursued(e, as) == e.state = "REREQUESTING" => e.ip \in as

Table == \A i \in Index : /\ Known(arp_table[i]) /\ Waits(arp_table[i])
                          /\ Fresh(arp_table[i], heard)
                          /\ Pursued(arp_table[i], asked)

IInv == /\ TypeOK /\ OneEntryPerHost /\ Table
        /\ SentWhereHeard /\ Rerequested

-----------------------------------------------------------------------------
(* The age limits are positive numbers.                                    *)
LEMMA Ages == /\ ARP_MAXAGE \in Nat /\ 0 < ARP_MAXAGE
              /\ ARP_AGE_REREQUEST_USED \in Nat /\ 0 < ARP_AGE_REREQUEST_USED
              /\ ARP_MAXPENDING \in Nat /\ 0 \in 0 .. ARP_MAXAGE
BY EthArpAssumption

(* The next hop of every packet is a host.                                 *)
LEMMA HopHost == \A p \in Hosts \cup Far : Hop(p) \in Hosts
BY EthArpAssumption DEF Hop

(* The initial table is empty.                                             *)
LEMMA InitInv == Init => IInv
<1> SUFFICES ASSUME Init PROVE IInv
  OBVIOUS
<1>1. TypeOK
  BY EthArpAssumption DEF Init, TypeOK, Index, Entry
<1>2. OneEntryPerHost /\ Table
  BY DEF Init, OneEntryPerHost, Table, Known, Waits, Fresh, Pursued, Stable
<1>3. SentWhereHeard /\ Rerequested
  BY DEF Init, SentWhereHeard, Rerequested
<1> QED
  BY <1>1, <1>2, <1>3 DEF IInv

(* What etharp_find_entry hands out: an index of the table with an entry   *)
(* for the host, and no other entry of that host anywhere.                 *)
LEMMA FindEntry ==
  ASSUME IInv, NEW h \in Hosts, NEW i \in etharp_find_entry(h)
  PROVE  /\ i \in Index /\ EntryFor(h, i) \in Entry
         /\ EntryFor(h, i).ip = h /\ EntryFor(h, i).ctime < ARP_MAXAGE
         /\ Waits(EntryFor(h, i))
         /\ EntryFor(h, i).q \in {None, arp_table[i].q}
         /\ \A j \in Index : j # i /\ arp_table[j].state # "EMPTY" => arp_table[j].ip # h
<1> USE DEF IInv
<1>1. Found(h) = Matches(h)
  BY DEF Found, Matches, OneEntryPerHost, Index
<1>2. i \in Index
  BY DEF etharp_find_entry, Found, Matches, Recycled, Empties, Oldest
<1>3. arp_table[i] \in Entry
  BY <1>2 DEF TypeOK
<1>4. CASE Found(h) # {}
  BY <1>1, <1>2, <1>3, <1>4
  DEF etharp_find_entry, EntryFor, Matches, Table, Known, OneEntryPerHost
<1>5. CASE Found(h) = {}
  <2>1. EntryFor(h, i) = [arp_table[i] EXCEPT !.state = "EMPTY", !.q = None,
                                              !.ip = h, !.ctime = 0]
    BY <1>3, <1>5 DEF EntryFor, etharp_free_entry, Entry
  <2>2. EntryFor(h, i) \in Entry
    BY <1>3, <2>1, Ages DEF Entry
  <2>3. /\ EntryFor(h, i).ip = h /\ EntryFor(h, i).q = None
        /\ EntryFor(h, i).ctime < ARP_MAXAGE
    BY <1>3, <2>1, Ages DEF Entry
  <2>4. \A j \in Index : arp_table[j].state # "EMPTY" => arp_table[j].ip # h
    BY <1>1, <1>5 DEF Matches
  <2> QED
    BY <1>2, <2>2, <2>3, <2>4 DEF Waits
<1> QED
  BY <1>4, <1>5

(* Writing an entry of a host where etharp_find_entry found its place      *)
(* keeps the table in order.                                               *)
LEMMA Written ==
  ASSUME IInv, NEW h \in Hosts, NEW i \in Index, NEW x \in Entry,
         x.ip = h, x.ctime < ARP_MAXAGE, Waits(x), x.state # "EMPTY",
         \A j \in Index : j # i /\ arp_table[j].state # "EMPTY" => arp_table[j].ip # h,
         arp_table' = [arp_table EXCEPT ![i] = x],
         Fresh(x, heard'), Pursued(x, asked'),
         \A g \in Hosts : g # h => heard'[g] = heard[g],
         asked \subseteq asked'
  PROVE  arp_table' \in [Index -> Entry] /\ OneEntryPerHost' /\ Table'
<1> USE DEF IInv
<1>1. /\ arp_table' \in [Index -> Entry]
      /\ \A j \in Index : arp_table'[j] = IF j = i THEN x ELSE arp_table[j]
  BY DEF TypeOK
<1>2. OneEntryPerHost'
  BY <1>1 DEF OneEntryPerHost
<1>3. Table'
  <2> SUFFICES ASSUME NEW j \in Index
               PROVE  /\ Known(arp_table'[j]) /\ Waits(arp_table'[j])
                      /\ Fresh(arp_table'[j], heard') /\ Pursued(arp_table'[j], asked')
    BY DEF Table
  <2>1. CASE j = i
    BY <1>1, <2>1 DEF Known
  <2>2. CASE j # i
    <3>1. arp_table'[j] = arp_table[j]
      BY <1>1, <2>2
    <3>2. /\ Known(arp_table[j]) /\ Waits(arp_table[j])
          /\ Fresh(arp_table[j], heard) /\ Pursued(arp_table[j], asked)
      BY DEF Table
    <3>3. Fresh(arp_table[j], heard')
      BY <2>2, <3>2 DEF Fresh, Known, Stable
    <3> QED
      BY <3>1, <3>2, <3>3 DEF Pursued
  <2> QED
    BY <2>1, <2>2
<1> QED
  BY <1>1, <1>2, <1>3

-----------------------------------------------------------------------------
(* A packet that leaves by a stable entry.                                 *)
LEMMA OutputToIndex ==
  ASSUME IInv, NEW p \in Hosts \cup Far, NEW i \in Index, NEW ok \in BOOLEAN,
         Usable(i, Hop(p)), etharp_output_to_arp_index(p, i, ok),
         etharp_cached_entry' \in Index, UNCHANGED heard
  PROVE  IInv'
<1> USE DEF IInv
<1> DEFINE h == Hop(p)
           e == arp_table[i]
           x == arp_table'[i]
<1>1. h \in Hosts
  BY HopHost
<1>2. e \in Entry /\ e.ip = h /\ Stable(e)
  BY DEF TypeOK, Usable
<1>3. /\ Known(e) /\ Waits(e) /\ Fresh(e, heard) /\ Pursued(e, asked)
  BY DEF Table
<1>4. /\ arp_table' = [arp_table EXCEPT ![i] = x]
      /\ x \in {e, [e EXCEPT !.state = "REREQUESTING"]}
      /\ x.state = "REREQUESTING" => e.state = "REREQUESTING" \/ h \in asked'
  BY <1>2 DEF etharp_output_to_arp_index, TypeOK, Entry
<1>5. /\ asked' \in {asked, asked \cup {h}} /\ asked' \subseteq Hosts
      /\ e.state = "STABLE" /\ e.ctime >= ARP_AGE_REREQUEST_USED => h \in asked'
  BY <1>1, <1>2 DEF etharp_output_to_arp_index, TypeOK
<1>6. /\ x \in Entry /\ x.ip = h /\ x.mac = e.mac /\ x.ctime = e.ctime
      /\ x.q = e.q /\ Stable(x) /\ x.ctime < ARP_MAXAGE
  BY <1>2, <1>3, <1>4 DEF Entry, Stable, Known
<1>7. Waits(x) /\ x.state # "EMPTY" /\ Fresh(x, heard') /\ Pursued(x, asked')
  BY <1>2, <1>3, <1>4, <1>5, <1>6 DEF Waits, Fresh, Pursued, Stable
<1>8. \A j \in Index : j # i /\ arp_table[j].state # "EMPTY" => arp_table[j].ip # h
  BY <1>2 DEF OneEntryPerHost, Stable
<1>9. arp_table' \in [Index -> Entry] /\ OneEntryPerHost' /\ Table'
  <2> HIDE DEF h, x
  <2> QED
    BY <1>1, <1>4, <1>5, <1>6, <1>7, <1>8, Written
<1>10. out' = {[to |-> p, mac |-> e.mac]}
  BY DEF etharp_output_to_arp_index
<1>11. TypeOK'
  BY <1>2, <1>5, <1>9, <1>10 DEF TypeOK, Entry
<1>12. SentWhereHeard'
  BY <1>2, <1>3, <1>10, EthArpAssumption DEF SentWhereHeard, Fresh
<1>13. Rerequested'
  <2> SUFFICES ASSUME NEW j \in Index, Stable(arp_table'[j]), arp_table'[j].ip = h,
                      arp_table'[j].ctime >= ARP_AGE_REREQUEST_USED
               PROVE  h \in asked'
    BY <1>10 DEF Rerequested
  <2>1. j = i
    BY <1>6, <1>9 DEF OneEntryPerHost, Stable
  <2>2. e.ctime >= ARP_AGE_REREQUEST_USED
    BY <1>6, <2>1
  <2> QED
    BY <1>2, <1>3, <1>5, <2>2 DEF Stable, Pursued
<1> QED
  BY <1>9, <1>11, <1>12, <1>13

(* A packet that has to wait.                                              *)
LEMMA Query ==
  ASSUME IInv, NEW p \in Hosts \cup Far, etharp_query(p), UNCHANGED heard
  PROVE  IInv'
<1> USE DEF IInv
<1> DEFINE h == Hop(p)
<1>1. h \in Hosts
  BY HopHost
<1>a. PICK i \in etharp_find_entry(h) : \E q \in {p, EntryFor(h, i).q} :
        arp_table' = [arp_table EXCEPT ![i] =
                        [EntryFor(h, i) EXCEPT !.state = "PENDING", !.q = q]]
  BY DEF etharp_query
<1>2. PICK q \in {p, EntryFor(h, i).q} :
        arp_table' = [arp_table EXCEPT ![i] =
                        [EntryFor(h, i) EXCEPT !.state = "PENDING", !.q = q]]
  BY <1>a
<1> DEFINE e == EntryFor(h, i)
           x == [e EXCEPT !.state = "PENDING", !.q = q]
<1>3. /\ i \in Index /\ e \in Entry /\ e.ip = h /\ Waits(e) /\ e.ctime < ARP_MAXAGE
      /\ \A j \in Index : j # i /\ arp_table[j].state # "EMPTY" => arp_table[j].ip # h
  BY <1>1, FindEntry
<1>4. x \in Entry /\ x.ip = h /\ x.state = "PENDING" /\ x.q = q /\ x.ctime < ARP_MAXAGE
  BY <1>2, <1>3 DEF Entry
<1>5. Waits(x)
  BY <1>2, <1>3, <1>4 DEF Waits
<1>6. Fresh(x, heard') /\ Pursued(x, asked')
  BY <1>4 DEF Fresh, Pursued, Stable
<1>7. out' = {} /\ UNCHANGED <<etharp_cached_entry, asked>>
  BY DEF etharp_query
<1>8. arp_table' \in [Index -> Entry] /\ OneEntryPerHost' /\ Table'
  <2>1. arp_table' = [arp_table EXCEPT ![i] = x] /\ x.state # "EMPTY"
    BY <1>2, <1>4
  <2> HIDE DEF h, x
  <2> QED
    BY <1>1, <1>3, <1>4, <1>5, <1>6, <1>7, <2>1, Written
<1> QED
  BY <1>7, <1>8 DEF TypeOK, SentWhereHeard, Rerequested

(* A message of a host that has, or is given, an entry.                    *)
LEMMA UpdateInv ==
  ASSUME IInv, NEW h \in Hosts, NEW m \in Macs, NEW i \in etharp_find_entry(h),
         Update(i, EntryFor(h, i), m),
         heard' = [g \in Hosts |-> IF g = h THEN m ELSE heard[g]],
         UNCHANGED <<etharp_cached_entry, asked>>
  PROVE  IInv'
<1> USE DEF IInv
<1> DEFINE e == EntryFor(h, i)
           x == [e EXCEPT !.state = "STABLE", !.mac = m, !.ctime = 0, !.q = None]
<1>1. /\ i \in Index /\ e \in Entry /\ e.ip = h /\ Waits(e)
      /\ \A j \in Index : j # i /\ arp_table[j].state # "EMPTY" => arp_table[j].ip # h
  BY FindEntry
<1>2. /\ x \in Entry /\ x.ip = h /\ x.state = "STABLE" /\ x.mac = m
      /\ x.ctime = 0 /\ x.ctime < ARP_MAXAGE /\ x.q = None
  BY <1>1, Ages DEF Entry
<1>3. Waits(x) /\ Fresh(x, heard') /\ Pursued(x, asked')
  BY <1>2 DEF Waits, Fresh, Pursued
<1>4. arp_table' = [arp_table EXCEPT ![i] = x] /\ x.state # "EMPTY"
  BY <1>2 DEF Update
<1>5. arp_table' \in [Index -> Entry] /\ OneEntryPerHost' /\ Table'
  <2> HIDE DEF x
  <2> QED
    BY <1>1, <1>2, <1>3, <1>4, Written
<1>6. out' = IF e.q = None THEN {} ELSE {[to |-> e.q, mac |-> m]}
  BY DEF Update
<1>7. TypeOK'
  BY <1>1, <1>5, <1>6 DEF TypeOK, Entry
<1>8. SentWhereHeard'
  BY <1>1, <1>6, EthArpAssumption DEF SentWhereHeard, Waits
<1>9. Rerequested'
  <2> SUFFICES ASSUME NEW j \in Index, e.q # None, Stable(arp_table'[j]),
                      arp_table'[j].ip = Hop(e.q),
                      arp_table'[j].ctime >= ARP_AGE_REREQUEST_USED
               PROVE  FALSE
    BY <1>6 DEF Rerequested
  <2> HIDE DEF x
  <2>1. arp_table'[i] = x /\ Hop(e.q) = h
    BY <1>1, <1>4 DEF TypeOK, Waits
  <2>2. j = i
    BY <1>1, <1>2, <1>5, <2>1 DEF OneEntryPerHost, Stable
  <2> QED
    BY <1>2, <2>1, <2>2, Ages
<1> QED
  BY <1>5, <1>7, <1>8, <1>9

(* The timer.                                                              *)
LEMMA Timer == IInv /\ etharp_tmr => IInv'
<1> SUFFICES ASSUME IInv, etharp_tmr PROVE IInv'
  OBVIOUS
<1> USE DEF IInv
<1>1. ASSUME NEW e \in Entry, Known(e)
      PROVE  /\ Aged(e) \in Entry /\ Aged(e).ip = e.ip /\ Aged(e).mac = e.mac
             /\ Known(Aged(e)) /\ Aged(e).q \in {None, e.q}
             /\ Aged(e).state # "EMPTY" => e.state # "EMPTY"
             /\ Aged(e).state # "EMPTY" /\ e.state = "PENDING" => Aged(e).state = "PENDING"
             /\ e.state # "EMPTY" /\ Aged(e).state = "EMPTY" => Aged(e).q = None
             /\ Stable(Aged(e)) => Stable(e)
             /\ Aged(e).state # "REREQUESTING"
  <2>1. CASE e.state = "EMPTY"
    BY <1>1, <2>1 DEF Aged, Stable, Entry
  <2>2. CASE e.state # "EMPTY" /\ Expired(e)
    <3>1. Aged(e) = [e EXCEPT !.ctime = e.ctime + 1, !.state = "EMPTY", !.q = None]
      BY <2>2 DEF Aged, etharp_free_entry, Entry
    <3>2. e.ctime + 1 \in 0 .. ARP_MAXAGE
      BY <1>1, <2>2, Ages DEF Known, Entry
    <3>3. /\ Aged(e) \in Entry /\ Aged(e).ip = e.ip /\ Aged(e).mac = e.mac
          /\ Aged(e).state = "EMPTY" /\ Aged(e).q = None
      BY <3>1, <3>2 DEF Entry
    <3> QED
      BY <3>3 DEF Known, Stable
  <2>3. CASE e.state # "EMPTY" /\ ~Expired(e)
    <3>1. e.ctime + 1 < ARP_MAXAGE
      BY <2>3, Ages DEF Expired, Entry
    <3>2. Aged(e) = [e EXCEPT !.ctime = e.ctime + 1,
                       !.state = IF e.state = "REREQUESTING" THEN "STABLE" ELSE e.state]
      BY <2>3 DEF Aged, Entry
    <3>3. e.ctime + 1 \in 0 .. ARP_MAXAGE
      BY <3>1, Ages DEF Entry
    <3>4. /\ Aged(e) \in Entry /\ Aged(e).ip = e.ip /\ Aged(e).mac = e.mac
          /\ Aged(e).q = e.q /\ Aged(e).ctime = e.ctime + 1
          /\ Aged(e).state = IF e.state = "REREQUESTING" THEN "STABLE" ELSE e.state
      BY <3>2, <3>3 DEF Entry
    <3> QED
      BY <1>1, <2>3, <3>1, <3>4 DEF Known, Stable
  <2> QED
    BY <2>1, <2>2, <2>3
<1>2. \A i \in Index : /\ arp_table[i] \in Entry /\ Known(arp_table[i])
                        /\ Waits(arp_table[i]) /\ Fresh(arp_table[i], heard)
  BY DEF TypeOK, Table
<1>3. /\ arp_table' = [i \in Index |-> Aged(arp_table[i])]
      /\ out' = {} /\ asked' = {} /\ UNCHANGED <<etharp_cached_entry, heard>>
  BY DEF etharp_tmr
<1>4. TypeOK'
  BY <1>1, <1>2, <1>3 DEF TypeOK
<1>5. OneEntryPerHost'
  BY <1>1, <1>2, <1>3 DEF OneEntryPerHost
<1>6. Table'
  <2> SUFFICES ASSUME NEW i \in Index
               PROVE  /\ Known(arp_table'[i]) /\ Waits(arp_table'[i])
                      /\ Fresh(arp_table'[i], heard') /\ Pursued(arp_table'[i], asked')
    BY DEF Table
  <2> DEFINE e == arp_table[i]
  <2>1. arp_table'[i] = Aged(e)
    BY <1>3
  <2>2. Waits(Aged(e))
    BY <1>1, <1>2 DEF Waits
  <2>3. Fresh(Aged(e), heard')
    BY <1>1, <1>2, <1>3 DEF Fresh
  <2> QED
    BY <1>1, <1>2, <2>1, <2>2, <2>3 DEF Pursued
<1> QED
  BY <1>3, <1>4, <1>5, <1>6 DEF SentWhereHeard, Rerequested

-----------------------------------------------------------------------------
(* Every step keeps the invariant.                                         *)
LEMMA NextInv == IInv /\ [Next]_vars => IInv'
<1> SUFFICES ASSUME IInv, [Next]_vars PROVE IInv'
  OBVIOUS
<1>1. ASSUME NEW p \in Hosts \cup Far, etharp_output(p) PROVE IInv'
  <2>1. CASE \E i \in Index, ok \in BOOLEAN :
               /\ Usable(i, Hop(p)) /\ etharp_output_to_arp_index(p, i, ok)
               /\ etharp_cached_entry' \in Index
    BY <1>1, <2>1, OutputToIndex DEF etharp_output
  <2>2. CASE etharp_query(p)
    BY <1>1, <2>2, Query DEF etharp_output
  <2> QED
    BY <1>1, <2>1, <2>2 DEF etharp_output, IInv, TypeOK
<1>2. ASSUME NEW sip \in Hosts \cup {None}, NEW m \in Macs, NEW for_us \in BOOLEAN,
             etharp_arp_input(sip, m, for_us)
      PROVE  IInv'
  <2>1. CASE \E i \in etharp_find_entry(sip) : Update(i, EntryFor(sip, i), m) /\ sip \in Hosts
    BY <1>2, <2>1, UpdateInv DEF etharp_arp_input
  <2>2. CASE /\ sip = None \/ (~for_us /\ Found(sip) = {})
             /\ out' = {} /\ UNCHANGED arp_table
    <3>1. Found(sip) = {} => Matches(sip) = {}
      BY DEF IInv, Found, Matches, OneEntryPerHost, Index
    <3>2. \A i \in Index : arp_table[i].state # "EMPTY" => arp_table[i].ip # sip
      BY <2>2, <3>1, EthArpAssumption DEF Matches, IInv, Table, Known
    <3>3. /\ heard' = [h \in Hosts |-> IF h = sip THEN m ELSE heard[h]]
          /\ UNCHANGED <<etharp_cached_entry, asked>>
      BY <1>2 DEF etharp_arp_input
    <3>4. Table'
      BY <2>2, <3>2, <3>3 DEF IInv, Table, Known, Waits, Fresh, Pursued, Stable
    <3> QED
      BY <2>2, <3>3, <3>4 DEF IInv, TypeOK, OneEntryPerHost, SentWhereHeard, Rerequested
  <2> QED
    BY <1>2, <2>1, <2>2 DEF etharp_arp_input
<1>3. CASE etharp_tmr
  BY <1>3, Timer
<1>4. CASE UNCHANGED vars
  BY <1>4 DEF vars, IInv, TypeOK, OneEntryPerHost, Table, SentWhereHeard, Rerequested
<1> QED
  BY <1>1, <1>2, <1>3, <1>4 DEF Next

(* The inductive invariant holds in every reachable state.                 *)
THEOREM Invariant == Spec => []IInv
BY InitInv, NextInv, PTL DEF Spec

(* Ages stay below the range of ctime: see TypeOK.                         *)
THEOREM TypeCorrect == Spec => []TypeOK
<1>1. IInv => TypeOK
  BY DEF IInv
<1> QED
  BY <1>1, Invariant, PTL

(* No host ever has two entries, however the table of etharp_find_entry is *)
(* recycled.                                                               *)
THEOREM Unique == Spec => []OneEntryPerHost
<1>1. IInv => OneEntryPerHost
  BY DEF IInv
<1> QED
  BY <1>1, Invariant, PTL

(* The assertion of etharp_find_entry: packets wait on pending entries of  *)
(* their next hop only.                                                    *)
THEOREM QueuedOnPending == Spec => []WaitsOnItsHop
<1>1. IInv => WaitsOnItsHop
  BY DEF IInv, Table, Waits, WaitsOnItsHop
<1> QED
  BY <1>1, Invariant, PTL

(* etharp_output and etharp_update_arp_entry send to the address announced *)
(* last.                                                                   *)
THEOREM NeverMisdelivered == Spec => []SentWhereHeard
<1>1. IInv => SentWhereHeard
  BY DEF IInv
<1> QED
  BY <1>1, Invariant, PTL

(* etharp_output_to_arp_index asks for an ageing entry in every period in  *)
(* which it is used.                                                       *)
THEOREM KeptAlive == Spec => []Rerequested
<1>1. IInv => Rerequested
  BY DEF IInv
<1> QED
  BY <1>1, Invariant, PTL
=============================================================================

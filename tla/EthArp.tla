------------------------------- MODULE EthArp -------------------------------
(***************************************************************************)
(* The address resolution of the stack (netif/etharp.c): the ARP table     *)
(* with its four states, the cached index of etharp_output, the one packet *)
(* that waits on a pending entry, the choice of an entry to recycle when   *)
(* the table is full, and the five second timer.                           *)
(*                                                                         *)
(* Hosts answer, stay silent, repeat themselves, speak unasked and change  *)
(* their hardware address as they like.  A packet stands for all packets   *)
(* to the same destination, so that nothing but the age is counted.        *)
(***************************************************************************)
EXTENDS Integers, FiniteSets

CONSTANTS
  Hosts,          \* IP addresses of the local network
  Far, Gw,        \* destinations outside it, and the host that leads there
  Macs,           \* hardware addresses
  None,           \* NULL, and the sender 0.0.0.0 of a probe
  ARP_TABLE_SIZE, ARP_MAXAGE, ARP_AGE_REREQUEST_USED, ARP_MAXPENDING

ASSUME EthArpAssumption ==
  /\ ARP_TABLE_SIZE \in Nat \ {0}
  /\ {ARP_MAXAGE, ARP_AGE_REREQUEST_USED, ARP_MAXPENDING} \subseteq Nat \ {0}
  /\ None \notin Hosts \cup Far \cup Macs /\ Gw \in Hosts

VARIABLES
  arp_table,            \* entries [state, ip, mac, ctime, q]
  etharp_cached_entry,
  out,                  \* packets [to, mac] that the last call put on the wire
  asked,                \* history: hosts re-requested since the last etharp_tmr
  heard                 \* history: the address each host last announced

vars == <<arp_table, etharp_cached_entry, out, asked, heard>>

Index == 0 .. ARP_TABLE_SIZE - 1
Entry == [state : {"EMPTY", "PENDING", "STABLE", "REREQUESTING"},
          ip : Hosts \cup {None}, mac : Macs \cup {None},
          ctime : 0 .. ARP_MAXAGE, q : Hosts \cup Far \cup {None}]

Stable(e) == e.state \in {"STABLE", "REREQUESTING"}

Init ==
  /\ arp_table = [i \in Index |-> [state |-> "EMPTY", ip |-> None, mac |-> None,
                                   ctime |-> 0, q |-> None]]
  /\ etharp_cached_entry = 0
  /\ out = {} /\ asked = {} /\ heard = [h \in Hosts |-> None]

-----------------------------------------------------------------------------
(* Mutant: a packet that still waits is left on the entry.                 *)
etharp_free_entryKeepsQueue(e) == [e EXCEPT !.state = "EMPTY"]

(* The packet that waits is dropped; address and age stay behind.          *)
etharp_free_entry(e) == [e EXCEPT !.state = "EMPTY", !.q = None]

Matches(h) == {i \in Index : arp_table[i].state # "EMPTY" /\ arp_table[i].ip = h}
Empties == {i \in Index : arp_table[i].state = "EMPTY"}

(* The sweep keeps the last of the oldest entries of a kind.               *)
Oldest(S) ==
  {i \in S : \A j \in S : \/ arp_table[j].ctime < arp_table[i].ctime
                          \/ arp_table[j].ctime = arp_table[i].ctime /\ j <= i}

(* Mutant: the first empty entry ends the sweep.                           *)
FoundEmptyFirst(h) ==
  {i \in Matches(h) : \A j \in Matches(h) \cup Empties : i <= j}

(* The sweep ends at the first match.                                      *)
Found(h) == {i \in Matches(h) : \A j \in Matches(h) : i <= j}

(* What is recycled: an empty entry, the oldest stable one, the oldest     *)
(* pending one without a packet, at last the oldest one with a packet.     *)
Recycled ==
  LET stable  == {i \in Index : Stable(arp_table[i])}
      waiting == {i \in Index : arp_table[i].q # None}
  IN  IF Empties # {} THEN {i \in Empties : \A j \in Empties : i <= j}
      ELSE IF stable # {} THEN Oldest(stable)
      ELSE IF Index \ waiting # {} THEN Oldest(Index \ waiting)
      ELSE Oldest(waiting)

(* etharp_find_entry with ETHARP_FLAG_TRY_HARD: the index to use, and the  *)
(* entry as it is left there.                                              *)
etharp_find_entry(h) == IF Found(h) # {} THEN Found(h) ELSE Recycled
EntryFor(h, i) ==
  IF Found(h) # {} THEN arp_table[i]
  ELSE [etharp_free_entry(arp_table[i]) EXCEPT !.ip = h, !.ctime = 0]

-----------------------------------------------------------------------------
(* The next hop of a packet: the gateway for everything outside.  Far is   *)
(* empty if there is no gateway: etharp_output then returns ERR_RTE.       *)
(* Broadcasts and multicasts pass without touching the table.              *)
Hop(p) == IF p \in Hosts THEN p ELSE Gw

(* etharp_output_to_arp_index: a used entry that is about to expire is     *)
(* asked for again, once in a timer period; the request may find no memory.*)
etharp_output_to_arp_index(p, i, ok) ==
  LET e == arp_table[i]
      due == e.state = "STABLE" /\ e.ctime >= ARP_AGE_REREQUEST_USED
  IN  /\ out' = {[to |-> p, mac |-> e.mac]}
      /\ arp_table' = IF due /\ ok
                      THEN [arp_table EXCEPT ![i].state = "REREQUESTING"]
                      ELSE arp_table
      /\ asked' = IF due THEN asked \cup {e.ip} ELSE asked

(* Mutant: a packet on a pending entry starts its age over.                *)
etharp_queryRestarts(p) ==
  /\ \E i \in etharp_find_entry(Hop(p)) :
       LET e == EntryFor(Hop(p), i)
       IN  \E q \in {p, e.q} :
             arp_table' = [arp_table EXCEPT ![i] =
                             [e EXCEPT !.state = "PENDING", !.q = q, !.ctime = 0]]
  /\ out' = {} /\ UNCHANGED <<etharp_cached_entry, asked>>

(* etharp_query: a pending entry, new or not, is asked for and the packet  *)
(* takes the place of the one that waits, unless there is no memory to     *)
(* copy it.  (Entries that are stable do not come here.)                   *)
etharp_query(p) ==
  /\ \E i \in etharp_find_entry(Hop(p)) :
       LET e == EntryFor(Hop(p), i)
       IN  \E q \in {p, e.q} :
             arp_table' = [arp_table EXCEPT ![i] =
                             [e EXCEPT !.state = "PENDING", !.q = q]]
  /\ out' = {} /\ UNCHANGED <<etharp_cached_entry, asked>>

(* Mutant: the cached index is trusted as long as its entry is stable.     *)
UsableUnmatched(i, h) == Stable(arp_table[i])

Usable(i, h) == Stable(arp_table[i]) /\ arp_table[i].ip = h

(* etharp_output: the cached index, else the first stable entry, else a    *)
(* query.                                                                  *)
etharp_output(p) ==
  /\ \/ /\ Usable(etharp_cached_entry, Hop(p))
        /\ \E ok \in BOOLEAN : etharp_output_to_arp_index(p, etharp_cached_entry, ok)
        /\ UNCHANGED etharp_cached_entry
     \/ /\ ~Usable(etharp_cached_entry, Hop(p))
        /\ \E i \in Index, ok \in BOOLEAN :
             /\ Usable(i, Hop(p)) /\ \A j \in 0 .. i - 1 : ~Usable(j, Hop(p))
             /\ etharp_output_to_arp_index(p, i, ok)
             /\ etharp_cached_entry' = i
     \/ (\A i \in Index : ~Usable(i, Hop(p))) /\ etharp_query(p)
  /\ UNCHANGED heard

-----------------------------------------------------------------------------
(* etharp_update_arp_entry, once the entry is found: it is stable and new, *)
(* and what waits on it goes out to the address just learnt.               *)
Update(i, e, m) ==
  /\ arp_table' = [arp_table EXCEPT ![i] =
       [e EXCEPT !.state = "STABLE", !.mac = m, !.ctime = 0, !.q = None]]
  /\ out' = IF e.q = None THEN {} ELSE {[to |-> e.q, mac |-> m]}

(* etharp_arp_input: a message for us makes an entry, any other one only   *)
(* brings an entry up to date; 0.0.0.0 is not entered.  (The reply to a    *)
(* request reuses the buffer of the request and touches no state.)         *)
etharp_arp_input(sip, m, for_us) ==
  /\ \/ /\ sip \in Hosts /\ (for_us \/ Found(sip) # {})
        /\ \E i \in etharp_find_entry(sip) : Update(i, EntryFor(sip, i), m)
     \/ /\ sip = None \/ (~for_us /\ Found(sip) = {})
        /\ out' = {} /\ UNCHANGED arp_table
  /\ heard' = [h \in Hosts |-> IF h = sip THEN m ELSE heard[h]]
  /\ UNCHANGED <<etharp_cached_entry, asked>>

Expired(e) ==
  \/ e.ctime + 1 >= ARP_MAXAGE
  \/ e.state = "PENDING" /\ e.ctime + 1 >= ARP_MAXPENDING

(* Mutant: an entry that was asked for once is not asked for again.        *)
AgedOnce(e) ==
  LET old == [e EXCEPT !.ctime = e.ctime + 1]
  IN  IF e.state = "EMPTY" THEN e
      ELSE IF Expired(e) THEN etharp_free_entry(old) ELSE old

(* An entry after etharp_tmr: expired, or ready to be asked for again.     *)
Aged(e) ==
  LET old == [e EXCEPT !.ctime = e.ctime + 1]
  IN  IF e.state = "EMPTY" THEN e
      ELSE IF Expired(e) THEN etharp_free_entry(old)
      ELSE IF e.state = "REREQUESTING" THEN [old EXCEPT !.state = "STABLE"]
      ELSE old

etharp_tmr ==
  /\ arp_table' = [i \in Index |-> Aged(arp_table[i])]
  /\ out' = {} /\ asked' = {}
  /\ UNCHANGED <<etharp_cached_entry, heard>>

-----------------------------------------------------------------------------
Next ==
  \/ \E p \in Hosts \cup Far : etharp_output(p)
  \/ \E sip \in Hosts \cup {None}, m \in Macs, for_us \in BOOLEAN :
       etharp_arp_input(sip, m, for_us)
  \/ etharp_tmr

Spec == Init /\ [][Next]_vars

(* LwIP_Periodic_Handle calls etharp_tmr every five seconds.               *)
FairSpec == Spec /\ WF_vars(etharp_tmr)

-----------------------------------------------------------------------------
(* Entries are well formed and no age exceeds ARP_MAXAGE, so that the u8_t *)
(* ctime cannot wrap round and make an old entry young.                    *)
TypeOK ==
  /\ arp_table \in [Index -> Entry]
  /\ etharp_cached_entry \in Index
  /\ out \in SUBSET [to : Hosts \cup Far, mac : Macs \cup {None}]
  /\ asked \in SUBSET Hosts
  /\ heard \in [Hosts -> Macs \cup {None}]

(* However entries expire, are recycled and come back, no host has two, so *)
(* that an update cannot miss the entry that packets are sent by.          *)
OneEntryPerHost ==
  \A i, j \in Index :
    /\ arp_table[i].state # "EMPTY" /\ arp_table[j].state # "EMPTY"
    /\ arp_table[i].ip = arp_table[j].ip
    => i = j

(* A packet waits only on a pending entry, the one of its own next hop:    *)
(* the assertion of etharp_find_entry on recycled stable entries, and the  *)
(* reason why a packet sent at once cannot overtake one that waits.        *)
WaitsOnItsHop ==
  \A i \in Index : arp_table[i].q # None =>
    arp_table[i].state = "PENDING" /\ arp_table[i].ip = Hop(arp_table[i].q)

(* Every packet, sent at once, by the cached index or after a wait, goes   *)
(* to the address that its next hop announced last.                        *)
SentWhereHeard ==
  \A f \in out : f.mac # None /\ f.mac = heard[Hop(f.to)]

(* An entry in use is asked for in every timer period in which it is near  *)
(* its end ("Re-request a used ARP entry 1 minute before it would expire   *)
(* to prevent breaking a steadily used connection").                       *)
Rerequested ==
  \A f \in out : \A i \in Index :
    /\ Stable(arp_table[i]) /\ arp_table[i].ip = Hop(f.to)
    /\ arp_table[i].ctime >= ARP_AGE_REREQUEST_USED
    => Hop(f.to) \in asked

(* No host stays pending for ever, however often packets are sent to it.   *)
PendingEnds ==
  \A h \in Hosts :
    (\E i \in Index : arp_table[i].state = "PENDING" /\ arp_table[i].ip = h)
      ~> (\A i \in Index : arp_table[i].state = "PENDING" => arp_table[i].ip # h)

=============================================================================

------------------------------- MODULE Relay -------------------------------
(***************************************************************************)
(* What the gateway promises between the server and the bus, without       *)
(* buffers, superloop or interrupts: a relay that may lose frames but      *)
(* neither repeats nor reorders nor invents them.  Poll lists are lost     *)
(* only with their connection, and the list in force is polled entry by    *)
(* entry, round after round, from its first entry whenever it is replaced. *)
(***************************************************************************)
EXTENDS Integers, Sequences

CONSTANTS Frames,   \* what an FFAA message carries
          Lists,    \* what an FFBB message carries: a sequence of entries
          Other     \* any other message

VARIABLES sent,     \* the messages of the server, in order, without those
                    \* that were lost with their connection
          next,     \* the last of them that had an effect here
          list, at, \* the poll list in force and the entries polled so far
          out,      \* what was put on the bus last
          downs,    \* frames of the server put on the bus so far
          heard,    \* frames received from the bus so far
          up, ups   \* the last of them given to the server, and how many

relayVars == <<sent, next, list, at, out, downs, heard, up, ups>>

Nothing == [src |-> "none"]

(* The entries up to the first one with the wrong letter.                  *)
Usable(l, k) == k \in 1 .. Len(l) /\ l[k].key = k

Init ==
  /\ sent = <<>> /\ next = 0 /\ list = <<>> /\ at = 0 /\ out = Nothing
  /\ downs = 0 /\ heard = 0 /\ up = 0 /\ ups = 0

ServerSends(m) ==
  /\ sent' = Append(sent, m)
  /\ UNCHANGED <<next, list, at, out, downs, heard, up, ups>>

(* The connection is lost: messages behind number n never come in.         *)
Disconnect(n) ==
  /\ n \in next .. Len(sent) /\ sent' = SubSeq(sent, 1, n)
  /\ UNCHANGED <<next, list, at, out, downs, heard, up, ups>>

(* Frame i goes to the bus.  Frames before it may have been lost, lists    *)
(* may not.                                                                *)
Forward(i) ==
  /\ i \in next + 1 .. Len(sent) /\ sent[i] \in Frames
  /\ \A j \in next + 1 .. i : sent[j] \notin Lists
  /\ next' = i
  /\ out' = [src |-> "server", frame |-> sent[i]] /\ downs' = downs + 1
  /\ UNCHANGED <<sent, list, at, heard, up, ups>>

Configure(i) ==
  /\ i \in next + 1 .. Len(sent) /\ sent[i] \in Lists
  /\ \A j \in next + 1 .. i - 1 : sent[j] \notin Lists
  /\ next' = i /\ list' = sent[i].entries /\ at' = 0
  /\ UNCHANGED <<sent, out, downs, heard, up, ups>>

(* The next entry has its turn; it is on the bus unless the bus was busy.  *)
PollEntry ==
  /\ Usable(list, at + 1) /\ at' = at + 1
  /\ out' \in {out, [src |-> "poll", frame |-> list[at + 1].frame]}
  /\ UNCHANGED <<sent, next, list, downs, heard, up, ups>>

EndOfRound ==
  /\ ~Usable(list, at + 1) /\ at' = 0
  /\ UNCHANGED <<sent, next, list, out, downs, heard, up, ups>>

Hear ==
  /\ heard' = heard + 1
  /\ UNCHANGED <<sent, next, list, at, out, downs, up, ups>>

Uplink(j) ==
  /\ j \in up + 1 .. heard /\ up' = j /\ ups' = ups + 1
  /\ UNCHANGED <<sent, next, list, at, out, downs, heard>>

Next ==
  \/ \E m \in Frames \cup Lists \cup {Other} : ServerSends(m)
  \/ \E n \in 0 .. Len(sent) : Disconnect(n)
  \/ \E i \in 1 .. Len(sent) : Forward(i) \/ Configure(i)
  \/ PollEntry \/ EndOfRound \/ Hear
  \/ \E j \in 1 .. heard : Uplink(j)

Spec == Init /\ [][Next]_relayVars
=============================================================================

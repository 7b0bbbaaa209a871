------------------------------ MODULE MpiEngine ------------------------------
(***************************************************************************)
(* What the tool relies on in the MPI library, which is not part of the    *)
(* repository: point-to-point messages and collective operations on two    *)
(* communicators, "app", the program's, and "dup", the duplicate on which  *)
(* the tool exchanges its clocks (CommData::getDupComm).                   *)
(*                                                                         *)
(* Messages of one sender do not overtake each other: a receive takes the  *)
(* first message of a sender that fits it, and a message goes to the first *)
(* receive posted that it fits.  When this happens is up to the library.   *)
(* Sends are eager: the library copies the buffer, and they are complete   *)
(* at once.  The tool's messages are NUM_UC_VALUES = 4 doubles.            *)
(***************************************************************************)
EXTENDS Integers, Sequences, SequencesExt, FiniteSets

CONSTANTS
  Ranks,
  ANY,       \* MPI_ANY_SOURCE and MPI_ANY_TAG
  ProcNull   \* MPI_PROC_NULL

VARIABLES
  chan,    \* chan[c][s, r]: messages from s to r on c that no receive has taken
  posted,  \* posted[c][r]: receives of r on c that have no message, in the order posted
  got,     \* completed receives, with the message or, if cancelled, NoMessage
  coll     \* coll[c][r]: what r has contributed to the collectives on c, in its order

engine == <<chan, posted, got, coll>>

Comms == {"app", "dup"}

EngineInit ==
  /\ chan = [c \in Comms |-> [sr \in Ranks \X Ranks |-> <<>>]]
  /\ posted = [c \in Comms |-> [r \in Ranks |-> <<>>]]
  /\ got = {}
  /\ coll = [c \in Comms |-> [r \in Ranks |-> <<>>]]

NoMessage == [src |-> ProcNull, tag |-> ANY]

\* The program uses the two sides of a start or stop marker for messages of
\* their own: a receive posted on one side is not meant for a message sent on
\* the other.
Fits(c, v, m) ==
  /\ v.src \in {m.src, ANY} /\ v.tag \in {m.tag, ANY}
  /\ c = "app" => v.side = m.side

Match(c, r, s) ==
  \E i \in DOMAIN posted[c][r], j \in DOMAIN chan[c][s, r] :
    LET v == posted[c][r][i]
        m == chan[c][s, r][j]
    IN /\ Fits(c, v, m)
       /\ \A k \in 1..(i - 1) : ~Fits(c, posted[c][r][k], m)
       /\ \A k \in 1..(j - 1) : ~Fits(c, v, chan[c][s, r][k])
       /\ posted' = [posted EXCEPT ![c][r] = RemoveAt(@, i)]
       /\ chan' = [chan EXCEPT ![c][s, r] = RemoveAt(@, j)]
       /\ got' = got \cup {[op |-> v.op, buf |-> v.buf, m |-> m]}
       /\ UNCHANGED coll

\* The messages a probe with these arguments may find: those a receive posted
\* now could take.
Probed(r, src, tag, side) ==
  {sj \in UNION {{s} \X (DOMAIN chan["app"][s, r]) : s \in Ranks} :
     LET m == chan["app"][sj[1], r][sj[2]]
         v == [src |-> src, tag |-> tag, side |-> side]
     IN /\ Fits("app", v, m)
        /\ \A k \in 1..(sj[2] - 1) : ~Fits("app", v, chan["app"][sj[1], r][k])
        /\ \A k \in DOMAIN posted["app"][r] : ~Fits("app", posted["app"][r][k], m)}

Received(op) == \E g \in got : g.op = op
MessageOf(op) == IF Received(op) THEN (CHOOSE g \in got : g.op = op).m ELSE NoMessage

\* PMPI_Cancel of a receive succeeds if it has no message yet.
Cancelled(c, r, op) == \E i \in DOMAIN posted[c][r] : posted[c][r][i].op = op

\* Whether rank r is through the n-th collective on c: the root of a broadcast
\* and the others of a reduction need not wait.
CollDone(c, r, n) ==
  LET what == coll[c][r][n]
      There(q) == Len(coll[c][q]) >= n
  IN CASE what.op = "bcast" -> There(what.root)
       [] what.op = "reduce" -> r = what.root => \A q \in what.group : There(q)
       [] what.op = "allreduce" -> \A q \in what.group : There(q)
=============================================================================

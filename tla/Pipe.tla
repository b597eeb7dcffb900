-------------------------------- MODULE Pipe --------------------------------
(***************************************************************************)
(* A pipe of libpipe (pipe.c, pipe.h) as pflocal and trans/fifo.c use it:  *)
(* threads write, read and select, sleep on the pipe's conditions, and     *)
(* give the pipe's lock up in the middle of a write or a read to let       *)
(* others in before they wake the selects.  A step of a thread is what it  *)
(* does while it holds the lock.  In pflocal a socket has a reference to   *)
(* the pipe for each end that it uses, and a call takes one more for its   *)
(* time; in a fifo only the opens have references, and a call lies within  *)
(* the life of its open.                                                   *)
(***************************************************************************)
EXTENDS Integers, FiniteSets, Sequences

CONSTANTS
  Readers, Writers,  \* threads that read, threads that write
  Classes,        \* pipe classes to look at: "stream", "seqpack", "dgram"
  write_limit,    \* bytes that the pipe holds
  write_atomic,   \* longer writes may be shortened when they do not block
  size_large,     \* PACKET_SIZE_LARGE: longer writes may have their own packet
  MaxEnds,        \* bound: open reading ends, and open writing ends
  RecordControl   \* TRUE: control data is sent on record pipes too

ASSUME PipeAssumption ==
  /\ IsFiniteSet(Readers) /\ IsFiniteSet(Writers)
  /\ write_limit \in Nat /\ write_limit > 1
  /\ write_atomic \in Nat /\ size_large \in Nat /\ MaxEnds \in Nat
  /\ RecordControl \in BOOLEAN

Threads == Readers \cup Writers
Ends    == {"readers", "writers"}

other(e) == IF e = "readers" THEN "writers" ELSE "readers"

VARIABLES
  class,       \* pipe->class
  fifo,        \* the pipe is a fifo's, not a socket's
  queue,       \* pipe->queue
  pipe,        \* pipe->readers and writers, PIPE_BROKEN, pipe_free was called
  ends,        \* sockets or opens that hold the reading, the writing end
  th,          \* what each thread does in the pipe
  woken,       \* threads whose condition was broadcast
  met,         \* history: there were readers and writers at the same time
  aborted      \* history: the assertion of pipe_recv failed

vars == <<class, fifo, queue, pipe, ends, th, woken, met, aborted>>

broken == pipe.broken
freed  == pipe.freed

stream   == class = "stream"
connless == class = "dgram"

data(n) == [type |-> "data", n |-> n]
control == [type |-> "control", n |-> 0]

Idle == [pc |-> "idle"]
Asleep(t) == th[t].pc \in {"rwait", "rsel", "wwait", "wsel"} /\ t \notin woken

(* The end that call C works at. *)
side(c) == IF c.pc \in {"rwait", "rnote", "rsel"} THEN "readers" ELSE "writers"

(* A datagram to an address is written by a thread that has the pipe as a  *)
(* reader, the pipe being what the socket at that address reads from.      *)
addressed(c) == c.pc \in {"wwait", "wnote"} /\ c.addressed

acquired_as(c) == IF addressed(c) THEN "readers" ELSE side(c)

\* a wrong released_as, for the mutants
released_at_side(c) == side(c)

released_as(c) == IF addressed(c) THEN "readers" ELSE side(c)

(* The bytes in Q, by their packet and their place in it. *)
bytes(q) == UNION {{i} \X (1 .. q[i].n) : i \in DOMAIN q}

pipe_readable(q) == Cardinality(bytes(q))

pipe_is_readable(q, data_only) ==
  \E i \in DOMAIN q : data_only => q[i].type = "data"

(* Room for AMOUNT more bytes, as pipe_wait_writable_amount sees it. *)
writable_amount(q, amount) == pipe_readable(q) + amount < write_limit

(* pthread_cond_broadcast on the condition that threads at PCS sleep on. *)
waiting(pcs) == {t \in Threads : th[t].pc \in pcs}

pending_reads        == waiting({"rwait"})
pending_read_selects == waiting({"rsel"})
\* pipe_select_writable sleeps on pending_writes
pending_writes       == waiting({"wwait", "wsel"})

-----------------------------------------------------------------------------
(* pipe_acquire_reader and pipe_acquire_writer, with _pipe_first_*: the    *)
(* pipe P with one more user at end E.                                     *)
\* a wrong acquire, for the mutants
acquire_reader(p, e) ==
  [count  |-> [p.count EXCEPT ![e] = @ + 1],
   broken |-> p.broken /\ ~(e = "readers" /\ p.count[e] = 0 /\ p.count["writers"] > 0),
   freed  |-> p.freed]

acquire(p, e) ==
  [count  |-> [p.count EXCEPT ![e] = @ + 1],
   broken |-> p.broken /\ ~(p.count[e] = 0 /\ p.count[other(e)] > 0),
   freed  |-> p.freed]

(* pipe_release_reader and pipe_release_writer, with _pipe_no_*: the last  *)
(* user of all frees the pipe, the last one at an end breaks it.           *)
release(p, e) ==
  LET last == p.count[e] = 1
  IN [count  |-> [p.count EXCEPT ![e] = @ - 1],
      broken |-> \/ p.broken
                 \/ last /\ p.count[other(e)] # 0 /\ (e = "readers" \/ ~connless),
      freed  |-> p.freed \/ (last /\ p.count[other(e)] = 0)]

\* a wrong bad_news, for the mutants
bad_news_reads(p, e) ==
  IF p.count[e] # 1 \/ p.count[other(e)] = 0 THEN {}
  ELSE IF e = "readers" THEN pending_writes
  ELSE IF connless THEN {} ELSE pending_reads

(* Whom _pipe_no_readers and _pipe_no_writers wake up. *)
bad_news(p, e) ==
  IF p.count[e] # 1 \/ p.count[other(e)] = 0 THEN {}
  ELSE IF e = "readers" THEN pending_writes
  ELSE IF connless THEN {} ELSE pending_reads \cup pending_read_selects

Becomes(p) ==
  /\ pipe' = p
  /\ met' = (met \/ (p.count["readers"] > 0 /\ p.count["writers"] > 0))

(* Thread T goes on with its call C, and then to TO, where it is not yet   *)
(* woken; it wakes WAKES.  The call's reference is taken in its first step *)
(* and given back in its last one, which may be the same.                  *)
Step(t, c, to, wakes) ==
  LET entered == IF th[t] = Idle /\ ~fifo THEN acquire(pipe, acquired_as(c)) ELSE pipe
      leaves  == to = Idle /\ ~fifo
      news    == IF leaves THEN bad_news(entered, released_as(c)) ELSE {}
  IN /\ th' = [th EXCEPT ![t] = to]
     /\ Becomes(IF leaves THEN release(entered, released_as(c)) ELSE entered)
     /\ woken' = (woken \cup wakes \cup news) \ {t}
     /\ UNCHANGED <<class, fifo, ends>>

(* pipe_create, and the first user: a socket reads from the pipe that it   *)
(* creates; whoever opens a fifo first, to read or to write, clears        *)
(* PIPE_BROKEN, to avoid an immediate end of file.                         *)
Created == [count |-> [e \in Ends |-> 0], broken |-> ~connless /\ ~fifo, freed |-> FALSE]

Init ==
  /\ class \in Classes
  /\ fifo \in BOOLEAN /\ (fifo => ~connless)
  /\ \E first \in IF fifo THEN Ends ELSE {"readers"} :
       /\ ends = [e \in Ends |-> IF e = first THEN 1 ELSE 0]
       /\ pipe = acquire(Created, first)
  /\ queue = <<>>
  /\ th = [t \in Threads |-> Idle]
  /\ woken = {}
  /\ met = FALSE
  /\ aborted = FALSE

-----------------------------------------------------------------------------
(* pipe_send: W holds what is left to do. *)
\* a wrong put, for the mutants
put_between(q, n) ==
  {IF stream /\ q # <<>> /\ q[Len(q)].type = "control"
     THEN Append(SubSeq(q, 1, Len(q) - 1), data(n)) \o <<q[Len(q)]>>
     ELSE Append(q, data(n))}

(* The queues that come of N more bytes: on a stream they extend the last  *)
(* packet, but for a large piece that may get a packet of its own.         *)
put(q, n) ==
  LET extends == stream /\ q # <<>> /\ q[Len(q)].type = "data"
  IN (IF extends THEN {[q EXCEPT ![Len(q)].n = @ + n]} ELSE {})
       \cup (IF ~extends \/ n > size_large THEN {Append(q, data(n))} ELSE {})

amount(w) == IF w.first \/ stream THEN 1 ELSE w.todo

(* With the lock, and room seen: write a piece, or wait for more room. *)
write_piece(t, w, wakes) ==
  LET left  == write_limit - pipe_readable(queue)
      short == w.noblock /\ left < w.todo
      todo  == IF short THEN left ELSE w.todo
      q     == IF w.first /\ w.control THEN Append(queue, control) ELSE queue
      piece == IF todo <= left THEN todo ELSE IF stream THEN left ELSE 0
      after == [w EXCEPT !.first = FALSE, !.control = FALSE, !.todo = todo - piece]
  IN IF w.first /\ short /\ (~stream \/ w.todo <= write_atomic)
       THEN Step(t, w, Idle, wakes) /\ UNCHANGED queue          \* EWOULDBLOCK
     ELSE IF piece > 0
       THEN /\ queue' \in put(q, piece)
            /\ Step(t, w, [after EXCEPT !.pc = "wnote"], wakes \cup pending_reads)
     ELSE /\ queue' = q
          /\ Step(t, w, IF broken THEN Idle ELSE [after EXCEPT !.pc = "wwait"],
                  wakes)

(* With an address, the pipe is there while its reader is. *)
pipe_send(t, w) ==
  /\ th[t] = Idle /\ ends[acquired_as(w)] > 0
  /\ ~broken                                                \* else EPIPE
  /\ \/ writable_amount(queue, 1) /\ write_piece(t, w, {})
     \/ /\ ~writable_amount(queue, 1)
        /\ ~w.noblock                                       \* EWOULDBLOCK
        /\ Step(t, w, w, {}) /\ UNCHANGED queue
  /\ UNCHANGED aborted

(* A writer wakes up in pipe_wait_writable_amount. *)
send_resume(t) ==
  /\ th[t].pc = "wwait" /\ t \in woken
  /\ \/ broken /\ Step(t, th[t], Idle, {}) /\ UNCHANGED queue
     \/ /\ ~broken /\ ~writable_amount(queue, amount(th[t]))
        /\ Step(t, th[t], th[t], {}) /\ UNCHANGED queue
     \/ /\ ~broken /\ writable_amount(queue, amount(th[t]))
        /\ write_piece(t, th[t], {})
  /\ UNCHANGED aborted

(* It has got the lock back after a piece: tell the selects, go on. *)
send_note(t) ==
  LET selects == IF pipe_is_readable(queue, FALSE) THEN pending_read_selects
                 ELSE {}
  IN /\ th[t].pc = "wnote"
     /\ IF th[t].noblock \/ th[t].todo = 0
          THEN Step(t, th[t], Idle, selects) /\ UNCHANGED queue
          ELSE write_piece(t, th[t], selects)
     /\ UNCHANGED aborted

-----------------------------------------------------------------------------
(* pipe_recv.  A `data only' read drops the control packets in front; a    *)
(* message read takes the first one, with the data packet behind it.       *)
head_control(q) == q # <<>> /\ Head(q).type = "control"

from_data(q) ==
  LET ds == {i \in DOMAIN q : q[i].type = "data"}
  IN IF ds = {} THEN <<>>
     ELSE SubSeq(q, CHOOSE i \in ds : \A j \in ds : i <= j, Len(q))

(* What the read leaves of a queue with a data packet in front: only a     *)
(* datagram is dropped when it was not read to its end.                    *)
consume(q, r) ==
  IF r.peek THEN q
  ELSE IF ~connless /\ Head(q).n > r.amount
    THEN [q EXCEPT ![1].n = @ - r.amount]
    ELSE Tail(q)

read_packet(t, r) ==
  LET q == IF r.data_only THEN from_data(queue)
           ELSE IF head_control(queue) THEN Tail(queue) ELSE queue
      lonely == ~r.data_only /\ head_control(queue)
                  /\ (q = <<>> \/ head_control(q))
  IN /\ aborted' = (aborted \/ lonely)
     /\ IF lonely \/ q = <<>>
          THEN queue' = q /\ Step(t, r, Idle, {})               \* EOF
          ELSE /\ queue' = consume(q, r)
               /\ Step(t, r, [pc |-> "rnote"], pending_writes)

ready(r) == pipe_is_readable(queue, r.data_only) \/ broken

pipe_recv(t, r) ==
  /\ th[t] = Idle /\ ends["readers"] > 0
  /\ \/ ready(r) /\ read_packet(t, r)
     \/ ~ready(r) /\ Step(t, r, r, {}) /\ UNCHANGED <<queue, aborted>>

(* A reader wakes up in pipe_wait_readable. *)
recv_resume(t) ==
  /\ th[t].pc = "rwait" /\ t \in woken
  /\ \/ ready(th[t]) /\ read_packet(t, th[t])
     \/ ~ready(th[t]) /\ Step(t, th[t], th[t], {}) /\ UNCHANGED <<queue, aborted>>

(* _pipe_wake_writers gets the lock back; nobody sleeps on                 *)
(* pending_write_selects.                                                  *)
recv_note(t) ==
  /\ th[t].pc = "rnote"
  /\ Step(t, th[t], Idle, {})
  /\ UNCHANGED <<queue, aborted>>

-----------------------------------------------------------------------------
(* pipe_select_readable and pipe_select_writable, with data_only set as in *)
(* S_io_select; a select that need not wait changes nothing.               *)
select_ready(pc) ==
  \/ broken
  \/ pc = "rsel" /\ pipe_is_readable(queue, TRUE)
  \/ pc = "wsel" /\ pipe_readable(queue) < write_limit

pipe_select(t, pc) ==
  /\ th[t] = Idle
  /\ ends[side([pc |-> pc])] > 0
  /\ ~select_ready(pc)
  /\ Step(t, [pc |-> pc], [pc |-> pc], {})
  /\ UNCHANGED <<queue, aborted>>

select_resume(t) ==
  /\ th[t].pc \in {"rsel", "wsel"} /\ t \in woken
  /\ Step(t, th[t], IF select_ready(th[t].pc) THEN Idle ELSE th[t], {})
  /\ UNCHANGED <<queue, aborted>>

(* A sleep is cancelled, or a select's timeout expires. *)
interrupt(t) ==
  /\ th[t].pc \in {"rwait", "wwait", "rsel", "wsel"}
  /\ Step(t, th[t], Idle, {})
  /\ UNCHANGED <<queue, aborted>>

(* Sockets connect to one that has not shut its reading end down, only     *)
(* once unless they are connectionless.  A fifo is given up, and its pipe  *)
(* not opened again, when its last reader closes it.                       *)
may_open(e) ==
  IF fifo THEN pipe.count["readers"] > 0 \/ ~met
  ELSE e = "writers" /\ ends["readers"] > 0 /\ (connless \/ ~met)

(* pipe_add_reader and pipe_add_writer: a socket or an open gets an end. *)
open_end(e) ==
  /\ ~freed /\ ends[e] < MaxEnds
  /\ may_open(e)
  /\ ends' = [ends EXCEPT ![e] = @ + 1]
  /\ Becomes(acquire(pipe, e))
  /\ UNCHANGED <<class, fifo, queue, th, woken, aborted>>

(* pipe_remove_reader and pipe_remove_writer: a socket is shut down or     *)
(* closed; an open of a fifo is closed after the calls that use it.        *)
close_end(e) ==
  /\ ends[e] > 0
  /\ fifo /\ ends[e] = 1 => \A t \in Threads : th[t] = Idle \/ side(th[t]) # e
  /\ ends' = [ends EXCEPT ![e] = @ - 1]
  /\ Becomes(release(pipe, e))
  /\ woken' = woken \cup bad_news(pipe, e)
  /\ UNCHANGED <<class, fifo, queue, th, aborted>>

-----------------------------------------------------------------------------
Lens == {1, write_limit - 1, write_limit + 1}

(* Sockets send control data and, without a connection, to an address. *)
WriteCalls ==
  {w \in [pc : {"wwait"}, todo : Lens, noblock : BOOLEAN, control : BOOLEAN,
          first : {TRUE}, addressed : BOOLEAN] :
     /\ w.control => ~fifo /\ (stream \/ RecordControl)
     /\ w.addressed => connless}

(* Sockets also read messages with their control data, and peek. *)
ReadCalls ==
  {r \in [pc : {"rwait"}, data_only : BOOLEAN, amount : {1, write_limit},
          peek : BOOLEAN] :
     /\ r.peek => r.amount = 1 /\ ~fifo
     /\ fifo => r.data_only}

Resume(t) ==
  \/ send_resume(t)
  \/ send_note(t)
  \/ recv_resume(t)
  \/ recv_note(t)
  \/ select_resume(t)

Next ==
  \/ \E t \in Writers :
       \/ \E w \in WriteCalls : pipe_send(t, w)
       \/ pipe_select(t, "wsel")
  \/ \E t \in Readers :
       \/ \E r \in ReadCalls : pipe_recv(t, r)
       \/ pipe_select(t, "rsel")
  \/ \E t \in Threads : Resume(t) \/ interrupt(t)
  \/ \E e \in Ends : open_end(e) \/ close_end(e)

Spec == Init /\ [][Next]_vars

-----------------------------------------------------------------------------
(* No lost wake-up: a thread that sleeps, and that nobody has woken, finds *)
(* the pipe as it waits for it to change; a select may also sleep while a  *)
(* writer that has given the lock up is about to wake it.                  *)
SleepersHaveCause ==
  \A t \in Threads : Asleep(t) =>
    /\ ~broken
    /\ CASE th[t].pc = "rwait" -> ~ready(th[t])
         [] th[t].pc = "wwait" -> ~writable_amount(queue, amount(th[t]))
         [] th[t].pc = "wsel"  -> ~select_ready("wsel")
         [] th[t].pc = "rsel"  -> \/ ~select_ready("rsel")
                                  \/ \E u \in Threads : th[u].pc = "wnote"

(* A message read finds a data packet behind a control packet: the         *)
(* assertion of pipe_recv.                                                 *)
NoAbort == ~aborted

(* Who uses the pipe at end E, in truth: an open end, or a call that has   *)
(* come in there.                                                          *)
Used(e) ==
  \/ ends[e] > 0
  \/ ~fifo /\ \E t \in Threads : th[t] # Idle /\ acquired_as(th[t]) = e

(* The pipe is freed when its last user goes, neither while a thread is    *)
(* in it or an end is open, nor never: what the references that sockets,   *)
(* opens and calls take and give back at either end add up to.             *)
FreedUnused ==
  freed <=> /\ \A e \in Ends : ends[e] = 0
            /\ \A t \in Threads : th[t] = Idle

(* However ends are closed and opened again and calls come and go, a pipe  *)
(* is broken exactly while nobody is there to read, or nobody to write     *)
(* where its class needs one: end of file and EPIPE are reported neither   *)
(* early nor for ever.  A fifo is not broken before its first reader and   *)
(* its first writer have met.                                              *)
BrokenMatches ==
  ~freed =>
    (broken <=> /\ ~Used("readers") \/ (~Used("writers") /\ ~connless)
                /\ fifo => met)
=============================================================================

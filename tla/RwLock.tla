------------------------------- MODULE RwLock -------------------------------
(***************************************************************************)
(* tokio::sync::RwLock as a value: waiters are served first come, first    *)
(* served, so a waiting writer holds back the readers behind it.           *)
(***************************************************************************)
EXTENDS Naturals, Sequences, SequencesExt

Free == [readers |-> {}, writer |-> {}, queue |-> << >>]

(* p awaits read() or write(). *)
Await(lock, p, kind) == [lock EXCEPT !.queue = Append(@, <<p, kind>>)]

(* p is at the head of the queue and may have what it waits for. *)
Granted(lock, p) ==
  /\ lock.queue # << >>
  /\ Head(lock.queue)[1] = p
  /\ lock.writer = {}
  /\ Head(lock.queue)[2] = "write" => lock.readers = {}

Acquire(lock, p) ==
  IF Head(lock.queue)[2] = "write"
    THEN [lock EXCEPT !.writer = {p}, !.queue = Tail(@)]
    ELSE [lock EXCEPT !.readers = @ \cup {p}, !.queue = Tail(@)]

Release(lock, p) ==
  [lock EXCEPT !.readers = @ \ {p}, !.writer = @ \ {p}]

(* The queue without the place of p, who waits at most once. *)
Without(queue, p) ==
  LET places == {i \in 1 .. Len(queue) : queue[i][1] = p}
  IN  IF places = {} THEN queue ELSE RemoveAt(queue, CHOOSE i \in places : TRUE)

(* The task of p is dropped: its guard, and its place among the waiters. *)
Leave(lock, p) == [Release(lock, p) EXCEPT !.queue = Without(@, p)]
=============================================================================

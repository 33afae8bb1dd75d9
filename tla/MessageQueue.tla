---------------------------- MODULE MessageQueue ----------------------------
(***************************************************************************)
(* MessageQueue of src/network/pseudo-network.h: the queue through which   *)
(* one node is sent messages, guarded by a Lock (src/utils/thread.h), a    *)
(* mutex with a condition variable.  Any thread pushes; the queue is       *)
(* popped by one thread, the receive loop of its node.                     *)
(*                                                                         *)
(* A step is one call of push or pop on the lock or on the queue.          *)
(***************************************************************************)
EXTENDS RingQueue

CONSTANTS Producers,    \* the threads that push
          Popper,       \* the thread that pops
          Nobody        \* the owner of a free mutex

Threads == Producers \cup {Popper}

ASSUME MessageQueueAssumption ==
  /\ Popper \notin Producers
  /\ Nobody \notin Threads

\* Beside the variables of its queue; taken is what the last pop() returned.
VARIABLES owner,        \* the thread that holds mtx_
          pc,           \* the call each thread is to make next
          msg           \* the message each producer pushes

vars == <<ring, owner, pc, msg, taken, asserts, aborted>>

Init == /\ RingInit
        /\ owner = Nobody
        /\ pc = [t \in Threads |-> "idle"]
        /\ msg = [p \in Producers |-> NoItem]

Goto(t, label) == pc' = [pc EXCEPT ![t] = label]

\* lock_.lock(), and the end of cv_.wait: the thread gets the free mutex.
Acquire(t) == owner = Nobody /\ owner' = t

\* lock_.unlock(), and the start of cv_.wait.
Release == owner' = Nobody
-----------------------------------------------------------------------------
\* push(msg): lock, add, notify_all, unlock.

Push(p, m) == /\ pc[p] = "idle"
              /\ ring.size_ < Limit
              /\ msg' = [msg EXCEPT ![p] = m]
              /\ Goto(p, "lock")
              /\ UNCHANGED <<ring, owner, taken>>

\* Mutant: push does not lock.
PushLock_Missing(p) == /\ pc[p] = "lock"
                       /\ Goto(p, "add")
                       /\ UNCHANGED <<ring, owner, msg, taken>>

PushLock(p) == /\ pc[p] = "lock"
               /\ Acquire(p)
               /\ Goto(p, "add")
               /\ UNCHANGED <<ring, msg, taken>>

PushAdd(p) == /\ pc[p] = "add"
              /\ ring' = add(ring, msg[p])
              /\ Goto(p, "notify")
              /\ UNCHANGED <<owner, msg, taken>>

\* Mutant: push does not notify.
PushNotify_Missing(p) == /\ pc[p] = "notify"
                         /\ Goto(p, "unlock")
                         /\ UNCHANGED <<ring, owner, msg, taken>>

\* notify_all wakes the thread that waits, if it does.
PushNotify(p) ==
  /\ pc[p] = "notify"
  /\ pc' = [pc EXCEPT ![p] = "unlock",
                      ![Popper] = IF @ = "waiting" THEN "woken" ELSE @]
  /\ UNCHANGED <<ring, owner, msg, taken>>

PushUnlock(p) == /\ pc[p] = "unlock"
                 /\ Release
                 /\ Goto(p, "idle")
                 /\ UNCHANGED <<ring, msg, taken>>
-----------------------------------------------------------------------------
\* pop(): lock, while (size_ == 0) wait, remove, unlock.

Pop == /\ pc[Popper] = "idle"
       /\ Acquire(Popper)
       /\ Goto(Popper, "test")
       /\ UNCHANGED <<ring, msg, taken>>

\* while (size_ == 0)
PopTest == /\ pc[Popper] = "test"
           /\ Goto(Popper, IF ring.size_ = 0 THEN "wait" ELSE "remove")
           /\ UNCHANGED <<ring, owner, msg, taken>>

\* Mutant: the popper sleeps with the mutex locked.
PopWait_Locked == /\ pc[Popper] = "wait"
                  /\ Goto(Popper, "waiting")
                  /\ UNCHANGED <<ring, owner, msg, taken>>

\* cv_.wait gives up the mutex and sleeps, in one step.
PopWait == /\ pc[Popper] = "wait"
           /\ Release
           /\ Goto(Popper, "waiting")
           /\ UNCHANGED <<ring, msg, taken>>

\* A condition variable may wake its waiter without a notification.
SpuriousWakeup == /\ pc[Popper] = "waiting"
                  /\ Goto(Popper, "woken")
                  /\ UNCHANGED <<ring, owner, msg, taken>>

PopRelock == /\ pc[Popper] = "woken"
             /\ Acquire(Popper)
             /\ Goto(Popper, "test")
             /\ UNCHANGED <<ring, msg, taken>>

PopRemove == /\ pc[Popper] = "remove"
             /\ ~(asserts /\ RemoveAborts(ring))
             /\ taken' = Removed(ring)
             /\ ring' = remove(ring)
             /\ Goto(Popper, "unlock")
             /\ UNCHANGED <<owner, msg>>

PopUnlock == /\ pc[Popper] = "unlock"
             /\ Release
             /\ Goto(Popper, "idle")
             /\ UNCHANGED <<ring, msg, taken>>

PopAbort == /\ pc[Popper] = "remove"
            /\ asserts /\ RemoveAborts(ring)
            /\ aborted' = TRUE
            /\ UNCHANGED <<ring, owner, pc, msg, taken, asserts>>
-----------------------------------------------------------------------------
ProducerStep(p) == \/ PushLock(p)
                   \/ PushAdd(p)
                   \/ PushNotify(p)
                   \/ PushUnlock(p)

PopperStep == \/ Pop
              \/ PopTest
              \/ PopWait
              \/ PopRelock
              \/ PopRemove
              \/ PopUnlock

\* A step of a program that has not aborted, and goes on.
Alive(step) == ~aborted /\ step /\ UNCHANGED <<asserts, aborted>>

Next == \/ \E p \in Producers, m \in Item : Alive(Push(p, m))
        \/ \E p \in Producers : Alive(ProducerStep(p))
        \/ Alive(PopperStep)
        \/ Alive(SpuriousWakeup)
        \/ ~aborted /\ PopAbort

Spec == Init /\ [][Next]_vars

\* The scheduler runs every thread, and a thread that finds the mutex free
\* again and again gets it in the end.  Nobody has to push, and a wakeup
\* without notification need never happen.
Fairness == /\ \A p \in Producers : SF_vars(Alive(ProducerStep(p)))
            /\ SF_vars(Alive(PopperStep) \/ (~aborted /\ PopAbort))

FairSpec == Spec /\ Fairness
-----------------------------------------------------------------------------
Labels == {"idle", "lock", "add", "notify", "unlock",
           "test", "wait", "waiting", "woken", "remove"}

(* The values of the variables.                                            *)
TypeOK ==
  /\ RingTypeOK
  /\ owner \in Threads \cup {Nobody}
  /\ pc \in [Threads -> Labels]
  /\ msg \in [Producers -> Item \cup {NoItem}]

\* Threads between lock and unlock.
Inside(t) == pc[t] \in {"add", "notify", "unlock", "test", "wait", "remove"}

(* No wakeup is lost: when the popper sleeps although the queue holds a    *)
(* message, some producer is about to notify it.  A notification that came *)
(* between the popper's test of size_ and its wait would be lost; holding  *)
(* mtx_ over both, and add and notify_all over one, rules that out.        *)
NoLostWakeup ==
  pc[Popper] \in {"wait", "waiting"} /\ ring.size_ > 0
    => \E p \in Producers : pc[p] = "notify"

(* With assertions compiled in no pop ever returns: the first one aborts   *)
(* the program.                                                            *)
PopNeverReturns == asserts => taken = NoItem

(* A message that is in the queue is popped in the end, or the assertion   *)
(* in remove ends the program.                                             *)
Delivered ==
  \A m \in Item : (\E i \in 1 .. ring.size_ : Contents(ring)[i] = m)
                    ~> (taken = m \/ aborted)

(* A push returns in the end: the popper does not keep the mutex while it  *)
(* waits for a message.                                                    *)
PushReturns ==
  \A p \in Producers : (pc[p] = "lock") ~> (pc[p] = "idle" \/ aborted)
=============================================================================

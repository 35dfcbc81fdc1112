----------------------------- MODULE AdvProofs -----------------------------
(***************************************************************************)
(* What the advertising window of BleAdv guarantees for any number of      *)
(* presses and sessions.                                                   *)
(***************************************************************************)
EXTENDS BleAdv, SequenceTheorems, TLAPS

\* The queues that k_work_submit can build.
Queues == {<<>>, <<"on">>, <<"off">>, <<"on", "off">>, <<"off", "on">>}

\* Why an open window is not forgotten: with no central there the node is
\* advertising and no half-run adv_off_fn is about to stop it, or an
\* adv_on_work is still to run.
WindowServed ==
    adv_window_open /\ ~conn =>
        \/ advertising /\ handler # "off_stop"
        \/ Queued("on")
        \/ handler = "on"

AdvInv == AdvTypeOK /\ WindowServed /\ EndPending
-----------------------------------------------------------------------------
\* What waits in each of the five queues.
LEMMA WhatWaits ==
    /\ \A w \in Works : ~(\E i \in 1 .. Len(<<>>) : <<>>[i] = w)
    /\ \E i \in 1 .. Len(<<"on">>) : <<"on">>[i] = "on"
    /\ ~(\E i \in 1 .. Len(<<"on">>) : <<"on">>[i] = "off")
    /\ \E i \in 1 .. Len(<<"off">>) : <<"off">>[i] = "off"
    /\ ~(\E i \in 1 .. Len(<<"off">>) : <<"off">>[i] = "on")
    /\ \A w \in Works : \E i \in 1 .. Len(<<"on", "off">>) : <<"on", "off">>[i] = w
    /\ \A w \in Works : \E i \in 1 .. Len(<<"off", "on">>) : <<"off", "on">>[i] = w
BY DEF Works

\* What appending makes of the queues that lack an item.
LEMMA QueueAppend ==
    /\ Append(<<>>, "on") = <<"on">>
    /\ Append(<<>>, "off") = <<"off">>
    /\ Append(<<"on">>, "off") = <<"on", "off">>
    /\ Append(<<"off">>, "on") = <<"off", "on">>
<1>1. ASSUME NEW v \in Works, NEW w \in Works
      PROVE  Append(<<v>>, w) = <<v, w>>
  <2>1. <<v>> \in Seq(Works) /\ <<v, w>> \in Seq(Works)
    OBVIOUS
  <2>2. /\ Append(<<v>>, w) \in Seq(Works)
        /\ Len(Append(<<v>>, w)) = 2
        /\ Append(<<v>>, w)[1] = v /\ Append(<<v>>, w)[2] = w
    BY <2>1, AppendProperties
  <2>3. \A i \in 1 .. Len(Append(<<v>>, w)) : Append(<<v>>, w)[i] = <<v, w>>[i]
    BY <2>2
  <2>4. QED
    BY <2>1, <2>2, <2>3, SeqEqual
<1>2. QED
  BY <1>1 DEF Works

\* Submitting keeps the queue among the five, loses no item that waits, and
\* the submitted item waits afterwards.
LEMMA SubmitKeeps ==
    ASSUME queue \in Queues, NEW w \in Works, Submit(w)
    PROVE  /\ queue' \in Queues
           /\ Queued(w)'
           /\ \A v \in Works : Queued(v) => Queued(v)'
<1>1. CASE Queued(w)
  BY <1>1 DEF Submit, Queued
<1>2. CASE ~Queued(w)
  <2>1. queue' = Append(queue, w)
    BY <1>2 DEF Submit
  <2>2. CASE queue = <<>>
    BY <2>1, <2>2, QueueAppend, WhatWaits DEF Works, Queues, Queued
  <2>3. CASE queue = <<"on">>
    <3>1. w = "off"
      BY <1>2, <2>3, WhatWaits DEF Works, Queued
    <3>2. QED
      BY <2>1, <2>3, <3>1, QueueAppend, WhatWaits DEF Works, Queues, Queued
  <2>4. CASE queue = <<"off">>
    <3>1. w = "on"
      BY <1>2, <2>4, WhatWaits DEF Works, Queued
    <3>2. QED
      BY <2>1, <2>4, <3>1, QueueAppend, WhatWaits DEF Works, Queues, Queued
  <2>5. CASE queue = <<"on", "off">> \/ queue = <<"off", "on">>
    BY <1>2, <2>5, WhatWaits DEF Queued
  <2>6. QED
    BY <2>2, <2>3, <2>4, <2>5 DEF Queues
<1>3. QED
  BY <1>1, <1>2

\* Taking the head keeps the queue among the five, and an item that
\* waited waits on or is what the thread took.
LEMMA DequeueKeeps ==
    ASSUME queue \in Queues, Dequeue
    PROVE  /\ queue' \in Queues
           /\ handler' \in Works
           /\ \A v \in Works : Queued(v) => Queued(v)' \/ handler' = v
<1>1. /\ Head(<<"on">>) = "on" /\ Head(<<"on", "off">>) = "on"
      /\ Head(<<"off">>) = "off" /\ Head(<<"off", "on">>) = "off"
      /\ Tail(<<"on">>) = <<>> /\ Tail(<<"off">>) = <<>>
      /\ Tail(<<"on", "off">>) = <<"off">> /\ Tail(<<"off", "on">>) = <<"on">>
  OBVIOUS
<1>2. handler' = Head(queue) /\ queue' = Tail(queue) /\ queue # <<>>
  BY DEF Dequeue
<1>3. CASE queue = <<"on">>
  BY <1>1, <1>2, <1>3, WhatWaits DEF Queues, Works, Queued
<1>7. CASE queue = <<"on", "off">>
  BY <1>1, <1>2, <1>7, WhatWaits DEF Queues, Works, Queued
<1>4. CASE queue = <<"off">>
  BY <1>1, <1>2, <1>4, WhatWaits DEF Queues, Works, Queued
<1>5. CASE queue = <<"off", "on">>
  BY <1>1, <1>2, <1>5, WhatWaits DEF Queues, Works, Queued
<1>6. QED
  BY <1>2, <1>3, <1>4, <1>5, <1>7 DEF Queues
-----------------------------------------------------------------------------
LEMMA AdvInitInv == AdvInit => AdvInv
<1> SUFFICES ASSUME AdvInit PROVE AdvInv
  OBVIOUS
<1>1. WindowServed /\ EndPending
  BY DEF AdvInit, WindowServed, EndPending
<1>2. queue = <<>>
  BY DEF AdvInit
<1>3. presses \in 0 .. MaxPress /\ conns \in 0 .. MaxConn
  BY AdvAssumption DEF AdvInit
<1>4. QED
  BY <1>1, <1>2, <1>3 DEF AdvInit, AdvInv, AdvTypeOK, Handlers

LEMMA AdvStep == AdvInv /\ [AdvNext]_advVars => AdvInv'
<1> SUFFICES ASSUME AdvInv, [AdvNext]_advVars
             PROVE  AdvInv'
  OBVIOUS
<1> USE AdvAssumption DEF AdvInv, AdvTypeOK, WindowServed, EndPending, Handlers
<1>q. queue \in Queues
  BY DEF Queues
<1>k. ASSUME UNCHANGED queue
      PROVE  (Queued("on") => Queued("on")') /\ (Queued("off") => Queued("off")')
  BY <1>k DEF Queued
<1>1. CASE ble_advertise_window
  <2>1. queue' \in Queues /\ Queued("on")'
    BY <1>1, <1>q, SubmitKeeps DEF ble_advertise_window, Works
  <2>2. QED
    BY <1>1, <2>1 DEF ble_advertise_window, Queues
<1>2. CASE WindowExpires
  <2>1. queue' \in Queues /\ (Queued("on") => Queued("on")') /\ Queued("off")'
    BY <1>2, <1>q, SubmitKeeps DEF WindowExpires, Works
  <2>2. QED
    BY <1>2, <2>1 DEF WindowExpires, Queues
<1>3. CASE Dequeue
  <2>1. /\ queue' \in Queues
        /\ handler' \in Works
        /\ Queued("on") => Queued("on")' \/ handler' = "on"
        /\ Queued("off") => Queued("off")' \/ handler' = "off"
    BY <1>3, <1>q, DequeueKeeps DEF Works
  <2>2. QED
    BY <1>3, <2>1 DEF Dequeue, Queues, Works
<1>4. CASE adv_on_fn
  <2>1. WindowServed' /\ EndPending'
    BY <1>4, <1>k DEF adv_on_fn
  <2>2. QED
    BY <1>4, <2>1 DEF adv_on_fn
<1>5. CASE adv_off_flag
  BY <1>5 DEF adv_off_flag
<1>6. CASE adv_off_stop
  <2>1. WindowServed' /\ EndPending'
    BY <1>6, <1>k DEF adv_off_stop
  <2>2. QED
    BY <1>6, <2>1 DEF adv_off_stop
<1>7. CASE connected
  <2>1. conns' \in 0 .. MaxConn
    BY <1>7 DEF connected
  <2>2. WindowServed' /\ EndPending'
    BY <1>7, <1>k DEF connected
  <2>3. QED
    BY <1>7, <2>1, <2>2 DEF connected
<1>8. CASE disconnected
  <2>1. CASE adv_window_open
    <3>1. queue' \in Queues /\ Queued("on")' /\ (Queued("off") => Queued("off")')
      BY <1>8, <2>1, <1>q, SubmitKeeps DEF disconnected, Works
    <3>2. QED
      BY <1>8, <2>1, <3>1 DEF disconnected, Queues
  <2>2. CASE ~adv_window_open
    BY <1>8, <2>2 DEF disconnected
  <2>3. QED
    BY <2>1, <2>2
<1>9. CASE UNCHANGED advVars
  BY <1>9 DEF advVars, Queued
<1>10. QED
  BY <1>1, <1>2, <1>3, <1>4, <1>5, <1>6, <1>7, <1>8, <1>9
  DEF AdvNext, WorkQueue

LEMMA AdvInvAlways == AdvSpec => []AdvInv
<1>1. QED
  BY AdvInitInv, AdvStep, PTL DEF AdvSpec

\* However presses, the timer, the work queue and sessions fall together, an
\* open window always has its end under way.
THEOREM EndPendingAlways == AdvSpec => []EndPending
<1>1. AdvInv => EndPending
  BY DEF AdvInv
<1>2. QED
  BY <1>1, AdvInvAlways, PTL

\* Whatever the button ISR, the timer, the work queue and the connection
\* callbacks do in whatever order, a window that is open with no central
\* there has the node advertising once the work queue has caught up.
THEOREM OpenMeansVisibleAlways == AdvSpec => []OpenMeansVisible
<1>1. AdvInv => OpenMeansVisible
  BY DEF AdvInv, AdvTypeOK, WindowServed, OpenMeansVisible, Settled, Queued
<1>2. QED
  BY <1>1, AdvInvAlways, PTL
=============================================================================

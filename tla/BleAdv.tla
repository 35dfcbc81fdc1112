------------------------------- MODULE BleAdv -------------------------------
(***************************************************************************)
(* The advertising window of src/ble.c, opened by Button 1 (src/main.c).   *)
(*                                                                         *)
(* Four actors share adv_window_open: the button ISR, the timer behind     *)
(* adv_off_work, the system work queue that runs both handlers one after   *)
(* the other, and the Bluetooth callbacks.  An interrupt can fall between  *)
(* any two steps of a handler; the callbacks run at a cooperative priority *)
(* and are one step each.                                                  *)
(***************************************************************************)
EXTENDS Naturals, Sequences

CONSTANTS MaxPress,     \* bound: presses of the button
          MaxConn       \* bound: connections

ASSUME AdvAssumption == MaxPress \in Nat /\ MaxConn \in Nat

VARIABLES
    adv_window_open,
    advertising,    \* the controller is advertising
    conn,           \* a central is connected
    queue,          \* work items waiting: "on" is adv_on_work, "off" adv_off_work
    handler,        \* where the work queue thread is
    armed,          \* the delay of adv_off_work is running
    starting,       \* the adv_on_work of the last press has not run yet
    presses, conns  \* how often so far

advVars == <<adv_window_open, advertising, conn, queue, handler, armed,
             starting, presses, conns>>

Works    == {"on", "off"}
Handlers == {"idle", "on", "off", "off_stop"}

Queued(w) == \E i \in 1 .. Len(queue) : queue[i] = w

\* k_work_submit: an item that already waits is not queued twice.
Submit(w) == queue' = IF Queued(w) THEN queue ELSE Append(queue, w)

AdvInit ==
    /\ adv_window_open = FALSE /\ advertising = FALSE /\ conn = FALSE
    /\ queue = <<>> /\ handler = "idle" /\ armed = FALSE /\ starting = FALSE
    /\ presses = 0 /\ conns = 0
-----------------------------------------------------------------------------
\* Defect: a press opens the window and sets no end to it.
Bug_NoReschedule ==
    /\ presses < MaxPress
    /\ presses' = presses + 1
    /\ adv_window_open' = TRUE
    /\ Submit("on")
    /\ starting' = TRUE
    /\ UNCHANGED <<advertising, conn, handler, armed, conns>>

\* adv_btn_pressed, an interrupt.  k_work_reschedule restarts the delay; it
\* does not take back an item whose delay has already expired.
ble_advertise_window ==
    /\ presses < MaxPress
    /\ presses' = presses + 1
    /\ adv_window_open' = TRUE
    /\ Submit("on")
    /\ armed' = TRUE
    /\ starting' = TRUE
    /\ UNCHANGED <<advertising, conn, handler, conns>>

\* The 20 seconds are over; the press that started them has long been served.
WindowExpires ==
    /\ armed
    /\ ~starting
    /\ armed' = FALSE
    /\ Submit("off")
    /\ UNCHANGED <<adv_window_open, advertising, conn, handler, presses, starting, conns>>

\* The work queue thread takes the next item.
Dequeue ==
    /\ handler = "idle"
    /\ queue # <<>>
    /\ handler' = Head(queue)
    /\ queue' = Tail(queue)
    /\ UNCHANGED <<adv_window_open, advertising, conn, armed, presses, starting, conns>>

\* bt_le_adv_start has no connection object left while a central is there
\* (CONFIG_BT_MAX_CONN=1); the error is printed and nothing is retried.
adv_on_fn ==
    /\ handler = "on"
    /\ handler' = "idle"
    /\ starting' = FALSE
    /\ advertising' = (advertising \/ ~conn)
    /\ UNCHANGED <<adv_window_open, conn, queue, armed, presses, conns>>

\* Defect: the window is left marked as open.
Bug_OffForgetsFlag ==
    /\ handler = "off"
    /\ handler' = "off_stop"
    /\ UNCHANGED <<adv_window_open, advertising, conn, queue, armed, presses, starting, conns>>

\* adv_off_fn in its two steps.
adv_off_flag ==
    /\ handler = "off"
    /\ handler' = "off_stop"
    /\ adv_window_open' = FALSE
    /\ UNCHANGED <<advertising, conn, queue, armed, presses, starting, conns>>

adv_off_stop ==
    /\ handler = "off_stop"
    /\ handler' = "idle"
    /\ advertising' = FALSE
    /\ UNCHANGED <<adv_window_open, conn, queue, armed, presses, starting, conns>>
-----------------------------------------------------------------------------
\* A central connects: connectable advertising ends by itself.  An attempt
\* that failed (err) is only printed and changes nothing.
connected ==
    /\ advertising /\ ~conn
    /\ conns < MaxConn
    /\ conns' = conns + 1
    /\ conn' = TRUE
    /\ advertising' = FALSE
    /\ UNCHANGED <<adv_window_open, queue, handler, armed, starting, presses>>

\* Defect: the node stays invisible after the first session.
Bug_NoRestart ==
    /\ conn
    /\ conn' = FALSE
    /\ UNCHANGED <<adv_window_open, advertising, queue, handler, armed,
                   presses, starting, conns>>

disconnected ==
    /\ conn
    /\ conn' = FALSE
    /\ IF adv_window_open THEN Submit("on") ELSE UNCHANGED queue
    /\ UNCHANGED <<adv_window_open, advertising, handler, armed, presses, starting, conns>>
-----------------------------------------------------------------------------
WorkQueue == Dequeue \/ adv_on_fn \/ adv_off_flag \/ adv_off_stop

AdvNext ==
    \/ ble_advertise_window
    \/ WindowExpires
    \/ WorkQueue
    \/ connected \/ disconnected

\* Timers expire and the work queue thread runs; nobody has to press the
\* button, connect or leave.
AdvSpec ==
    /\ AdvInit /\ [][AdvNext]_advVars
    /\ WF_advVars(WindowExpires) /\ WF_advVars(WorkQueue)
-----------------------------------------------------------------------------
(* Properties *)

\* The types of the variables, for the proofs; an item waits at most once.
AdvTypeOK ==
    /\ adv_window_open \in BOOLEAN /\ advertising \in BOOLEAN
    /\ conn \in BOOLEAN /\ armed \in BOOLEAN /\ starting \in BOOLEAN
    /\ queue \in {<<>>, <<"on">>, <<"off">>, <<"on", "off">>, <<"off", "on">>}
    /\ handler \in Handlers
    /\ presses \in 0 .. MaxPress /\ conns \in 0 .. MaxConn

Settled == queue = <<>> /\ handler = "idle"

\* While the window is marked open and no central is connected, a node whose
\* work queue has caught up is advertising: neither a disconnect nor a press
\* in the middle of adv_off_fn leaves it invisible.
OpenMeansVisible ==
    Settled /\ adv_window_open /\ ~conn => advertising

\* An open window always has its end under way: the delay is running, or
\* adv_off_work waits, or adv_off_fn is about to clear the flag.  A press that
\* comes at any point of an earlier window's end cannot lose it.
EndPending ==
    adv_window_open => armed \/ Queued("off") \/ handler = "off"

\* A window that was opened is closed again, with or without a session in it.
WindowCloses == adv_window_open ~> ~adv_window_open

\* "The window bounds how long it stays visible": once the work queue has
\* caught up, advertising goes on only with a timer running to end it.
VisibilityBounded == Settled /\ advertising => armed
=============================================================================

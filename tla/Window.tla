------------------------------- MODULE Window -------------------------------
(***************************************************************************)
(* What the multiplexer's flow control promises for ONE direction of one   *)
(* channel: where every byte of the receive window is, from the moment the *)
(* sending task reserves credit for it until a WINDOW_ADJUST gives the     *)
(* credit back.                                                            *)
(*                                                                         *)
(* The module keeps amounts only: queues, packets and tasks are in module  *)
(* Channel, which is shown to implement this specification.                *)
(***************************************************************************)
EXTENDS Integers

CONSTANTS
    LocalWindow,   \* LOCAL_WINDOW: the receive window granted at open
    WindowRefill,  \* WINDOW_REFILL: consumed bytes that trigger an adjust
    MaxChunk,      \* MAX_CHUNK: the most one data packet carries
    Ceiling        \* min(WINDOW_MAX, Semaphore::MAX_PERMITS)

\* LOCAL_WINDOW = 2 MiB, WINDOW_REFILL = LOCAL_WINDOW / 2, MAX_CHUNK = 32 KiB:
\* half a window is room for at least one full chunk.
ASSUME WindowAssumption ==
    /\ LocalWindow \in Nat
    /\ WindowRefill \in Nat \ {0}
    /\ MaxChunk \in Nat \ {0}
    /\ Ceiling \in Nat
    /\ MaxChunk <= LocalWindow - WindowRefill
    /\ LocalWindow <= Ceiling

VARIABLES
    open,              \* the channel is in the tables of both ends
    credit,            \* permits of the sender's semaphore
    inflight,          \* bytes reserved, not yet seen by the receiving loop
    local_window,      \* Chan.local_window of the receiver
    unread,            \* bytes handed to the receiving task, not yet written
    consumed,          \* bytes in Consumed commands not yet handled
    pending_consumed,  \* Chan.pending_consumed of the receiver
    adjusting,         \* bytes in WINDOW_ADJUST packets on their way back
    overflowed         \* the receiver ended the connection: window overflow

windowVars == <<open, credit, inflight, local_window, unread, consumed,
          pending_consumed, adjusting, overflowed>>

WindowInit ==
    /\ open = TRUE
    /\ credit = LocalWindow
    /\ local_window = LocalWindow
    /\ inflight = 0
    /\ unread = 0
    /\ consumed = 0
    /\ pending_consumed = 0
    /\ adjusting = 0
    /\ overflowed = FALSE

-----------------------------------------------------------------------------
\* The sending task spends n permits on a chunk it hands to its loop.
Reserve(n) ==
    /\ open
    /\ n <= credit
    /\ credit' = credit - n
    /\ inflight' = inflight + n
    /\ UNCHANGED <<open, local_window, unread, consumed, pending_consumed,
                   adjusting, overflowed>>

\* The receiving loop takes a data packet of n bytes: checked_sub on the
\* window, then the bytes go to the receiving task.
Deliver(n) ==
    /\ open
    /\ n <= inflight
    /\ inflight' = inflight - n
    /\ IF n <= local_window
         THEN /\ local_window' = local_window - n
              /\ unread' = unread + n
              /\ UNCHANGED overflowed
         ELSE /\ overflowed' = TRUE
              /\ UNCHANGED <<local_window, unread>>
    /\ UNCHANGED <<open, credit, consumed, pending_consumed, adjusting>>

\* The receiving task has written n bytes out and reports them.
Consume(n) ==
    /\ open
    /\ n <= unread
    /\ unread' = unread - n
    /\ consumed' = consumed + n
    /\ UNCHANGED <<open, credit, inflight, local_window, pending_consumed,
                   adjusting, overflowed>>

\* Bytes consumed and not yet re-granted, with n more.
BatchForgotten(n) == n
Batch(n) == pending_consumed + n

RefillWholeWindow(n) == Batch(n) >= LocalWindow
RefillDue(n) == Batch(n) >= WindowRefill

\* The receiving loop handles Consumed(n): it batches, and re-grants the
\* window in one WINDOW_ADJUST once WindowRefill bytes have been consumed.
Replenish(n) ==
    /\ open
    /\ n <= consumed
    /\ consumed' = consumed - n
    /\ IF RefillDue(n)
         THEN /\ pending_consumed' = 0
              /\ local_window' = local_window + Batch(n)
              /\ adjusting' = adjusting + Batch(n)
         ELSE /\ pending_consumed' = Batch(n)
              /\ UNCHANGED <<local_window, adjusting>>
    /\ UNCHANGED <<open, credit, inflight, unread, overflowed>>

\* The sending loop handles WINDOW_ADJUST(n), clamped to the ceiling.
Grant(n) ==
    /\ open
    /\ n <= adjusting
    /\ adjusting' = adjusting - n
    /\ credit' = IF credit + n <= Ceiling THEN credit + n ELSE Ceiling
    /\ UNCHANGED <<open, inflight, local_window, unread, consumed,
                   pending_consumed, overflowed>>

\* One end forgets the channel: nothing is accounted for any more.
Teardown ==
    /\ open
    /\ open' = FALSE
    /\ credit' = 0
    /\ inflight' = 0
    /\ local_window' = 0
    /\ unread' = 0
    /\ consumed' = 0
    /\ pending_consumed' = 0
    /\ adjusting' = 0
    /\ UNCHANGED overflowed

WindowNext ==
    \/ \E n \in 1..MaxChunk : Reserve(n) \/ Deliver(n) \/ Consume(n)
    \/ \E n \in 1..MaxChunk : Replenish(n)
    \/ \E n \in 1..LocalWindow : Grant(n)
    \/ Teardown

WindowSpec == WindowInit /\ [][WindowNext]_windowVars

-----------------------------------------------------------------------------
WindowTypeOK ==
    /\ open \in BOOLEAN
    /\ overflowed \in BOOLEAN
    /\ credit \in Nat
    /\ inflight \in Nat
    /\ local_window \in Nat
    /\ unread \in Nat
    /\ consumed \in Nat
    /\ pending_consumed \in Nat
    /\ adjusting \in Nat

\* No byte of window is created or lost while the channel lives: every byte is
\* in the sender's semaphore, in flight, with the receiving task, batched for
\* the next adjust, or on its way back.
Conserved ==
    open => credit + inflight + unread + consumed + pending_consumed
              + adjusting = LocalWindow

\* The receiver's own count of the window is exactly what the sender may
\* still use: its credit, what it already spent and what is being given back.
WindowAgrees ==
    open => local_window = credit + inflight + adjusting

\* A batch below the threshold is never held back for ever: it is always
\* smaller than WindowRefill.
BatchBounded == open => pending_consumed < WindowRefill

\* The window accounting as a whole.  With it an honest sender never trips the
\* receiver's "peer overflowed the channel window" error, whatever the
\* interleaving of data and adjusts.
Inv == WindowTypeOK /\ Conserved /\ WindowAgrees /\ BatchBounded /\ ~overflowed

\* The sending task waits for ALL the permits of a chunk at once.  Between two
\* ends of this implementation that wait is never final: once everything sent
\* has been consumed and every adjust has arrived, a full chunk fits.
NeverStarved ==
    (open /\ inflight = 0 /\ unread = 0 /\ consumed = 0 /\ adjusting = 0)
      => credit >= MaxChunk
=============================================================================

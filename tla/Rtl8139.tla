------------------------------- MODULE Rtl8139 -------------------------------
(***************************************************************************)
(* The transmit side of the network card driver (drivers/rtl8139.cpp): the  *)
(* transmit thread that claims the buffers of a ring in turn, the card that *)
(* sends them in the same order, and the interrupt handler that counts the  *)
(* sent ones and gives them back through tx_sem.                            *)
(***************************************************************************)
EXTENDS DeferredSemaphore, SequencesExt

CONSTANTS
    tx_buffers,    \* the buffers of the card
    MaxPackets     \* bound: the packets that are sent

VARIABLES
    cur_tx,
    dirty_tx,
    entry,      \* the local variable of send_packet
    tx_status,  \* the status register of each buffer
    sending,    \* the card: the buffers it was given, in order, and has not sent yet
    isr,        \* the card: TX_OK is pending
    stale       \* ghost: the handler has taken the result of a buffer's last
                \* packet for that of the packet being copied into it

ringVars == <<cur_tx, dirty_tx, entry>>
cardVars == <<tx_status, sending, isr>>
vars == <<cpuVars, pc, semVars, ringVars, cardVars, stale>>

Entries == 0..tx_buffers - 1

\* A buffer is owned by the host and not OK after the reset.
Init ==
    /\ CpuInit
    /\ pc = [p \in Proc |-> "start"]
    /\ SemInit(tx_buffers)
    /\ cur_tx = 0 /\ dirty_tx = 0 /\ entry = 0
    /\ tx_status = [e \in Entries |-> "reset"]
    /\ sending = <<>>
    /\ isr = FALSE
    /\ stale = FALSE

-----------------------------------------------------------------------------
\* Mutant: no buffer is waited for.
send_packet_NoWait(p) ==
    \/ /\ At(p, "start")
       /\ cur_tx < MaxPackets
       /\ claim(p)
       /\ Goto(p, "claim")
       /\ UNCHANGED <<cpuVars, value, waiting, ringVars, cardVars>>
    \/ /\ At(p, "claim")
       /\ entry' = cur_tx % tx_buffers
       /\ cur_tx' = cur_tx + 1
       /\ Goto(p, "copy")
       /\ UNCHANGED <<cpuVars, semVars, dirty_tx, cardVars>>
    \/ /\ At(p, "copy")
       /\ Goto(p, "start_tx")
       /\ UNCHANGED <<cpuVars, semVars, ringVars, cardVars>>
    \/ /\ At(p, "start_tx")
       /\ tx_status' = [tx_status EXCEPT ![entry] = "busy"]
       /\ sending' = Append(sending, entry)
       /\ Goto(p, "start")
       /\ UNCHANGED <<cpuVars, semVars, ringVars, isr>>

\* The transmit thread has tx_lock to itself.  The write of the status register
\* gives the buffer to the card and clears the result of the last packet.
send_packet(p) ==
    \/ /\ At(p, "start")
       /\ cur_tx < MaxPackets
       /\ claim(p)
       /\ Goto(p, "wait")
       /\ UNCHANGED <<cpuVars, value, waiting, ringVars, cardVars>>
    \/ wait(p, "wait", "claim") /\ UNCHANGED <<ringVars, cardVars>>
    \/ /\ At(p, "claim")
       /\ entry' = cur_tx % tx_buffers
       /\ cur_tx' = cur_tx + 1
       /\ Goto(p, "copy")
       /\ UNCHANGED <<cpuVars, semVars, dirty_tx, cardVars>>
    \/ /\ At(p, "copy")
       /\ Goto(p, "start_tx")
       /\ UNCHANGED <<cpuVars, semVars, ringVars, cardVars>>
    \/ /\ At(p, "start_tx")
       /\ tx_status' = [tx_status EXCEPT ![entry] = "busy"]
       /\ sending' = Append(sending, entry)
       /\ Goto(p, "start")
       /\ UNCHANGED <<cpuVars, semVars, ringVars, isr>>

\* The card sends the buffers in the order in which it was given them.
transmit ==
    /\ sending # <<>>
    /\ tx_status' = [tx_status EXCEPT ![Head(sending)] = "ok"]
    /\ sending' = Tail(sending)
    /\ isr' = TRUE
    /\ UNCHANGED <<cpuVars, pc, semVars, ringVars>>

\* The number of buffers from dirty_tx on that the loop of the handler finds
\* sent.
CleanedUp ==
    LET sent(k) == \A i \in 0..k - 1 : tx_status[(dirty_tx + i) % tx_buffers] = "ok"
    IN CHOOSE k \in 0..cur_tx - dirty_tx :
        /\ sent(k)
        /\ k = cur_tx - dirty_tx \/ ~sent(k + 1)

\* The buffer being filled is the last one that the handler can count.
CountsStale ==
    /\ \E p \in Proc : pc[p] \in {"copy", "start_tx"}
    /\ CleanedUp = cur_tx - dirty_tx

\* Mutant: the handler gives back one buffer per interrupt.
packet_handler_One ==
    /\ isr
    /\ stale' = (stale \/ CountsStale)
    /\ isr' = FALSE
    /\ dirty_tx' = dirty_tx + CleanedUp
    /\ notify(1)
    /\ UNCHANGED <<pc, cur_tx, entry, tx_status, sending>>

\* Mutant: the interrupt is not acknowledged.
packet_handler_NoAck ==
    /\ isr
    /\ stale' = (stale \/ CountsStale)
    /\ dirty_tx' = dirty_tx + CleanedUp
    /\ notify(CleanedUp)
    /\ UNCHANGED <<pc, cur_tx, entry, tx_status, sending, isr>>

packet_handler ==
    /\ isr
    /\ stale' = (stale \/ CountsStale)
    /\ isr' = FALSE
    /\ dirty_tx' = dirty_tx + CleanedUp
    /\ notify(CleanedUp)
    /\ UNCHANGED <<pc, cur_tx, entry, tx_status, sending>>

tick(new) == Preempt(state, new) /\ UNCHANGED <<pc, semVars, ringVars, cardVars, stale>>

Next ==
    \/ \E p \in Proc : send_packet(p) /\ UNCHANGED stale
    \/ transmit /\ UNCHANGED stale
    \/ packet_handler
    \/ \E new \in Task : tick(new)

Spec == Init /\ [][Next]_vars

-----------------------------------------------------------------------------
(* Properties.                                                              *)

\* "Wait for a free entry in the tx buffers": the buffer that a packet is copied
\* into is not one that the card is still sending, unless the handler has once
\* come between the increment of cur_tx and the write of the status register.
EntryIsFree ==
    stale \/ \A p \in Proc : pc[p] \in {"copy", "start_tx"} => ~Contains(sending, entry)

\* The permits are the free buffers, with the same exception: none is given back
\* twice or forgotten, so that the ring neither overflows nor stops short of its
\* size.
PermitsAreFreeEntries ==
    stale \/ Permits + Cardinality({p \in Proc : pc[p] = "claim"}) + (cur_tx - dirty_tx) = tx_buffers

\* The interrupt handler never passes 0 to notify() while the thread waits,
\* where --n would wrap around, with the same exception.
NotifyNeverWraps == stale \/ ((isr /\ waiting) => CleanedUp > 0)
=============================================================================

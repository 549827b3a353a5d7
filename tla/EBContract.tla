----------------------------- MODULE EBContract -----------------------------
(***************************************************************************)
(* What api/etherbone.h promises a client of eb_cycle_open, eb_cycle_close *)
(* and eb_device_close, without sockets, links, lists or callbacks' stack: *)
(* a closed cycle waits in its device's queue and leaves it exactly once,  *)
(* by its callback; a device disappears only when its queue is empty.      *)
(***************************************************************************)
EXTENDS Sequences, SequencesExt

CONSTANTS Devices, Cycles, NoDev

VARIABLES
    dst,        \* device -> "free", "live" or "closing"
    cst,        \* cycle -> "free", "open", "pending" or "calling"
    owner,      \* cycle -> the device it was opened on
    q           \* device -> its pending cycles, in the order they were closed

vars == <<dst, cst, owner, q>>

Init ==
    /\ dst = [d \in Devices |-> "free"]
    /\ cst = [c \in Cycles |-> "free"]
    /\ owner = [c \in Cycles |-> NoDev]
    /\ q = [d \in Devices |-> <<>>]

DeviceUp(d) ==
    /\ dst[d] = "free"
    /\ dst' = [dst EXCEPT ![d] = "live"]
    /\ UNCHANGED <<cst, owner, q>>

\* "BUSY - there are unclosed wishbone cycles on this device"
DeviceClosing(d) ==
    /\ dst[d] = "live"
    /\ \A c \in Cycles : cst[c] = "open" => owner[c] # d
    /\ dst' = [dst EXCEPT ![d] = "closing"]
    /\ UNCHANGED <<cst, owner, q>>

DeviceDown(d) ==
    /\ dst[d] = "closing"
    /\ q[d] = <<>>
    /\ dst' = [dst EXCEPT ![d] = "free"]
    /\ UNCHANGED <<cst, owner, q>>

Open(c, d) ==
    /\ cst[c] = "free"
    /\ dst[d] = "live"
    /\ cst' = [cst EXCEPT ![c] = "open"]
    /\ owner' = [owner EXCEPT ![c] = d]
    /\ UNCHANGED <<dst, q>>

Abort(c) ==
    /\ cst[c] = "open"
    /\ cst' = [cst EXCEPT ![c] = "free"]
    /\ owner' = [owner EXCEPT ![c] = NoDev]
    /\ UNCHANGED <<dst, q>>

Close(c) ==
    /\ cst[c] = "open"
    /\ cst' = [cst EXCEPT ![c] = "pending"]
    /\ q' = [q EXCEPT ![owner[c]] = Append(@, c)]
    /\ UNCHANGED <<dst, owner>>

\* Answers come in any order, but a closing device calls back the oldest
\* first ("reverse the list so the answer come back 'in order'").
Call(c) ==
    /\ cst[c] = "pending"
    /\ \E i \in 1..Len(q[owner[c]]) :
          /\ q[owner[c]][i] = c
          /\ dst[owner[c]] = "closing" => i = 1
          /\ q' = [q EXCEPT ![owner[c]] = RemoveAt(@, i)]
    /\ cst' = [cst EXCEPT ![c] = "calling"]
    /\ UNCHANGED <<dst, owner>>

Return(c) ==
    /\ cst[c] = "calling"
    /\ cst' = [cst EXCEPT ![c] = "free"]
    /\ owner' = [owner EXCEPT ![c] = NoDev]
    /\ UNCHANGED <<dst, q>>

Next ==
    \/ \E d \in Devices : DeviceUp(d) \/ DeviceClosing(d) \/ DeviceDown(d)
    \/ \E c \in Cycles : Abort(c) \/ Close(c) \/ Call(c) \/ Return(c)
    \/ \E c \in Cycles, d \in Devices : Open(c, d)

Spec == Init /\ [][Next]_vars
=============================================================================

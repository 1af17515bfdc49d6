----------------------------- MODULE MCDelivery -----------------------------
(***************************************************************************)
(* Three ways to tell somebody, for TLC: QrRooms, the broadcasts,          *)
(* QrLongPoll, the polls, and MailQueue, the mails.  They share no state:  *)
(* a behaviour is about one of them, and the other two stay where they     *)
(* began.                                                                  *)
(***************************************************************************)
EXTENDS MailQueue

CONSTANTS otp1, otp2, batch1,
          Client, Ticket, Namespaced, Poll, MaxAsks, RoomChanges, PollChanges

VARIABLES
    part,                                                      \* the one that moves
    version, writer, conn, tracked, room, pending, told, late, \* of QrRooms
    ticket, expired, change, poll, inbox, paced, asks, changes \* of QrLongPoll

rooms == <<version, writer, conn, tracked, room, pending, told, late>>
polls == <<ticket, expired, change, poll, inbox, paced, asks, changes>>

Rooms == INSTANCE QrRooms WITH MaxChanges <- RoomChanges

Long == INSTANCE QrLongPoll WITH
    MaxChanges <- PollChanges, version <- ticket, writer <- change

KindC(j) == IF j = batch1 THEN "batch" ELSE "otp"

\* A browser that has asked before may also leave out what it got, so those that
\* have not asked need no states of their own.
DeliveryInit ==
    /\ part \in {"rooms", "polls", "mail"} /\ Init /\ Rooms!Init /\ Long!Init
    /\ \A p \in Poll : poll[p].got = IF part = "polls" THEN 1 ELSE 0

DeliveryNext ==
    /\ \/ part = "rooms" /\ Rooms!Next /\ UNCHANGED <<vars, polls>>
       \/ part = "polls" /\ Long!Next /\ UNCHANGED <<vars, rooms>>
       \/ part = "mail" /\ Next /\ UNCHANGED <<rooms, polls>>
    /\ UNCHANGED part

DeliverySpec ==
    /\ DeliveryInit /\ [][DeliveryNext]_<<vars, rooms, polls, part>>
    /\ Fairness /\ Long!Fairness

\* For the broadcasts alone.
RoomsSpec ==
    /\ DeliveryInit /\ part = "rooms"
    /\ [][DeliveryNext]_<<vars, rooms, polls, part>>

\* See QrRooms.
RoomsAgree == Rooms!RoomsAgree

\* See QrRooms.
SubscriberIsCurrent == Rooms!SubscriberIsCurrent

\* See QrLongPoll.
PollAnswered == Long!PollAnswered

\* See QrLongPoll.
MissedChangeFound == Long!MissedChangeFound
=============================================================================

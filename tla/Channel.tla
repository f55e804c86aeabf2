------------------------------ MODULE Channel ------------------------------
(***************************************************************************)
(* A Channel (src/Channel.h, src/Channel.cc) as the pair of its fields that *)
(* the poller reads and writes: events_, the events it wants, and status_, *)
(* what the poller did with it.  Module Poller shows that a poller listens *)
(* to a channel exactly when its status_ is "Added", and then for exactly  *)
(* its events_; so a module with one channel needs no more than this pair. *)
(***************************************************************************)
EXTENDS Sequences

Events == {"R", "W"}                       \* kReadEvent, kWriteEvent
Statuses == {"Init", "Added", "Deleted"}   \* kChannelPollInit, ...

ChannelType == [events : SUBSET Events, status : Statuses]

NewChannel == [events |-> {}, status |-> "Init"]

is_none_event(c) == c.events = {}
is_write_event(c) == "W" \in c.events
is_read_event(c) == "R" \in c.events

\* Poller::update_channel as the channel sees it.  A channel that is not listened to
\* is added whatever its events are: none at all included.
update(c) ==
    [c EXCEPT !.status = IF @ # "Added" THEN "Added"
                         ELSE IF is_none_event(c) THEN "Deleted" ELSE "Added"]

\* Poller::remove_channel; its caller has checked that c wants no event.
remove(c) == [c EXCEPT !.status = "Init"]

disable_all_event(c) == update([c EXCEPT !.events = {}])
enable_read_event(c) == update([c EXCEPT !.events = @ \cup {"R"}])
disable_read_event(c) == update([c EXCEPT !.events = @ \ {"R"}])
enable_write_event(c) == update([c EXCEPT !.events = @ \cup {"W"}])
disable_write_event(c) == update([c EXCEPT !.events = @ \ {"W"}])

\* The callbacks handle_event calls for the returned events, in its order.
handle_event(revents) ==
    (IF "HUP" \in revents /\ "R" \notin revents THEN <<"close">> ELSE <<>>)
        \o (IF "ERR" \in revents THEN <<"error">> ELSE <<>>)
        \o (IF "R" \in revents THEN <<"read">> ELSE <<>>)
        \o (IF "W" \in revents THEN <<"write">> ELSE <<>>)
=============================================================================

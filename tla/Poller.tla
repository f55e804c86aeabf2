------------------------------- MODULE Poller -------------------------------
(***************************************************************************)
(* The channels of one loop and its poller.  Both pollers of the library   *)
(* keep channels_, a map from descriptor to channel, and differ in what    *)
(* they listen with: PollPoller a vector of pollfd it searches by          *)
(* descriptor (listen_events_), EPollPoller the kernel's interest list,    *)
(* whose entries carry the channel's address (epoll).  The two are         *)
(* modelled side by side and shown to report the same channels.            *)
(*                                                                         *)
(* Channels are created, enabled, disabled, removed and destroyed by their *)
(* owners (TcpConnection, Connector, Acceptor, ...), on the loop's thread: *)
(* from handlers, while reported channels are still to be handled, or from *)
(* functors.  Owners destroy a channel in a functor, which runs when no    *)
(* reported channel is left.  A closed descriptor may be used again.       *)
(***************************************************************************)
EXTENDS Channel

CONSTANTS Channels,     \* addresses of channel objects
          Fds,          \* descriptors
          NoChannel     \* the absent entry of channels_

ASSUME NoChannelAssumption == NoChannel \notin Channels

VARIABLES alive,             \* channels constructed and not destroyed
          fd,                \* their descriptors (select_fd_)
          ch,                \* their events_ and status_
          channels_,         \* descriptor -> channel
          listen_events_,    \* PollPoller: what ::poll is called with
          epoll,             \* EPollPoller: the kernel's interest list
          active_channels_,  \* reported channels not handled yet
          handling           \* the channel whose handle_event is running

tables == <<channels_, listen_events_, epoll>>
pass == <<active_channels_, handling>>
vars == <<alive, fd, ch, channels_, listen_events_, epoll, active_channels_, handling>>

Init ==
    /\ alive = {}
    /\ fd \in [Channels -> Fds]
    /\ ch = [c \in Channels |-> NewChannel]
    /\ channels_ = [f \in Fds |-> NoChannel]
    /\ listen_events_ = {}
    /\ epoll = {}
    /\ active_channels_ = {}
    /\ handling = NoChannel

\* Channel::Channel on a descriptor the kernel has just given out.
Construct(c, f) ==
    /\ c \notin alive
    /\ \A d \in alive : fd[d] # f
    /\ alive' = alive \cup {c}
    /\ fd' = [fd EXCEPT ![c] = f]
    /\ ch' = [ch EXCEPT ![c] = NewChannel]
    /\ UNCHANGED <<tables, pass>>

-----------------------------------------------------------------------------
\* PollPoller::update_poll_events: find the entry by descriptor, then push_back,
\* erase or overwrite it.
poll_events(op, f, events) ==
    LET others == {e \in listen_events_ : e.fd # f}
    IN  IF op = "Del" THEN others ELSE others \cup {[fd |-> f, events |-> events]}

\* EPollPoller::update_poll_events: epoll_ctl, which also stores the address.
epoll_ctl(op, c, events) ==
    LET others == {e \in epoll : e.fd # fd[c]}
    IN  IF op = "Del" THEN others
        ELSE others \cup {[fd |-> fd[c], events |-> events, ptr |-> c]}

update_poll_events(op, c, events) ==
    /\ listen_events_' = poll_events(op, fd[c], events)
    /\ epoll' = epoll_ctl(op, c, events)

\* The operation update_channel asks for, from status_ and the new events_.
Operation(c, events) ==
    IF ch[c].status # "Added" THEN "Add" ELSE IF events = {} THEN "Del" ELSE "Mod"

MutantAddOnlyFirst(c, new) ==
    /\ ch' = [ch EXCEPT ![c] = update(new)]
    /\ channels_' = [channels_ EXCEPT ![fd[c]] = c]
    /\ IF ch[c].status = "Deleted" THEN UNCHANGED <<listen_events_, epoll>>
       ELSE update_poll_events(Operation(c, new.events), c, new.events)

\* update_channel: an unknown channel enters channels_; a deleted one is already there.
update_channel(c, new) ==
    /\ ch' = [ch EXCEPT ![c] = update(new)]
    /\ channels_' = IF ch[c].status = "Init" THEN [channels_ EXCEPT ![fd[c]] = c]
                                             ELSE channels_
    /\ update_poll_events(Operation(c, new.events), c, new.events)

\* Channel::enable_*_event, disable_*_event, disable_all_event: any new set of events.
Update(c, events) ==
    /\ c \in alive
    /\ update_channel(c, [ch[c] EXCEPT !.events = events])
    /\ UNCHANGED <<alive, fd, pass>>

MutantRemoveKeepsEntry(c) ==
    /\ c \in alive /\ ch[c].status # "Init" /\ is_none_event(ch[c])
    /\ channels_' = [channels_ EXCEPT ![fd[c]] = NoChannel]
    /\ ch' = [ch EXCEPT ![c] = remove(ch[c])]
    /\ UNCHANGED <<listen_events_, epoll, alive, fd, pass>>

\* remove_channel: only an "Added" channel still has an entry to delete.
RemoveChannel(c) ==
    /\ c \in alive /\ ch[c].status # "Init" /\ is_none_event(ch[c])
    /\ channels_' = [channels_ EXCEPT ![fd[c]] = NoChannel]
    /\ IF ch[c].status = "Added" THEN update_poll_events("Del", c, {})
                                 ELSE UNCHANGED <<listen_events_, epoll>>
    /\ ch' = [ch EXCEPT ![c] = remove(ch[c])]
    /\ UNCHANGED <<alive, fd, pass>>

MutantDestroyAtOnce(c) ==
    /\ c \in alive /\ ch[c].status = "Init" /\ handling # c
    /\ alive' = alive \ {c}
    /\ UNCHANGED <<fd, ch, tables, pass>>

\* Channel::~Channel, from a functor: a removed channel goes and its descriptor is closed.
Destroy(c) ==
    /\ c \in alive /\ ch[c].status = "Init"
    /\ active_channels_ = {} /\ handling = NoChannel
    /\ alive' = alive \ {c}
    /\ UNCHANGED <<fd, ch, tables, pass>>

-----------------------------------------------------------------------------
\* fill_active_channels: PollPoller looks the channel up by descriptor ...
PollReport(ready) == {channels_[f] : f \in ready}
\* ... EPollPoller casts the address the kernel hands back.
EPollReport(ready) == {e.ptr : e \in {x \in epoll : x.fd \in ready}}

\* poll: some of the descriptors listened to are ready.
Poll(ready) ==
    /\ active_channels_ = {} /\ handling = NoChannel
    /\ ready # {} /\ ready \subseteq {e.fd : e \in listen_events_}
    /\ active_channels_' = PollReport(ready)
    /\ UNCHANGED <<alive, fd, ch, tables, handling>>

\* EventLoop::loop calls the next reported channel's handle_event ...
BeginHandle(c) ==
    /\ handling = NoChannel /\ c \in active_channels_
    /\ active_channels_' = active_channels_ \ {c}
    /\ handling' = c
    /\ UNCHANGED <<alive, fd, ch, tables>>

\* ... which returns when its callbacks have.
EndHandle ==
    /\ handling # NoChannel
    /\ handling' = NoChannel
    /\ UNCHANGED <<alive, fd, ch, tables, active_channels_>>

Next ==
    \/ \E c \in Channels : \/ \E f \in Fds : Construct(c, f)
                           \/ \E events \in SUBSET Events : Update(c, events)
                           \/ RemoveChannel(c)
                           \/ Destroy(c)
                           \/ BeginHandle(c)
    \/ \E ready \in SUBSET Fds : Poll(ready)
    \/ EndHandle

Spec == Init /\ [][Next]_vars

-----------------------------------------------------------------------------
\* The fields keep their types, and what is reported or being handled exists: no
\* handler or functor leaves the loop with the address of a destroyed channel in
\* active_channels_ (EventLoop::loop dereferences each one).
TypeOK ==
    /\ alive \subseteq Channels
    /\ fd \in [Channels -> Fds]
    /\ ch \in [Channels -> ChannelType]
    /\ channels_ \in [Fds -> Channels \cup {NoChannel}]
    /\ listen_events_ \subseteq [fd : Fds, events : SUBSET Events]
    /\ epoll \subseteq [fd : Fds, events : SUBSET Events, ptr : Channels]
    /\ active_channels_ \subseteq alive
    /\ handling \in alive \cup {NoChannel}

\* Every DCHECK and CHECK of update_channel, remove_channel and fill_active_channels
\* holds whenever it is evaluated: a channel the poller has heard of is the one its
\* descriptor maps to, however often descriptors are closed and used again; and
\* the poller listens for a channel exactly when its status_ is Added, and then for
\* exactly its events_.
PollerAgrees ==
    /\ \A c \in alive :
        /\ channels_[fd[c]] = IF ch[c].status = "Init" THEN NoChannel ELSE c
        /\ \A events \in SUBSET Events :
              [fd |-> fd[c], events |-> events] \in listen_events_
                 <=> ch[c].status = "Added" /\ events = ch[c].events
    /\ \A e \in listen_events_ : channels_[e.fd] \in alive

\* PollPoller and EPollPoller are interchangeable: the same descriptors being ready,
\* the lookup by descriptor and the kernel's addresses give the same channels, and
\* they listen for the same events.
BackendsAgree ==
    /\ \A ready \in SUBSET {e.fd : e \in listen_events_} :
          PollReport(ready) = EPollReport(ready)
    /\ listen_events_ = {[fd |-> e.fd, events |-> e.events] : e \in epoll}

\* The poller and its channels agree after every sequence of updates, removals and
\* destructions, from handlers and from functors, and the two pollers with each other.
PollersAgree == TypeOK /\ PollerAgrees /\ BackendsAgree
=============================================================================

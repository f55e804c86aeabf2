--------------------------- MODULE LibraryProofs ----------------------------
(***************************************************************************)
(* Theorems about parts of the library that stand alone: the conversions of*)
(* TimeStamp for every width of the integers and every length of the units,*)
(* the tables of the two pollers for any channels and descriptors, and the *)
(* descriptors of Files for any number of Files and descriptors.           *)
(***************************************************************************)
EXTENDS TimeStamp, Poller, Handles, WellFoundedInduction, TLAPS

-----------------------------------------------------------------------------
(* TimeStamp.                                                              *)

\* What \div and % are.
LEMMA DivMod ==
    ASSUME NEW a \in Int, NEW b \in Nat \ {0}
    PROVE  /\ a \div b \in Int /\ (a % b) \in 0 .. b - 1
           /\ a = b * (a \div b) + (a % b)
  OBVIOUS

\* Multiplication by a positive number keeps the order.
LEMMA Monotone ==
    ASSUME NEW a \in Int, NEW c \in Int, NEW b \in Nat \ {0}, a <= c
    PROVE  a * b <= c * b
  OBVIOUS

\* The quotient and the remainder are the only ones.
LEMMA DivUnique ==
    ASSUME NEW x \in Int, NEW b \in Nat \ {0}, NEW q \in Int, NEW r \in 0 .. b - 1,
           x = b * q + r
    PROVE  x \div b = q /\ x % b = r
  OBVIOUS

\* The division of C++ is within one multiple of the dividend, on the side of zero.
LEMMA DivBounds ==
    ASSUME NEW a \in Int, NEW b \in Nat \ {0}
    PROVE  /\ Div(a, b) \in Int /\ Rem(a, b) \in Int /\ a = b * Div(a, b) + Rem(a, b)
           /\ a >= 0 => Rem(a, b) \in 0 .. b - 1
           /\ a < 0 => Rem(a, b) \in 1 - b .. 0
  <1>1. CASE a >= 0
    <2>1. Div(a, b) = a \div b
      BY <1>1 DEF Div
    <2>2. a \div b \in Int /\ (a % b) \in 0 .. b - 1 /\ a = b * (a \div b) + (a % b)
      BY DivMod
    <2>3. Rem(a, b) = a % b
      BY <2>1, <2>2 DEF Rem
    <2> QED  BY <1>1, <2>1, <2>2, <2>3
  <1>2. CASE a < 0
    <2>1. Div(a, b) = -((-a) \div b) /\ -a \in Int
      BY <1>2 DEF Div
    <2>2. /\ (-a) \div b \in Int /\ ((-a) % b) \in 0 .. b - 1
          /\ -a = b * ((-a) \div b) + ((-a) % b)
      BY <2>1, DivMod, Zenon
    <2>3. b * Div(a, b) = -(b * ((-a) \div b))
      BY <2>1, <2>2
    <2>4. Rem(a, b) = -((-a) % b)
      BY <2>2, <2>3 DEF Rem
    <2> QED  BY <1>2, <2>1, <2>2, <2>3, <2>4
  <1> QED  BY <1>1, <1>2

\* from_product: the exact product if an int64_t has it, otherwise the limit the
\* product is beyond; the product itself is only computed when it cannot overflow.
THEOREM ProductSaturates ==
    ASSUME NEW value \in Int64, NEW positive_value \in Nat \ {0}
    PROVE  /\ from_product(value, positive_value) \in Int64
           /\ value * positive_value \in Int64 =>
                from_product(value, positive_value) = value * positive_value
           /\ value * positive_value > Int64Max => from_product(value, positive_value) = Int64Max
           /\ value * positive_value < Int64Min => from_product(value, positive_value) = Int64Min
  <1> DEFINE p == positive_value
             hi == Div(Int64Max, p)
             lo == Div(Int64Min, p)
  <1>1. Int64Max \in Nat /\ Int64Min \in Int /\ Int64Min < 0 /\ value \in Int
    BY UnitsAssumption DEF Int64Min, Int64
  <1>2. hi \in Int /\ lo \in Int
    BY <1>1, DivBounds
  <1>3. /\ Int64Max = p * hi + Rem(Int64Max, p) /\ Rem(Int64Max, p) \in 0 .. p - 1
        /\ Int64Min = p * lo + Rem(Int64Min, p) /\ Rem(Int64Min, p) \in 1 - p .. 0
    BY <1>1, DivBounds
  <1>4. ASSUME value > hi  PROVE value * p > Int64Max
    <2>1. (hi + 1) * p <= value * p
      BY <1>1, <1>2, <1>4, Monotone
    <2>2. (hi + 1) * p = p * hi + p
      BY <1>2
    <2> QED  BY <1>1, <1>2, <1>3, <2>1, <2>2
  <1>5. ASSUME value < lo  PROVE value * p < Int64Min
    <2>1. value * p <= (lo - 1) * p
      BY <1>1, <1>2, <1>5, Monotone
    <2>2. (lo - 1) * p = p * lo - p
      BY <1>2
    <2> QED  BY <1>1, <1>2, <1>3, <2>1, <2>2
  <1>6. ASSUME value <= hi, lo <= value  PROVE value * p \in Int64Min .. Int64Max
    <2>1. value * p <= hi * p /\ lo * p <= value * p
      BY <1>1, <1>2, <1>6, Monotone
    <2> QED  BY <1>1, <1>2, <1>3, <2>1
  <1>7. value * p \in Int /\ Int64Min <= Int64Max
    BY <1>1
  <1> HIDE DEF hi, lo
  <1>8. from_product(value, p) = IF value > hi THEN Int64Max
                                 ELSE IF value < lo THEN Int64Min ELSE value * p
    BY DEF from_product, hi, lo
  <1> QED  BY <1>1, <1>2, <1>4, <1>5, <1>6, <1>7, <1>8 DEF Int64

\* A value that an int64_t has is itself.
LEMMA InRange ==
    ASSUME NEW n \in Int64
    PROVE  AsInt64(n) = n
  BY DEF AsInt64, Wrapped, Int64, Int64Min

\* Subtracting unit - 1 before a division towards zero gives the floor of a negative
\* number, as the plain division does of the others.
LEMMA Floor ==
    ASSUME NEW n \in Int, NEW unit \in Nat \ {0}
    PROVE  /\ n >= 0 => Div(n, unit) = n \div unit
           /\ n < 0 => Div(n - unit + 1, unit) = n \div unit
  <1>1. n >= 0 => Div(n, unit) = n \div unit
    BY DEF Div
  <1>2. ASSUME n < 0  PROVE Div(n - unit + 1, unit) = n \div unit
    <2> DEFINE m == n - unit + 1
               q == Div(m, unit)
               r == Rem(m, unit)
    <2>1. m \in Int /\ m < 0
      BY <1>2
    <2>2. q \in Int /\ r \in Int /\ m = unit * q + r /\ r \in 1 - unit .. 0
      BY <2>1, DivBounds
    <2> HIDE DEF q, r
    <2>3. n = unit * q + (r + unit - 1) /\ r + unit - 1 \in 0 .. unit - 1
      BY <2>2
    <2>4. n \div unit = q
      BY <2>2, <2>3, DivUnique
    <2> QED  BY <2>4 DEF q
  <1> QED  BY <1>1, <1>2

\* to_explode: "The following values are all rounded towards -infinity": the seconds and
\* the millisecond are those of the floor, for every instant, before the epoch too, for
\* which neither subtraction leaves the int64_t.
THEOREM RoundsDown ==
    ASSUME NEW us \in Int64, NEW is_local \in BOOLEAN,
           us - kMicrosecondsPerMillisecond + 1 >= Int64Min,
           (us \div kMicrosecondsPerMillisecond) - kMillisecondsPerSecond + 1 >= Int64Min
    PROVE  LET ms == us \div kMicrosecondsPerMillisecond
           IN to_explode(us, is_local) =
                [tm |-> time_t_to_tm(ms \div kMillisecondsPerSecond, is_local),
                 millisecond |-> ms % kMillisecondsPerSecond]
  <1> DEFINE u == kMicrosecondsPerMillisecond
             k == kMillisecondsPerSecond
             ms == us \div u
             rem == Rem(ms, k)
  <1>1. /\ u \in Nat \ {0} /\ k \in Nat \ {0} /\ us \in Int
        /\ Int64Max \in Nat /\ Int64Min \in Int /\ Int64Min < 0
    BY UnitsAssumption DEF Int64, Int64Min
  <1>2. ms \in Int /\ (us < 0 => ms < 0) /\ (us >= 0 => ms >= 0)
    <2>1. ms \in Int /\ (us % u) \in 0 .. u - 1 /\ us = u * ms + (us % u)
      BY <1>1, DivMod
    <2> HIDE DEF ms, u
    <2>2. ASSUME ms >= 0  PROVE us >= 0
      <3>1. 0 * u <= ms * u
        BY <1>1, <2>1, <2>2, Monotone
      <3> QED  BY <1>1, <2>1, <3>1
    <2>3. ASSUME ms <= -1  PROVE us < 0
      <3>1. ms * u <= (-1) * u
        BY <1>1, <2>1, <2>3, Monotone
      <3> QED  BY <1>1, <2>1, <3>1
    <2> QED  BY <1>1, <2>1, <2>2, <2>3
  <1>3. CASE us >= 0
    <2>1. Div(us, u) = ms /\ Div(ms, k) = ms \div k
      BY <1>1, <1>2, <1>3, Floor
    <2>2. rem \in 0 .. k - 1 /\ ms = k * Div(ms, k) + rem /\ Div(ms, k) \in Int
      BY <1>1, <1>2, <1>3, DivBounds
    <2> HIDE DEF ms, rem
    <2>3. ms % k = rem
      BY <1>1, <1>2, <2>2, DivUnique
    <2>4. to_explode(us, is_local) = [tm |-> time_t_to_tm(Div(ms, k), is_local), millisecond |-> rem]
      <3>1. ~(us < 0)
        BY <1>1, <1>3
      <3> QED  BY <1>3, <2>1, <3>1, Zenon DEF to_explode, rem
    <2> QED  BY <2>1, <2>3, <2>4, Zenon DEF ms
  <1>4. CASE us < 0
    <2> DEFINE a == us - u + 1
               b == ms - k + 1
    <2>1. AsInt64(a) = a /\ AsInt64(b) = b
      <3>1. a \in Int64 /\ b \in Int64
        <4> HIDE DEF ms
        <4> QED  BY <1>1, <1>2, <1>4 DEF Int64, ms
      <3> QED  BY <3>1, InRange
    <2>2. Div(a, u) = ms /\ Div(b, k) = ms \div k
      BY <1>1, <1>2, <1>4, Floor
    <2>3. rem \in 1 - k .. 0 /\ ms = k * Div(ms, k) + rem /\ Div(ms, k) \in Int
      BY <1>1, <1>2, <1>4, DivBounds
    <2> HIDE DEF ms, rem
    <2>4. ms % k = IF rem < 0 THEN rem + k ELSE rem
      <3>1. CASE rem < 0
        <4>1. ms = k * (Div(ms, k) - 1) + (rem + k) /\ rem + k \in 0 .. k - 1
          BY <1>1, <2>3, <3>1
        <4>2. Div(ms, k) - 1 \in Int
          BY <2>3
        <4> QED  BY <1>1, <1>2, <3>1, <4>1, <4>2, DivUnique
      <3>2. CASE rem >= 0
        <4>1. rem \in 0 .. k - 1
          BY <1>1, <2>3, <3>2
        <4> QED  BY <1>1, <1>2, <2>3, <3>2, <4>1, DivUnique
      <3> QED  BY <2>3, <3>1, <3>2
    <2>5. ~(us >= 0)
      BY <1>1, <1>4
    <2>6. to_explode(us, is_local) = [tm |-> time_t_to_tm(Div(b, k), is_local),
                                      millisecond |-> IF us < 0 /\ rem < 0 THEN rem + k ELSE rem]
      BY <2>1, <2>2, <2>5, Zenon DEF to_explode, rem
    <2>7. (IF us < 0 /\ rem < 0 THEN rem + k ELSE rem) = ms % k
      BY <1>4, <2>4
    <2> QED  BY <2>2, <2>6, <2>7, Zenon DEF ms
  <1> QED  BY <1>1, <1>3, <1>4

\* An instant not before the epoch survives to_timeval and from_timeval, and
\* its microseconds are in range, as from_timeval's DCHECKs require.
THEOREM TimevalReturns ==
    ASSUME NEW n \in 0 .. Int64Max
    PROVE  /\ from_timeval(to_timeval(n)) = n
           /\ to_timeval(n).tv_usec \in 0 .. kMicrosecondsPerSecond - 1
  <1> DEFINE k == kMicrosecondsPerSecond
             q == Div(n, k)
             r == Rem(n, k)
  <1>1. k \in Nat \ {0}
    BY UnitsAssumption DEF kMicrosecondsPerSecond
  <1>2. n \in Int /\ n >= 0 /\ Int64Max \in Nat
    BY UnitsAssumption
  <1> HIDE DEF k
  <1>3. q \in Int /\ r \in 0 .. k - 1 /\ n = k * q + r
    BY <1>1, <1>2, DivBounds
  <1>4. 0 <= q /\ q <= n /\ q * k = k * q /\ 0 <= q * k
    <2>1. q >= 0
      <3>1. ASSUME q <= -1  PROVE FALSE
        <4>1. q * k <= (-1) * k
          BY <1>1, <1>3, <3>1, Monotone
        <4> QED  BY <1>1, <1>2, <1>3, <4>1
      <3> QED  BY <1>3, <3>1
    <2>2. 1 * q <= k * q
      BY <1>1, <1>3, <2>1
    <2> QED  BY <1>1, <1>3, <2>1, <2>2
  <1>5. to_timeval(n) = IF n = 0 THEN [tv_sec |-> 0, tv_usec |-> 0]
                        ELSE IF n = Int64Max THEN [tv_sec |-> Int64Max, tv_usec |-> k - 1]
                        ELSE [tv_sec |-> q, tv_usec |-> r]
    BY DEF to_timeval, k
  <1>6. \A tv : from_timeval(tv) = IF tv.tv_usec = 0 /\ tv.tv_sec = 0 THEN 0
                                   ELSE IF tv.tv_usec = k - 1 /\ tv.tv_sec = Int64Max THEN Int64Max
                                   ELSE AsInt64(AsInt64(tv.tv_sec * k) + tv.tv_usec)
    BY DEF from_timeval, k
  <1> HIDE DEF q, r
  <1>7. CASE n = 0
    BY <1>1, <1>5, <1>6, <1>7 DEF k
  <1>8. CASE n # 0 /\ n = Int64Max
    BY <1>1, <1>2, <1>5, <1>6, <1>8 DEF k
  <1>9. CASE n # 0 /\ n # Int64Max
    <2>1. AsInt64(q * k) = q * k /\ AsInt64(q * k + r) = n
      <3>1. q * k \in Int64 /\ n \in Int64 /\ q * k + r = n
        BY <1>1, <1>2, <1>3, <1>4 DEF Int64, Int64Min
      <3> QED  BY <3>1, InRange
    <2>2. q # Int64Max /\ ~(r = 0 /\ q = 0)
      BY <1>1, <1>2, <1>3, <1>4, <1>9
    <2>3. to_timeval(n) = [tv_sec |-> q, tv_usec |-> r]
      BY <1>5, <1>9
    <2> QED  BY <1>3, <1>6, <2>1, <2>2, <2>3 DEF k
  <1> QED  BY <1>7, <1>8, <1>9

-----------------------------------------------------------------------------
(* Poller.                                                                 *)

\* What a channel's own fields say the pollers hold for it: its pollfd ...
ListenEntry(c) == [fd |-> fd[c], events |-> ch[c].events]
\* ... and its epoll_event.
EpollEntry(c) == [fd |-> fd[c], events |-> ch[c].events, ptr |-> c]
\* The channels the pollers listen to.
Listened == {c \in alive : ch[c].status = "Added"}

\* The invariant: both tables are functions of the channels that are alive.
PollerInv ==
    /\ TypeOK
    /\ \A c, d \in alive : fd[c] = fd[d] => c = d
    /\ \A c \in alive : channels_[fd[c]] = IF ch[c].status = "Init" THEN NoChannel ELSE c
    /\ \A f \in Fds : channels_[f] # NoChannel =>
                         channels_[f] \in alive /\ fd[channels_[f]] = f
    /\ listen_events_ = {ListenEntry(c) : c \in Listened}
    /\ epoll = {EpollEntry(c) : c \in Listened}

\* There are no channels yet.
LEMMA PollerInvInit == Init => PollerInv
BY NoChannelAssumption DEF Init, PollerInv, TypeOK, ListenEntry, EpollEntry, Listened, NewChannel, ChannelType, Statuses, Events

\* The fields of the entries, for provers that do not look into records.
LEMMA EntryFields ==
    \A c : /\ ListenEntry(c).fd = fd[c] /\ ListenEntry(c).events = ch[c].events
           /\ EpollEntry(c).fd = fd[c] /\ EpollEntry(c).events = ch[c].events
           /\ EpollEntry(c).ptr = c
BY DEF ListenEntry, EpollEntry

\* The tables that are functions of the channels agree with them and with each other.
LEMMA PollerInvImplies == PollerInv => PollersAgree
<1> SUFFICES ASSUME PollerInv PROVE PollersAgree
  OBVIOUS
<1>0. \A e \in listen_events_ : \E c \in Listened : e = ListenEntry(c)
  BY DEF PollerInv
<1>a. \A e \in epoll : \E c \in Listened : e = EpollEntry(c)
  BY DEF PollerInv
<1>b. \A c \in Listened : ListenEntry(c) \in listen_events_ /\ EpollEntry(c) \in epoll
  BY DEF PollerInv
<1>c. \A c \in Listened : c \in alive /\ ch[c].status = "Added" /\ channels_[fd[c]] = c
  BY DEF PollerInv, Listened
<1>1. PollerAgrees
  <2>1. ASSUME NEW c \in alive, NEW events \in SUBSET Events
        PROVE  [fd |-> fd[c], events |-> events] \in listen_events_
                 <=> ch[c].status = "Added" /\ events = ch[c].events
    <3>1. ASSUME [fd |-> fd[c], events |-> events] \in listen_events_
          PROVE  ch[c].status = "Added" /\ events = ch[c].events
      <4>1. PICK d \in Listened : [fd |-> fd[c], events |-> events] = ListenEntry(d)
        BY <1>0, <3>1
      <4>2. fd[c] = fd[d] /\ events = ch[d].events
        BY <4>1, EntryFields
      <4> QED
        BY <1>c, <2>1, <4>2 DEF PollerInv
    <3>2. ASSUME ch[c].status = "Added" PROVE ListenEntry(c) \in listen_events_
      BY <1>b, <2>1, <3>2 DEF Listened
    <3> QED
      BY <3>1, <3>2 DEF ListenEntry
  <2>2. \A e \in listen_events_ : channels_[e.fd] \in alive
    BY <1>0, <1>c, EntryFields
  <2> QED
    BY <2>1, <2>2 DEF PollerInv, PollerAgrees
<1>2. BackendsAgree
  <2>1. ASSUME NEW ready \in SUBSET {e.fd : e \in listen_events_}
        PROVE  PollReport(ready) = EPollReport(ready)
    <3>1. \A f \in ready : \E c \in Listened : f = fd[c]
      BY <1>0, EntryFields
    <3>3. PollReport(ready) = {c \in Listened : fd[c] \in ready}
      BY <1>c, <3>1 DEF PollReport
    <3>4. EPollReport(ready) = {c \in Listened : fd[c] \in ready}
      BY <1>a, <1>b, EntryFields DEF EPollReport
    <3> QED
      BY <3>3, <3>4
  <2>2. listen_events_ = {[fd |-> e.fd, events |-> e.events] : e \in epoll}
    <3>1. \A c : [fd |-> EpollEntry(c).fd, events |-> EpollEntry(c).events] = ListenEntry(c)
      BY EntryFields DEF ListenEntry
    <3> QED
      BY <1>0, <1>a, <1>b, <3>1
  <2> QED
    BY <2>1, <2>2 DEF BackendsAgree
<1> QED
  BY <1>1, <1>2 DEF PollersAgree, PollerInv

\* Erasing the entry of a descriptor erases the entry of its one channel.
LEMMA OtherEntries ==
    ASSUME PollerInv, NEW c \in alive
    PROVE  /\ {e \in listen_events_ : e.fd # fd[c]} = {ListenEntry(d) : d \in Listened \ {c}}
           /\ {e \in epoll : e.fd # fd[c]} = {EpollEntry(d) : d \in Listened \ {c}}
<1>1. \A d \in Listened : d \in alive /\ (fd[d] = fd[c] <=> d = c)
  BY DEF PollerInv, Listened
<1>2. {e \in listen_events_ : e.fd # fd[c]} = {ListenEntry(d) : d \in Listened \ {c}}
  BY <1>1, EntryFields DEF PollerInv
<1>3. {e \in epoll : e.fd # fd[c]} = {EpollEntry(d) : d \in Listened \ {c}}
  BY <1>1, EntryFields DEF PollerInv
<1> QED
  BY <1>2, <1>3

\* What Channel::update makes of new events.
LEMMA UpdateFields ==
    ASSUME NEW c, NEW events \in SUBSET Events, ch[c] \in ChannelType
    PROVE  LET u == update([ch[c] EXCEPT !.events = events])
           IN  /\ u \in ChannelType /\ u.events = events
               /\ u.status = IF Operation(c, events) = "Del" THEN "Deleted" ELSE "Added"
BY Zenon DEF update, ChannelType, Statuses, is_none_event, Operation

\* A new channel has a descriptor no other channel has, and is in no table.
LEMMA ConstructKeeps ==
    ASSUME PollerInv, NEW c \in Channels, NEW f \in Fds, Construct(c, f)
    PROVE  PollerInv'
<1>0. /\ c \notin alive /\ \A d \in alive : fd[d] # f
      /\ alive' = alive \cup {c} /\ fd' = [fd EXCEPT ![c] = f]
      /\ ch' = [ch EXCEPT ![c] = NewChannel]
      /\ UNCHANGED <<channels_, listen_events_, epoll, active_channels_, handling>>
  BY DEF Construct, tables, pass
<1>1. /\ fd'[c] = f /\ ch'[c] = NewChannel
      /\ \A d \in alive : d # c /\ d \in Channels /\ fd'[d] = fd[d] /\ ch'[d] = ch[d]
  BY <1>0 DEF PollerInv, TypeOK
<1>2. TypeOK'
  BY <1>0 DEF PollerInv, TypeOK, NewChannel, ChannelType, Statuses
<1>3. Listened' = Listened
  BY <1>0, <1>1 DEF Listened, NewChannel
<1>4. \A d \in Listened : ListenEntry(d)' = ListenEntry(d) /\ EpollEntry(d)' = EpollEntry(d)
  BY <1>1 DEF Listened, ListenEntry, EpollEntry
<1>5. channels_[f] = NoChannel
  BY <1>0 DEF PollerInv
<1>6. /\ (\A d, e \in alive : fd[d] = fd[e] => d = e)'
      /\ (\A d \in alive : channels_[fd[d]] = IF ch[d].status = "Init" THEN NoChannel ELSE d)'
      /\ (\A g \in Fds : channels_[g] # NoChannel =>
                            channels_[g] \in alive /\ fd[channels_[g]] = g)'
  BY <1>0, <1>1, <1>5 DEF PollerInv, NewChannel
<1>7. /\ (listen_events_ = {ListenEntry(d) : d \in Listened})'
      /\ (epoll = {EpollEntry(d) : d \in Listened})'
  BY <1>0, <1>3, <1>4 DEF PollerInv
<1> QED
  BY <1>2, <1>6, <1>7 DEF PollerInv

\* Any change of a channel's events is made to both tables.
LEMMA UpdateKeeps ==
    ASSUME PollerInv, NEW c \in Channels, NEW events \in SUBSET Events, Update(c, events)
    PROVE  PollerInv'
<1> DEFINE u == update([ch[c] EXCEPT !.events = events])
<1> DEFINE op == Operation(c, events)
<1>0. /\ c \in alive /\ ch[c] \in ChannelType /\ fd[c] \in Fds
      /\ ch' = [ch EXCEPT ![c] = u]
      /\ channels_' = IF ch[c].status = "Init" THEN [channels_ EXCEPT ![fd[c]] = c]
                                               ELSE channels_
      /\ listen_events_' = poll_events(op, fd[c], events)
      /\ epoll' = epoll_ctl(op, c, events)
      /\ UNCHANGED <<alive, fd, active_channels_, handling>>
  <2>1. [ch[c] EXCEPT !.events = events].events = events
    BY DEF Update, PollerInv, TypeOK, ChannelType
  <2> QED
    BY <2>1 DEF Update, update_channel, update_poll_events, pass, PollerInv, TypeOK
<1>1. /\ u \in ChannelType /\ u.events = events
      /\ u.status = IF op = "Del" THEN "Deleted" ELSE "Added"
  BY <1>0, UpdateFields
<1> HIDE DEF u, op
<1>2. /\ ch'[c] = u
      /\ \A d \in alive : d # c => ch'[d] = ch[d]
  BY <1>0 DEF PollerInv, TypeOK
<1>3. /\ Listened' = IF op = "Del" THEN Listened \ {c} ELSE (Listened \ {c}) \cup {c}
      /\ \A d \in Listened \ {c} :
            ListenEntry(d)' = ListenEntry(d) /\ EpollEntry(d)' = EpollEntry(d)
  BY <1>0, <1>1, <1>2 DEF Listened, ListenEntry, EpollEntry
<1>4. /\ ListenEntry(c)' = [fd |-> fd[c], events |-> events]
      /\ EpollEntry(c)' = [fd |-> fd[c], events |-> events, ptr |-> c]
  BY <1>0, <1>1, <1>2 DEF ListenEntry, EpollEntry
<1>5. (listen_events_ = {ListenEntry(d) : d \in Listened})'
  BY <1>0, <1>3, <1>4, OtherEntries DEF poll_events
<1>6. (epoll = {EpollEntry(d) : d \in Listened})'
  BY <1>0, <1>3, <1>4, OtherEntries DEF epoll_ctl
<1>7. \A d \in alive : channels_'[fd[d]] = IF ch'[d].status = "Init" THEN NoChannel ELSE d
  BY <1>0, <1>1, <1>2 DEF PollerInv, TypeOK
<1>8. \A g \in Fds : channels_'[g] # NoChannel =>
                        channels_'[g] \in alive /\ fd[channels_'[g]] = g
  BY <1>0 DEF PollerInv, TypeOK
<1>9. TypeOK'
  <2>1. listen_events_' \subseteq [fd : Fds, events : SUBSET Events]
    BY <1>0 DEF poll_events, PollerInv, TypeOK
  <2>2. epoll' \subseteq [fd : Fds, events : SUBSET Events, ptr : Channels]
    BY <1>0 DEF epoll_ctl, PollerInv, TypeOK
  <2> QED
    BY <1>0, <1>1, <2>1, <2>2 DEF PollerInv, TypeOK
<1> QED
  BY <1>0, <1>5, <1>6, <1>7, <1>8, <1>9 DEF PollerInv

\* A removed channel leaves channels_ and has no entry left in either table.
LEMMA RemoveKeeps ==
    ASSUME PollerInv, NEW c \in Channels, RemoveChannel(c)
    PROVE  PollerInv'
<1>0. /\ c \in alive /\ ch[c] \in ChannelType /\ fd[c] \in Fds
      /\ channels_' = [channels_ EXCEPT ![fd[c]] = NoChannel]
      /\ ch' = [ch EXCEPT ![c] = remove(ch[c])]
      /\ UNCHANGED <<alive, fd, active_channels_, handling>>
  BY DEF RemoveChannel, pass, PollerInv, TypeOK
<1>1. /\ listen_events_' = {ListenEntry(d) : d \in Listened \ {c}}
      /\ epoll' = {EpollEntry(d) : d \in Listened \ {c}}
  <2>1. CASE ch[c].status = "Added"
    BY <1>0, <2>1, OtherEntries DEF RemoveChannel, update_poll_events, poll_events, epoll_ctl
  <2>2. CASE ch[c].status # "Added"
    <3>1. Listened \ {c} = Listened
      BY <2>2 DEF Listened
    <3> QED
      BY <2>2, <3>1 DEF RemoveChannel, PollerInv
  <2> QED
    BY <2>1, <2>2
<1>2. /\ ch'[c] \in ChannelType /\ ch'[c].status = "Init"
      /\ \A d \in alive : d # c => ch'[d] = ch[d]
  BY <1>0 DEF PollerInv, TypeOK, remove, ChannelType, Statuses
<1>3. /\ Listened' = Listened \ {c}
      /\ \A d \in Listened \ {c} :
            ListenEntry(d)' = ListenEntry(d) /\ EpollEntry(d)' = EpollEntry(d)
  BY <1>0, <1>2 DEF Listened, ListenEntry, EpollEntry
<1>4. /\ (listen_events_ = {ListenEntry(d) : d \in Listened})'
      /\ (epoll = {EpollEntry(d) : d \in Listened})'
  BY <1>1, <1>3
<1>5. \A d \in alive : channels_'[fd[d]] = IF ch'[d].status = "Init" THEN NoChannel ELSE d
  BY <1>0, <1>2 DEF PollerInv, TypeOK
<1>6. \A g \in Fds : channels_'[g] # NoChannel =>
                        channels_'[g] \in alive /\ fd[channels_'[g]] = g
  BY <1>0 DEF PollerInv, TypeOK
<1>7. TypeOK'
  <2>1. {ListenEntry(d) : d \in Listened \ {c}} \subseteq listen_events_
    BY DEF PollerInv
  <2>2. {EpollEntry(d) : d \in Listened \ {c}} \subseteq epoll
    BY DEF PollerInv
  <2> QED
    BY <1>0, <1>1, <1>2, <2>1, <2>2 DEF PollerInv, TypeOK
<1> QED
  BY <1>0, <1>4, <1>5, <1>6, <1>7 DEF PollerInv

\* A destroyed channel had been removed, so that no table has it.
LEMMA DestroyKeeps ==
    ASSUME PollerInv, NEW c \in Channels, Destroy(c)
    PROVE  PollerInv'
<1>0. /\ c \in alive /\ ch[c].status = "Init" /\ alive' = alive \ {c}
      /\ active_channels_ = {} /\ handling = NoChannel
      /\ UNCHANGED <<fd, ch, channels_, listen_events_, epoll, active_channels_, handling>>
  BY DEF Destroy, tables, pass
<1>1. /\ Listened' = Listened
      /\ \A d \in Listened : ListenEntry(d)' = ListenEntry(d) /\ EpollEntry(d)' = EpollEntry(d)
  BY <1>0 DEF Listened, ListenEntry, EpollEntry
<1>2. /\ (listen_events_ = {ListenEntry(d) : d \in Listened})'
      /\ (epoll = {EpollEntry(d) : d \in Listened})'
  BY <1>0, <1>1 DEF PollerInv
<1>3. \A g \in Fds : channels_[g] # NoChannel => channels_[g] # c
  BY <1>0 DEF PollerInv
<1> QED
  BY <1>0, <1>2, <1>3, Zenon DEF PollerInv, TypeOK

\* Reporting and handling channels changes no table, and reports what exists.
LEMMA PassKeeps ==
    ASSUME PollerInv, \/ \E ready \in SUBSET Fds : Poll(ready)
                      \/ \E c \in Channels : BeginHandle(c)
                      \/ EndHandle
    PROVE  PollerInv'
<1>0. UNCHANGED <<alive, fd, ch, channels_, listen_events_, epoll>>
  BY DEF Poll, BeginHandle, EndHandle, tables
<1>1. active_channels_' \subseteq alive /\ handling' \in alive \cup {NoChannel}
  <2>1. ASSUME NEW ready \in SUBSET Fds, Poll(ready) PROVE PollReport(ready) \subseteq alive
    <3>1. \A e \in listen_events_ : channels_[e.fd] \in alive
      BY PollerInvImplies DEF PollersAgree, PollerAgrees
    <3> QED
      BY <2>1, <3>1 DEF Poll, PollReport
  <2> QED
    BY <2>1 DEF Poll, BeginHandle, EndHandle, PollerInv, TypeOK
<1>2. /\ Listened' = Listened
      /\ \A d : ListenEntry(d)' = ListenEntry(d) /\ EpollEntry(d)' = EpollEntry(d)
  BY <1>0 DEF Listened, ListenEntry, EpollEntry
<1>3. TypeOK'
  BY <1>0, <1>1 DEF PollerInv, TypeOK
<1> QED
  BY <1>0, <1>2, <1>3 DEF PollerInv

\* For every set of channels and descriptors: what is reported exists, each poller listens
\* for a channel exactly as the channel's own fields say, and the two pollers agree, after
\* any sequence of updates, removals and destructions.
THEOREM PollersAlwaysAgree == Spec => []PollersAgree
<1>1. PollerInv /\ [Next]_vars => PollerInv'
  <2> SUFFICES ASSUME PollerInv, [Next]_vars PROVE PollerInv'
    OBVIOUS
  <2>1. CASE UNCHANGED vars
    <3>1. /\ Listened' = Listened
          /\ \A d : ListenEntry(d)' = ListenEntry(d) /\ EpollEntry(d)' = EpollEntry(d)
      BY <2>1 DEF vars, Listened, ListenEntry, EpollEntry
    <3> QED
      BY <2>1, <3>1 DEF vars, PollerInv, TypeOK
  <2> QED
    BY <2>1, ConstructKeeps, UpdateKeeps, RemoveKeeps, DestroyKeeps, PassKeeps DEF Next
<1> QED
  BY <1>1, PollerInvInit, PollerInvImplies, PTL DEF Spec

-----------------------------------------------------------------------------
(* Handles.                                                                *)

\* Every set of natural numbers that is not empty has a least element.
LEMMA LeastNatural ==
    ASSUME NEW T \in SUBSET Nat, T # {}
    PROVE  \E x \in T : \A y \in T : x <= y
<1> DEFINE R == {ss \in Nat \X Nat : ss[1] < ss[2]}
<1>1. IsWellFoundedOn(R, Nat)
  BY NatLessThanWellFounded DEF OpToRel
<1> HIDE DEF R
<1>2. PICK x \in T : \A y \in T : <<y, x>> \notin R
  BY <1>1, WFMin, Zenon
<1>3. \A y \in T : ~(y < x)
  BY <1>2, Zenon DEF R
<1>4. \A y \in T : x <= y
  BY <1>3
<1> QED
  BY <1>4

\* The kernel finds a free descriptor if there is one.
LEMMA LowestFreeIsFree ==
    ASSUME FdNumbers \ openfds # {}
    PROVE  LowestFree \in FdNumbers \ openfds
<1>1. FdNumbers \ openfds \in SUBSET Nat
  BY HandlesAssumption DEF FdNumbers
<1>2. \E n \in FdNumbers \ openfds : \A k \in FdNumbers \ openfds : n <= k
  BY <1>1, LeastNatural, Zenon
<1> QED
  BY <1>2 DEF LowestFree

\* What a File may be.
FileStates == [alive : BOOLEAN, fd : FdNumbers \cup {invalid_value},
               error : {"FILE_OK", "FILE_ERROR_FAILED", "FILE_ERROR_ACCESS_DENIED",
                        "FILE_ERROR_NOT_FOUND"},
               created : BOOLEAN]

\* The invariant: HandlesOwned, and that a place without a File has no descriptor.
HandlesInv ==
    /\ file \in [Slots -> FileStates]
    /\ openfds \subseteq FdNumbers /\ loose \subseteq FdNumbers
    /\ \A f \in Slots : ~file[f].alive => file[f].fd = invalid_value
    /\ HandlesOwned

\* -1 is not a descriptor.
LEMMA InvalidIsNoDescriptor == invalid_value \notin FdNumbers
BY HandlesAssumption DEF invalid_value, FdNumbers

\* What a File made by a constructor is.
LEMMA MadeFields ==
    ASSUME NEW des \in FdNumbers \cup {invalid_value}, NEW created \in BOOLEAN,
           NEW error \in {"FILE_OK", "FILE_ERROR_FAILED"}
    PROVE  /\ Made(des, error, created) \in FileStates
           /\ Made(des, error, created).fd = des /\ Made(des, error, created).alive
BY DEF Made, FileStates

\* The fields of the records that the operations put into file.
LEMMA FileFields ==
    /\ NoFile \in FileStates /\ NoFile.fd = invalid_value /\ ~NoFile.alive
    /\ \A r \in FileStates :
          /\ r.fd \in FdNumbers \cup {invalid_value}
          /\ [r EXCEPT !.fd = invalid_value] \in FileStates
          /\ [r EXCEPT !.fd = invalid_value].fd = invalid_value
          /\ [r EXCEPT !.fd = invalid_value].alive = r.alive
          /\ [r EXCEPT !.error = "FILE_ERROR_ACCESS_DENIED"] \in FileStates
          /\ [r EXCEPT !.error = "FILE_ERROR_ACCESS_DENIED"].fd = r.fd
          /\ [r EXCEPT !.error = "FILE_ERROR_ACCESS_DENIED"].alive = r.alive
    /\ \A r \in FileStates :
          /\ [r EXCEPT !.error = "FILE_ERROR_NOT_FOUND", !.created = FALSE] \in FileStates
          /\ [r EXCEPT !.error = "FILE_ERROR_NOT_FOUND", !.created = FALSE].fd = r.fd
          /\ [r EXCEPT !.error = "FILE_ERROR_NOT_FOUND", !.created = FALSE].alive = r.alive
<1>1. NoFile \in FileStates /\ NoFile.fd = invalid_value /\ ~NoFile.alive
  BY DEF NoFile, FileStates
<1>3. ASSUME NEW r \in FileStates
      PROVE  /\ r.fd \in FdNumbers \cup {invalid_value}
             /\ [r EXCEPT !.fd = invalid_value] \in FileStates
             /\ [r EXCEPT !.fd = invalid_value].fd = invalid_value
             /\ [r EXCEPT !.fd = invalid_value].alive = r.alive
             /\ [r EXCEPT !.error = "FILE_ERROR_ACCESS_DENIED"] \in FileStates
             /\ [r EXCEPT !.error = "FILE_ERROR_ACCESS_DENIED"].fd = r.fd
             /\ [r EXCEPT !.error = "FILE_ERROR_ACCESS_DENIED"].alive = r.alive
  BY DEF FileStates
<1>4. ASSUME NEW r \in FileStates
      PROVE  /\ [r EXCEPT !.error = "FILE_ERROR_NOT_FOUND", !.created = FALSE] \in FileStates
             /\ [r EXCEPT !.error = "FILE_ERROR_NOT_FOUND", !.created = FALSE].fd = r.fd
             /\ [r EXCEPT !.error = "FILE_ERROR_NOT_FOUND", !.created = FALSE].alive = r.alive
  BY Zenon DEF FileStates
<1> QED
  BY <1>1, <1>3, <1>4, Zenon

\* There is no File yet.
LEMMA HandlesInvInit == HandlesInit => HandlesInv
BY InvalidIsNoDescriptor DEF HandlesInit, HandlesInv, HandlesOwned, NoFile, FileStates, Owned, is_valid

\* The descriptors the Files have.
Has(f) == file[f].fd

\* What HandlesOwned says as long as no check has failed, in terms of who has what.
LEMMA OwnersAre ==
    ASSUME HandlesInv, crash = "no"
    PROVE  /\ \A f \in Slots : Has(f) # invalid_value => Has(f) \in openfds \ loose
           /\ \A des \in openfds : des \notin loose => \E f \in Slots : Has(f) = des
           /\ loose \subseteq openfds
           /\ \A f, g \in Slots : (Has(f) = Has(g) /\ Has(f) # invalid_value) => f = g
           /\ \A f \in Slots : Has(f) \in FdNumbers \cup {invalid_value}
           /\ openfds \subseteq FdNumbers
<1>0. \A des \in FdNumbers : IF des \in openfds THEN Owned(des) <=> des \notin loose
                                              ELSE ~Owned(des) /\ des \notin loose
  BY DEF HandlesInv, HandlesOwned
<1>1. \A f \in Slots : Has(f) \in FdNumbers \cup {invalid_value}
  BY DEF HandlesInv, FileStates, Has
<1>2. \A des \in FdNumbers : Owned(des) <=> \E f \in Slots : Has(f) = des
  BY DEF Owned, Has
<1>3. \A f, g \in Slots : (Has(f) = Has(g) /\ Has(f) # invalid_value) => f = g
  BY DEF HandlesInv, HandlesOwned, Has, is_valid
<1>4. openfds \subseteq FdNumbers /\ loose \subseteq FdNumbers
  BY DEF HandlesInv
<1> QED
  BY <1>0, <1>1, <1>2, <1>3, <1>4

\* And the other way round, for the state after a step.
LEMMA OwnersSuffice ==
    ASSUME file' \in [Slots -> FileStates], openfds' \subseteq FdNumbers,
           \A f \in Slots : ~file'[f].alive => file'[f].fd = invalid_value,
           crash' = "no",
           \A f \in Slots : Has(f)' # invalid_value => Has(f)' \in openfds' \ loose',
           \A des \in openfds' : des \notin loose' => \E f \in Slots : Has(f)' = des,
           loose' \subseteq openfds',
           \A f, g \in Slots : (Has(f)' = Has(g)' /\ Has(f)' # invalid_value) => f = g
    PROVE  HandlesInv'
<1>1. \A des \in FdNumbers : IF des \in openfds' THEN Owned(des)' <=> des \notin loose'
                                              ELSE ~Owned(des)' /\ des \notin loose'
  BY InvalidIsNoDescriptor DEF Owned, Has
<1> QED
  BY <1>1 DEF HandlesInv, HandlesOwned, Has, is_valid

\* What an operation that replaces one File's state does to who has what.
LEMMA FilePut ==
    ASSUME HandlesInv, NEW f \in Slots, NEW r \in FileStates, r.alive \/ r.fd = invalid_value,
           file' = [file EXCEPT ![f] = r]
    PROVE  /\ file' \in [Slots -> FileStates]
           /\ \A g \in Slots : ~file'[g].alive => file'[g].fd = invalid_value
           /\ Has(f)' = r.fd
           /\ \A g \in Slots : g # f => Has(g)' = Has(g)
BY DEF HandlesInv, Has

\* File() and the constructors and calls that touch no descriptor.
LEMMA DefaultKeeps ==
    ASSUME HandlesInv, NEW f \in Slots, Default(f) \/ InitializeParent(f)
    PROVE  HandlesInv'
<1>0. crash = "no" /\ UNCHANGED <<openfds, loose, crash>>
  BY Zenon DEF Default, InitializeParent, Empty, Holds
<1>1. PICK r \in FileStates : r.fd = Has(f) /\ r.alive /\ file' = [file EXCEPT ![f] = r]
  <2>1. CASE Default(f)
    <3>1. Has(f) = invalid_value /\ file' = [file EXCEPT ![f] = Made(invalid_value, "FILE_ERROR_FAILED", FALSE)]
      BY <2>1 DEF Default, Empty, Has, HandlesInv
    <3> QED
      BY <3>1, MadeFields, Zenon
  <2>2. CASE InitializeParent(f)
    BY <2>2, FileFields, Zenon DEF InitializeParent, Holds, Has, HandlesInv
  <2> QED
    BY <2>1, <2>2
<1>2. /\ file' \in [Slots -> FileStates]
      /\ \A g \in Slots : ~file'[g].alive => file'[g].fd = invalid_value
      /\ Has(f)' = Has(f) /\ \A g \in Slots : g # f => Has(g)' = Has(g)
  BY <1>1, FilePut, Zenon
<1> QED
  BY <1>0, <1>2, OwnersAre, OwnersSuffice

\* A descriptor goes from the program to a File, and back.
LEMMA HandOverKeeps ==
    ASSUME HandlesInv, NEW f \in Slots,
           Take(f) \/ \E des \in FdNumbers : FromDescriptor(f, des)
    PROVE  HandlesInv'
<1>1. CASE Take(f)
  <2>0. crash = "no" /\ UNCHANGED <<openfds, crash>> /\ Has(f) # invalid_value
        /\ loose' = loose \cup {Has(f)} /\ file[f].alive
    BY <1>1 DEF Take, Holds, is_valid, Has
  <2>1. PICK r \in FileStates : r.fd = invalid_value /\ file' = [file EXCEPT ![f] = r]
    BY <1>1, FileFields, Zenon DEF Take, HandlesInv
  <2>2. /\ file' \in [Slots -> FileStates]
        /\ \A g \in Slots : ~file'[g].alive => file'[g].fd = invalid_value
        /\ Has(f)' = invalid_value /\ \A g \in Slots : g # f => Has(g)' = Has(g)
    BY <2>1, FilePut, Zenon
  <2> QED
    BY <2>0, <2>2, OwnersAre, OwnersSuffice
<1>2. ASSUME NEW des \in FdNumbers, FromDescriptor(f, des) PROVE HandlesInv'
  <2>0. crash = "no" /\ UNCHANGED <<openfds, crash>> /\ des \in loose
        /\ loose' = loose \ {des} /\ Has(f) = invalid_value
    BY <1>2 DEF FromDescriptor, Empty, Has, HandlesInv
  <2>1. PICK r \in FileStates : r.fd = des /\ r.alive /\ file' = [file EXCEPT ![f] = r]
    BY <1>2, MadeFields, Zenon DEF FromDescriptor
  <2>2. /\ file' \in [Slots -> FileStates]
        /\ \A g \in Slots : ~file'[g].alive => file'[g].fd = invalid_value
        /\ Has(f)' = des /\ \A g \in Slots : g # f => Has(g)' = Has(g)
    BY <2>1, FilePut, Zenon
  <2> QED
    BY <2>0, <2>2, OwnersAre, OwnersSuffice, InvalidIsNoDescriptor
<1> QED
  BY <1>1, <1>2

\* ::open and ::dup give out a descriptor nobody has.
LEMMA OpenKeeps ==
    ASSUME HandlesInv, NEW f \in Slots,
           \/ \E created \in BOOLEAN : Initialize(f, created)
           \/ \E g \in Slots : Duplicate(f, g)
    PROVE  HandlesInv'
<1>0. crash = "no" /\ UNCHANGED loose
  BY Zenon DEF Initialize, Duplicate, Holds, Empty
<1>1. ASSUME crash' = "do_initialize", UNCHANGED <<file, openfds>> PROVE HandlesInv'
  BY <1>0, <1>1 DEF HandlesInv, HandlesOwned
<1>2. ASSUME NEW r \in FileStates, r.fd = invalid_value, Has(f) = invalid_value, r.alive,
             file' = [file EXCEPT ![f] = r], UNCHANGED <<openfds, crash>>
      PROVE  HandlesInv'
  <2>1. /\ file' \in [Slots -> FileStates]
        /\ \A g \in Slots : ~file'[g].alive => file'[g].fd = invalid_value
        /\ Has(f)' = invalid_value /\ \A g \in Slots : g # f => Has(g)' = Has(g)
    BY <1>2, FilePut, Zenon
  <2> QED
    BY <1>0, <1>2, <2>1, OwnersAre, OwnersSuffice
<1>3. ASSUME NEW r \in FileStates, r.fd = LowestFree, Has(f) = invalid_value, r.alive,
             file' = [file EXCEPT ![f] = r], FdNumbers \ openfds # {},
             openfds' = openfds \cup {LowestFree}, UNCHANGED crash
      PROVE  HandlesInv'
  <2>1. LowestFree \in FdNumbers \ openfds
    BY <1>3, LowestFreeIsFree
  <2>2. /\ file' \in [Slots -> FileStates]
        /\ \A g \in Slots : ~file'[g].alive => file'[g].fd = invalid_value
        /\ Has(f)' = LowestFree /\ \A g \in Slots : g # f => Has(g)' = Has(g)
    BY <1>3, FilePut, Zenon
  <2>3. /\ \A g \in Slots : Has(g)' # invalid_value => Has(g)' \in openfds' \ loose'
        /\ loose' \subseteq openfds' /\ openfds' \subseteq FdNumbers /\ crash' = "no"
    BY <1>0, <1>3, <2>1, <2>2, OwnersAre DEF HandlesInv
  <2>4. \A des \in openfds' : des \notin loose' => \E g \in Slots : Has(g)' = des
    BY <1>0, <1>3, <2>1, <2>2, OwnersAre, InvalidIsNoDescriptor DEF HandlesInv
  <2>5. \A g, h \in Slots : (Has(g)' = Has(h)' /\ Has(g)' # invalid_value) => g = h
    BY <1>0, <1>3, <2>1, <2>2, OwnersAre
  <2> QED
    BY <2>2, <2>3, <2>4, <2>5, OwnersSuffice
<1>4. ASSUME NEW created \in BOOLEAN, Initialize(f, created) PROVE HandlesInv'
  <2>1. CASE is_valid(f)
    BY <1>1, <1>4, <2>1 DEF Initialize
  <2>2. CASE ~is_valid(f)
    <3>0. Has(f) = invalid_value /\ file[f].alive /\ file \in [Slots -> FileStates]
      BY <1>4, <2>2 DEF is_valid, Has, Initialize, Holds, HandlesInv
    <3>1. ASSUME file' = [file EXCEPT ![f].error = "FILE_ERROR_NOT_FOUND", ![f].created = FALSE],
                 UNCHANGED <<openfds, crash>>
          PROVE  HandlesInv'
      <4> DEFINE r == [file[f] EXCEPT !.error = "FILE_ERROR_NOT_FOUND", !.created = FALSE]
      <4>1. file' = [file EXCEPT ![f] = r]
        BY <3>0, <3>1, Zenon
      <4>2. r \in FileStates /\ r.fd = invalid_value /\ r.alive
        BY <3>0, FileFields, Zenon DEF Has
      <4> QED
        BY <1>2, <3>0, <3>1, <4>1, <4>2, Zenon
    <3>2. ASSUME FdNumbers \ openfds # {}, openfds' = openfds \cup {LowestFree},
                 file' = [file EXCEPT ![f] = Made(LowestFree, "FILE_OK", created)],
                 UNCHANGED crash
          PROVE  HandlesInv'
      <4>1. LowestFree \in FdNumbers
        BY <3>2, LowestFreeIsFree
      <4>2. /\ Made(LowestFree, "FILE_OK", created) \in FileStates
            /\ Made(LowestFree, "FILE_OK", created).fd = LowestFree
            /\ Made(LowestFree, "FILE_OK", created).alive
        BY <4>1, MadeFields
      <4> QED
        BY <1>3, <3>0, <3>2, <4>2, Zenon
    <3> QED
      BY <1>4, <2>2, <3>1, <3>2 DEF Initialize
  <2> QED
    BY <2>1, <2>2
<1>5. ASSUME NEW g \in Slots, Duplicate(f, g) PROVE HandlesInv'
  <2>0. Has(f) = invalid_value
    BY <1>5 DEF Duplicate, Empty, HandlesInv, Has
  <2>1. ASSUME file' = [file EXCEPT ![f] = Made(invalid_value, "FILE_ERROR_FAILED", FALSE)],
               UNCHANGED <<openfds, crash>>
        PROVE  HandlesInv'
    BY <1>2, <2>0, <2>1, MadeFields, Zenon
  <2>2. ASSUME FdNumbers \ openfds # {}, openfds' = openfds \cup {LowestFree},
               file' = [file EXCEPT ![f] = Made(LowestFree, "FILE_OK", FALSE)],
               UNCHANGED crash
        PROVE  HandlesInv'
    <3>1. LowestFree \in FdNumbers
      BY <2>2, LowestFreeIsFree
    <3>2. /\ Made(LowestFree, "FILE_OK", FALSE) \in FileStates
          /\ Made(LowestFree, "FILE_OK", FALSE).fd = LowestFree
          /\ Made(LowestFree, "FILE_OK", FALSE).alive
      BY <3>1, MadeFields, Zenon
    <3> QED
      BY <1>3, <2>0, <2>2, <3>2, Zenon
  <2> QED
    BY <1>5, <2>1, <2>2, Zenon DEF Duplicate
<1> QED
  BY <1>4, <1>5

\* A File that gives up its descriptor, or the descriptor it had, closes it.
LEMMA FreedAre ==
    ASSUME HandlesInv, crash = "no", NEW f \in Slots, free_if_necessary(Has(f))
    PROVE  crash' = "no" /\ openfds' = openfds \ {Has(f)} /\ openfds' \subseteq FdNumbers
BY OwnersAre, InvalidIsNoDescriptor DEF free_if_necessary, free, HandlesInv

\* close(), ~File and the program close what one owner has.
LEMMA CloseKeeps ==
    ASSUME HandlesInv,
           \/ \E f \in Slots : Close(f) \/ DestroyFile(f)
           \/ \E des \in FdNumbers : CloseLoose(des)
    PROVE  HandlesInv'
<1>1. ASSUME NEW f \in Slots, Close(f) \/ DestroyFile(f) PROVE HandlesInv'
  <2>0. crash = "no" /\ UNCHANGED loose
    BY <1>1 DEF Close, DestroyFile, Holds
  <2>1. PICK r \in FileStates : r.fd = invalid_value /\ file' = [file EXCEPT ![f] = r]
    <3>1. CASE Close(f)
      BY <3>1, FileFields, Zenon DEF Close, HandlesInv
    <3>2. CASE DestroyFile(f)
      BY <3>2, FileFields, Zenon DEF DestroyFile
    <3> QED
      BY <1>1, <3>1, <3>2
  <2>2. free_if_necessary(Has(f))
    BY <1>1 DEF Close, DestroyFile, scoped_reset, Has, is_valid
  <2>3. crash' = "no" /\ openfds' = openfds \ {Has(f)} /\ openfds' \subseteq FdNumbers
    BY <2>0, <2>2, FreedAre
  <2>4. /\ file' \in [Slots -> FileStates]
        /\ \A g \in Slots : ~file'[g].alive => file'[g].fd = invalid_value
        /\ Has(f)' = invalid_value /\ \A g \in Slots : g # f => Has(g)' = Has(g)
    BY <2>1, FilePut, Zenon
  <2>5. /\ \A g \in Slots : Has(g)' # invalid_value => Has(g)' \in openfds' \ loose'
        /\ loose' \subseteq openfds'
    BY <2>0, <2>3, <2>4, OwnersAre, InvalidIsNoDescriptor DEF HandlesInv
  <2>6. \A des \in openfds' : des \notin loose' => \E g \in Slots : Has(g)' = des
    BY <2>0, <2>3, <2>4, OwnersAre
  <2>7. \A g, h \in Slots : (Has(g)' = Has(h)' /\ Has(g)' # invalid_value) => g = h
    BY <2>0, <2>4, OwnersAre
  <2> QED
    BY <2>3, <2>4, <2>5, <2>6, <2>7, OwnersSuffice
<1>2. ASSUME NEW des \in FdNumbers, CloseLoose(des) PROVE HandlesInv'
  <2>1. \A g \in Slots : Has(g)' = Has(g)
    BY <1>2 DEF CloseLoose, Has
  <2> QED
    BY <1>2, <2>1, OwnersAre, OwnersSuffice DEF CloseLoose, HandlesInv
<1> QED
  BY <1>1, <1>2

\* A moved File's descriptor changes hands; the one it replaces is closed.
LEMMA MoveKeeps ==
    ASSUME HandlesInv, NEW f \in Slots, NEW g \in Slots,
           ConstructMoved(f, g) \/ AssignMoved(f, g)
    PROVE  HandlesInv'
<1>0. crash = "no" /\ UNCHANGED loose /\ file[g].alive /\ file \in [Slots -> FileStates]
  BY DEF ConstructMoved, AssignMoved, Holds, Empty, HandlesInv
<1>1. /\ file' \in [Slots -> FileStates]
      /\ \A h \in Slots : ~file'[h].alive => file'[h].fd = invalid_value
      /\ Has(g)' = invalid_value
      /\ f # g => Has(f)' = Has(g)
      /\ \A h \in Slots : h \notin {f, g} => Has(h)' = Has(h)
  <2>1. CASE f = g
    <3>1. AssignMoved(f, g)
      BY <2>1 DEF ConstructMoved, Empty, Holds
    <3>2. file' = [file EXCEPT ![f] = [file[f] EXCEPT !.fd = invalid_value]]
      BY <2>1, <3>1 DEF AssignMoved
    <3>3. /\ [file[f] EXCEPT !.fd = invalid_value] \in FileStates
          /\ [file[f] EXCEPT !.fd = invalid_value].fd = invalid_value
      BY <1>0, FileFields, Zenon
    <3> QED
      BY <2>1, <3>2, <3>3, FilePut, Zenon
  <2>2. CASE f # g
    <3> DEFINE r == [file[g] EXCEPT !.fd = invalid_value]
    <3>1. file' = [file EXCEPT ![f] = file[g], ![g] = r]
      BY <1>0, <2>2 DEF ConstructMoved, AssignMoved
    <3>2. r \in FileStates /\ r.fd = invalid_value /\ r.alive
      BY <1>0, FileFields, Zenon
    <3> HIDE DEF r
    <3> QED
      BY <1>0, <2>2, <3>1, <3>2 DEF Has, HandlesInv
  <2> QED
    BY <2>1, <2>2
<1>2. crash' = "no" /\ openfds' = openfds \ {Has(f)} /\ openfds' \subseteq FdNumbers
  <2>1. CASE ConstructMoved(f, g)
    BY <1>0, <2>1, InvalidIsNoDescriptor DEF ConstructMoved, Empty, HandlesInv, Has
  <2>2. CASE AssignMoved(f, g)
    BY <1>0, <2>2, FreedAre DEF AssignMoved, Has
  <2> QED
    BY <2>1, <2>2
<1>3. /\ \A h \in Slots : Has(h)' # invalid_value => Has(h)' \in openfds' \ loose'
      /\ loose' \subseteq openfds'
  BY <1>0, <1>1, <1>2, OwnersAre, InvalidIsNoDescriptor DEF HandlesInv
<1>4. \A des \in openfds' : des \notin loose' => \E h \in Slots : Has(h)' = des
  BY <1>0, <1>1, <1>2, OwnersAre
<1>5. \A h, k \in Slots : (Has(h)' = Has(k)' /\ Has(h)' # invalid_value) => h = k
  BY <1>0, <1>1, OwnersAre
<1> QED
  BY <1>1, <1>2, <1>3, <1>4, <1>5, OwnersSuffice

\* Every descriptor has exactly one owner and none is closed behind its owner's back, for
\* any number of File objects and descriptors and any sequence of moves and closes.
THEOREM HandlesAlwaysOwned == HandlesSpec => []HandlesOwned
<1>1. HandlesInv /\ [HandlesNext]_hvars => HandlesInv'
  <2> SUFFICES ASSUME HandlesInv, [HandlesNext]_hvars PROVE HandlesInv'
    OBVIOUS
  <2>1. CASE UNCHANGED hvars
    BY <2>1 DEF hvars, HandlesInv, HandlesOwned, Owned, is_valid
  <2> QED
    BY <2>1, DefaultKeeps, HandOverKeeps, OpenKeeps, CloseKeeps, MoveKeeps DEF HandlesNext
<1>2. HandlesInv => HandlesOwned
  BY DEF HandlesInv
<1> QED
  BY <1>1, <1>2, HandlesInvInit, PTL DEF HandlesSpec
=============================================================================

----------------------------- MODULE Conversions -----------------------------
(***************************************************************************)
(* What the program converts on its way to libdatachannel and back, as     *)
(* functions of the data: log levels (__init__.py), the options of a data  *)
(* channel (peer_connection.py, bindings.cpp) and the credentials of an    *)
(* ICE server (config.py).  There is no state here; the properties are     *)
(* checked over bounded inputs.                                            *)
(***************************************************************************)
EXTENDS Integers, SequencesExt

CONSTANTS
    StreamRange,        \* 2^16 in the code: what a stream identifier is cut to
    MaxLimit,           \* the largest lifetime or number of retransmissions asked for
    UrlLength           \* the longest URL, counted in tokens

ASSUME RangeAssumption == StreamRange \in Nat \ {0}
ASSUME LimitAssumption == MaxLimit \in Nat
ASSUME UrlAssumption == UrlLength \in Nat

(* ---- Log levels ----------------------------------------------------------------- *)

\* Of the logging module, and of libdatachannel: the higher, the more it says.
CRITICAL == 50
PyLevels == 0..CRITICAL
LogLevel == [NONE |-> 0, FATAL |-> 1, ERROR |-> 2, WARNING |-> 3, INFO |-> 4, DEBUG |-> 5,
             VERBOSE |-> 6]

_RTC_TO_PY_LEVEL == <<CRITICAL, 40, 30, 20, 10, 10>>

\* Mutant: a level between two names is rounded the wrong way.
PyLevelFloor(py) ==
    IF py < 20 THEN LogLevel.DEBUG
    ELSE IF py < 30 THEN LogLevel.INFO
    ELSE IF py < 40 THEN LogLevel.WARNING
    ELSE IF py < CRITICAL THEN LogLevel.ERROR
    ELSE LogLevel.FATAL

_py_level_to_rtc(py) ==
    IF py <= 10 THEN LogLevel.DEBUG
    ELSE IF py <= 20 THEN LogLevel.INFO
    ELSE IF py <= 30 THEN LogLevel.WARNING
    ELSE IF py <= 40 THEN LogLevel.ERROR
    ELSE LogLevel.FATAL

\* The filter the logger's own level is turned into lets through exactly the lines the
\* logger would keep: none is lost, and none is formatted only to be dropped.  VERBOSE
\* lines are not asked for at all, and above CRITICAL the fatal ones still come.
FilterCovers ==
    \A py \in PyLevels : \A rtc \in LogLevel.FATAL .. LogLevel.DEBUG :
        rtc <= _py_level_to_rtc(py) <=> _RTC_TO_PY_LEVEL[rtc] >= py

(* ---- The options of a data channel ------------------------------------------------ *)

None == -1
OrZero(n) == IF n = None THEN 0 ELSE n      \* `n or 0`

\* One identifier more than there are.
DataChannelOptions ==
    [ordered : BOOLEAN, max_packet_lifetime_ms : {None} \cup 0..MaxLimit,
     max_retransmits : {None} \cup 0..MaxLimit, stream_id : {None} \cup 0..StreamRange]

\* Mutant: `bool(n)` for `n is not None`.
InitIfTrue(o) ==
    [unordered |-> ~o.ordered,
     unreliable |-> OrZero(o.max_packet_lifetime_ms) # 0 \/ OrZero(o.max_retransmits) # 0,
     maxPacketLifeTime |-> OrZero(o.max_packet_lifetime_ms),
     maxRetransmits |-> OrZero(o.max_retransmits),
     manualStream |-> OrZero(o.stream_id) # 0,
     stream |-> OrZero(o.stream_id) % StreamRange]

rtcDataChannelInit(o) ==
    [unordered |-> ~o.ordered,
     unreliable |-> o.max_packet_lifetime_ms # None \/ o.max_retransmits # None,
     maxPacketLifeTime |-> OrZero(o.max_packet_lifetime_ms),
     maxRetransmits |-> OrZero(o.max_retransmits),
     manualStream |-> o.stream_id # None,
     stream |-> OrZero(o.stream_id) % StreamRange]

\* What libdatachannel makes of it: a lifetime counts if there is one.
Channel(init) ==
    [ordered |-> ~init.unordered,
     limit |-> CASE ~init.unreliable -> <<"none", 0>>
                 [] init.unreliable /\ init.maxPacketLifeTime > 0
                        -> <<"lifetime", init.maxPacketLifeTime>>
                 [] OTHER -> <<"retransmits", init.maxRetransmits>>,
     stream |-> IF init.manualStream THEN init.stream ELSE None]

\* Whether a channel with a limit sends a message once more that it has sent again so many
\* times, and that is so old.
MayResend(limit, times, age) ==
    CASE limit[1] = "none" -> TRUE
      [] limit[1] = "lifetime" -> age < limit[2]
      [] limit[1] = "retransmits" -> times < limit[2]

\* The channel does with a message what its options say, in order or not and on the stream
\* asked for.  A lifetime of 0 is handed on as no retransmission at all, which comes to the
\* same for every message: it is never sent again, while without a limit it always is.  Of
\* two limits one counts: a lifetime above 0, or else the retransmissions; the other is
\* dropped without a word.  So is a part of an identifier beyond the range (bindings.cpp).
OptionsKept ==
    \A o \in DataChannelOptions : \A times, age \in 0..MaxLimit :
        LET c == Channel(rtcDataChannelInit(o))
            lives == o.max_packet_lifetime_ms = None \/ age < o.max_packet_lifetime_ms
            tries == o.max_retransmits = None \/ times < o.max_retransmits
            both == o.max_packet_lifetime_ms # None /\ o.max_retransmits # None
        IN  /\ c.ordered = o.ordered
            /\ ~both => (MayResend(c.limit, times, age) <=> lives /\ tries)
            /\ both => (MayResend(c.limit, times, age) <=>
                           IF o.max_packet_lifetime_ms > 0 THEN lives ELSE tries)
            /\ o.stream_id < StreamRange => c.stream = o.stream_id

(* ---- The credentials of an ICE server ------------------------------------------------ *)

\* A URL is a sequence of delimiters and of what is between them; user and credential are
\* quoted and hold no delimiter.
Urls == UNION {[1..n -> {":", "/", "@", "text"}] : n \in 0..UrlLength}

\* What comes before the first d, and what comes after it.
Head1(url, d) == IF Contains(url, d) THEN SubSeq(url, 1, SelectInSeq(url, LAMBDA c : c = d) - 1)
                 ELSE url
Tail1(url, d) == SubSeq(url, Len(Head1(url, d)) + 2, Len(url))

Refused == <<>>

\* Mutant: credentials a URL has already are not looked for.
UrlUnchecked(url) ==
    LET remainder == Tail1(url, ":")
    IN  IF remainder = <<>> THEN Refused
        ELSE Head1(url, ":") \o <<":", "user", ":", "cred", "@">> \o remainder

\* IceServer.to_url, with a username or a credential.
to_url(url) ==
    LET remainder == Tail1(url, ":")
    IN  IF remainder = <<>> \/ Contains(Head1(remainder, "/"), "@") THEN Refused
        ELSE Head1(url, ":") \o <<":", "user", ":", "cred", "@">> \o remainder

\* What follows the scheme.  Of `scheme://host` it starts with two slashes.
Rest(url) == Tail1(url, ":")
Slashed(url) == Len(Rest(url)) >= 2 /\ Rest(url)[1] = "/" /\ Rest(url)[2] = "/"

\* `[user:pass@]host[:port]`, with the scheme of the URL it is from.
Fields(scheme, authority) ==
    LET login == Contains(authority, "@")
        user == IF login THEN Head1(authority, "@") ELSE <<>>
        place == IF login THEN Tail1(authority, "@") ELSE authority
    IN  [scheme |-> scheme, login |-> login,
         user |-> Head1(user, ":"), pass |-> Tail1(user, ":"),
         host |-> Head1(place, ":"), port |-> Tail1(place, ":")]

\* How libdatachannel reads a URL: with or without slashes after the scheme, and up to the
\* path.
Parsed(url) ==
    LET rest == IF Slashed(url) THEN SubSeq(Rest(url), 3, Len(Rest(url))) ELSE Rest(url)
    IN  Fields(Head1(url, ":"), Head1(rest, "/"))

\* What libdatachannel reads out of the URL that is handed on is what it would have read
\* out of the one given, with these credentials; one that has credentials is refused, and
\* so is one they have been put into already.  This leaves out `scheme://host`: there the
\* code looks for credentials before the first slash, finds none, and puts these before
\* the slashes, where they leave no host.
CredentialsOnce ==
    \A url \in Urls :
        LET given == Parsed(url)
            read == Parsed(to_url(url))
        IN  /\ ~Slashed(url) /\ given.login => to_url(url) = Refused
            /\ ~Slashed(url) /\ Rest(url) # <<>> /\ ~given.login =>
                  /\ read.login /\ read.user = <<"user">> /\ read.pass = <<"cred">>
                  /\ \A f \in {"scheme", "host", "port"} : read[f] = given[f]
            /\ to_url(url) # Refused => to_url(to_url(url)) = Refused
==============================================================================

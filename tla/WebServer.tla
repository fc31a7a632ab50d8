------------------------------ MODULE WebServer ------------------------------
(***************************************************************************)
(* plugins/webserver: the listener and one connection at a time.  The      *)
(* client asks for a name, escaping any of its characters; it may send and *)
(* read as slowly as it likes.  Time is counted in units of                *)
(* READ_TIMEOUT_MS since the connection was accepted.                      *)
(***************************************************************************)
EXTENDS Integers, Sequences

CONSTANTS
    Ports,        \* ports the user may configure
    Files,        \* entries of the plugin's folder, as sequences of characters
    Big,          \* those that are larger than FILE_MAX
    NameLength,   \* bound: length of the name asked for
    WriteTimeout, \* WRITE_TIMEOUT_MS
    Budget,       \* SERVE_BUDGET_MS
    MaxPieces     \* bound: writes a response part is taken in

VARIABLES
    loaded,    \* between plugin_init and plugin_deinit
    port,      \* NVS "port"
    bound,     \* bound_port, 0 when not listening
    listener,  \* the host's listener, 0 when there is none
    shown,     \* the port the info screen shows, 0 when not on screen
    conn,      \* the path the client asked for, or "cut", "bad" or "silent" when it
               \* sent no whole request line, and whether fs reads files; or NoConn
    parts,     \* pieces still to write of each part of the response
    elapsed,   \* time since the connection was accepted
    reply      \* the file that is sent, NotFound or BadRequest

vars == <<loaded, port, bound, listener, shown, conn, parts, elapsed, reply>>

NoConn  == [name |-> <<>>, readable |-> FALSE]
MaxReads == 4
Chars   == {"/", ".", "%", "2", "a"}
Escape  == [c \in Chars |-> CASE c = "/" -> <<"%", "2", "F">>
                              [] c = "." -> <<"%", "2", "E">>
                              [] c = "%" -> <<"%", "2", "5">>
                              [] c = "2" -> <<"%", "3", "2">>
                              [] c = "a" -> <<"%", "6", "1">>]
Unescape == [e \in {Escape[c] : c \in Chars} |-> CHOOSE c \in Chars : Escape[c] = e]

\* The target of a name: characters as they are or escaped, "%" always escaped.
Sent(name, esc, n) ==
    IF n \in esc \/ name[n] = "%" THEN Escape[name[n]] ELSE <<name[n]>>
Encoded(name, esc) ==
    LET target[n \in 0..Len(name)] ==
            IF n = 0 THEN <<"/">> ELSE target[n - 1] \o Sent(name, esc, n)
    IN  target[Len(name)]
Encodings(name) == {Encoded(name, esc) : esc \in SUBSET DOMAIN name}

Names == UNION {[1..n -> Chars] : n \in 0..NameLength}

\* What has arrived of a target when the client stops.
Cuts ==
    UNION {{SubSeq(sent, 1, n) : n \in 1..Len(sent)} :
               sent \in UNION {Encodings(name) : name \in Names}}

\* Mutation: an escape that ends the path is left as it is.
IsEscapeInside(s, i) == i + 2 < Len(s) /\ SubSeq(s, i, i + 2) \in DOMAIN Unescape

\* percent_decode: the loop jumps over an escape, the places inside are passed by.
IsEscape(s, i) == i + 2 <= Len(s) /\ SubSeq(s, i, i + 2) \in DOMAIN Unescape

\* What place n adds to what was read before it.
ReadOn(s, n, was) ==
    IF n # was.next THEN was
    ELSE IF IsEscape(s, n)
    THEN [out |-> Append(was.out, Unescape[SubSeq(s, n, n + 2)]), next |-> n + 3]
    ELSE [out |-> Append(was.out, s[n]), next |-> n + 1]

PercentDecode(s) ==
    LET read[n \in 0..Len(s)] ==
            IF n = 0 THEN [out |-> <<>>, next |-> 1] ELSE ReadOn(s, n, read[n - 1])
    IN  read[Len(s)].out

\* resolve_file: leading slashes off, then plain names only.
Trimmed(path) ==
    LET rest == {i \in 1..Len(path) : path[i] # "/"}
    IN  IF rest = {} THEN <<>>
        ELSE SubSeq(path, CHOOSE i \in rest : \A j \in rest : i <= j, Len(path))

Plain(name) ==
    /\ name \notin {<<".">>, <<".", ".">>}
    /\ \A i \in DOMAIN name : name[i] \in {".", "2", "a"}

INDEX == <<"index">>
NotFound == <<"404">>
BadRequest == <<"400 or 405">>

Resolve(path) ==
    LET name == Trimmed(path)
    IN  CASE name = <<>> -> INDEX
          [] name # <<>> /\ Plain(name) -> name
          [] OTHER -> <<>>

-----------------------------------------------------------------------------

Init ==
    /\ loaded = FALSE /\ port \in Ports /\ bound = 0 /\ listener = 0 /\ shown = 0
    /\ conn = NoConn /\ parts = <<>> /\ elapsed = 0 /\ reply = <<>>

still == <<conn, parts, elapsed, reply>>

\* plugin_init: start_server; the port may be in use.
Load ==
    /\ ~loaded /\ loaded' = TRUE
    /\ \/ bound' = port /\ listener' = port
       \/ UNCHANGED <<bound, listener>>
    /\ UNCHANGED <<port, shown, still>>

\* plugin_deinit.
Unload ==
    /\ loaded /\ conn = NoConn
    /\ loaded' = FALSE /\ bound' = 0 /\ listener' = 0 /\ shown' = 0
    /\ UNCHANGED <<port, still>>

\* The configured port changes while the listener runs.
Configure == \E p \in Ports : port' = p /\ UNCHANGED <<loaded, bound, listener, shown, still>>

\* Mutation: the configured port is shown.
EnterConfigured ==
    /\ loaded /\ conn = NoConn
    /\ shown' = port
    /\ UNCHANGED <<loaded, port, bound, listener, still>>

\* plugin_on_enter: the port the listener was bound to.
Enter ==
    /\ loaded /\ conn = NoConn
    /\ shown' = IF bound = 0 THEN port ELSE bound
    /\ UNCHANGED <<loaded, port, bound, listener, still>>

\* plugin_on_exit; the listener goes on.
Leave == shown # 0 /\ shown' = 0 /\ UNCHANGED <<loaded, port, bound, listener, still>>

\* The files that fs::size and fs::read give to serve.
Given(readable) == IF readable THEN Files \ Big ELSE {}

\* A connection is accepted, and its request line is read.
Connect == listener # 0 /\ conn = NoConn /\ UNCHANGED <<loaded, port, bound, listener, shown>>
Read(reads) == \E t \in 0..reads : elapsed' = t

\* serve: what a target is answered with; an error has three parts.
Answer(name, sent) ==
    LET f == Resolve(PercentDecode(sent))
    IN  \E readable \in BOOLEAN :
            /\ conn' = [name |-> name, readable |-> readable]
            /\ \/ /\ f \in Given(readable) /\ reply' = f
                  /\ parts' \in {<<1, n>> : n \in 1..MaxPieces}
               \/ /\ f \notin Given(readable) /\ reply' = NotFound
                  /\ parts' = <<1, 1, 1>>

\* The request line arrives whole.
Accept ==
    /\ Connect
    /\ \E name \in Names : \E sent \in Encodings(name) : Answer(<<"/">> \o name, sent)
    /\ Read(MaxReads)

\* The client stops, or the reads are used up, in the middle of the target: what
\* arrived is taken for all of it.
AcceptCut == Connect /\ (\E got \in Cuts : Answer(<<"cut">>, got)) /\ Read(MaxReads)

\* Not a GET request line (400), or another method (405).
AcceptBad ==
    /\ Connect /\ Read(MaxReads) /\ conn' = [name |-> <<"bad">>, readable |-> FALSE]
    /\ reply' = BadRequest /\ parts' = <<1, 1, 1>>

\* Nothing arrives in the first read: no answer.
AcceptSilent ==
    /\ Connect /\ Read(1) /\ conn' = [name |-> <<"silent">>, readable |-> FALSE]
    /\ reply' = <<>> /\ parts' = <<>>

\* Mutation: the last part is written whatever it takes.
MayWriteOn == elapsed < Budget \/ Len(parts) = 1

\* write_all: the deadline is looked at before every write.
MayWrite == elapsed < Budget

\* One write of a piece, taking up to its timeout.
Write ==
    /\ parts # <<>> /\ Head(parts) > 0 /\ MayWrite
    /\ \E t \in 0..WriteTimeout : elapsed' = elapsed + t
    /\ parts' = [parts EXCEPT ![1] = @ - 1]
    /\ UNCHANGED <<loaded, port, bound, listener, shown, conn, reply>>

\* A part is written, or given up: at the deadline or by a write that failed.
NextPart ==
    /\ parts # <<>>
    /\ parts' = Tail(parts)
    /\ UNCHANGED <<loaded, port, bound, listener, shown, conn, elapsed, reply>>

\* The stream is dropped and closed.
Close ==
    /\ conn # NoConn /\ parts = <<>>
    /\ conn' = NoConn /\ elapsed' = 0 /\ reply' = <<>>
    /\ UNCHANGED <<loaded, port, bound, listener, shown, parts>>

Next ==
    \/ Load \/ Unload \/ Configure \/ Enter \/ Leave
    \/ Accept \/ AcceptCut \/ AcceptBad \/ AcceptSilent
    \/ Write \/ NextPart \/ Close

Spec == Init /\ [][Next]_vars

-----------------------------------------------------------------------------
(* Properties.                                                             *)

\* One connection holds the plugin's call lock for less than the budget and
\* one write timeout, however slow its client is (serve, write_all).
HeldBriefly == elapsed < Budget + WriteTimeout

\* A client whose request line arrives gets the folder's file of the name it
\* asked for, whatever it escaped, or a 404 when there is none, it is larger than
\* FILE_MAX or fs does not read it; and nobody, whatever he sends and wherever he
\* stops, gets anything else than such a file of a plain name: percent_decode runs
\* once, before resolve_file looks at the characters.
SendsWhatWasAsked ==
    LET asked == IF Trimmed(conn.name) = <<>> THEN INDEX ELSE Trimmed(conn.name)
        found == Given(conn.readable)
    IN  /\ conn.name # <<>> /\ Head(conn.name) = "/" =>
               reply = IF asked \in found \ {<<".">>, <<".", ".">>} THEN asked ELSE NotFound
        /\ reply \in found \cup {<<>>, NotFound, BadRequest}
        /\ reply \in found => reply = INDEX \/ Plain(reply)

\* The plugin knows what it listens on, and while it listens the port on screen
\* is the one clients reach, also when the configured port changed since the
\* listener was started (bound_port).  After a bind that failed nobody listens
\* and the screen shows the port that was configured when it was entered.
ShowsBoundPort ==
    /\ bound = listener
    /\ shown # 0 /\ listener # 0 => shown = listener

\* A client reaches the server where the screen of a running listener says, gets
\* what it asked for and gives the plugin back in time.
ServesAsAsked == HeldBriefly /\ SendsWhatWasAsked /\ ShowsBoundPort
=============================================================================

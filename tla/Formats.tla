------------------------------ MODULE Formats ------------------------------
(***************************************************************************)
(* What is read and written as bytes or text, grown symbol by symbol, and  *)
(* read at every length: a message cut anywhere, whole, or with more       *)
(* behind it.                                                              *)
(***************************************************************************)
EXTENDS ServiceStream, TextFormats

CONSTANTS Alphabet,  \* per kind of text, its symbols
          Longest    \* per kind of text, the most symbols that are tried

\* No channel is read here: cl holds the kind of the text and the text.
FmInit ==
    /\ svc = "format" /\ script = <<>> /\ at = 0 /\ ending = "none" /\ slot = "none"
    /\ buf = <<>> /\ head = 0 /\ tail = 0
    /\ cl \in {[pc |-> "idle", kind |-> k, text |-> <<>>]: k \in DOMAIN Alphabet}

\* One more symbol arrives.
FmArrive ==
    /\ svc = "format" /\ Len(cl.text) < Longest[cl.kind]
    /\ \E c \in Alphabet[cl.kind]: cl' = [cl EXCEPT !.text = Append(@, c)]
    /\ UNCHANGED <<svc, script, at, ending, buf, head, tail, slot>>

text == cl.text
Reads(kind) == svc = "format" /\ cl.kind = kind
Upto(b, n) == SubSeq(b, 1, n)

------------------------------------------------------------------------------
(* What the decoders promise *)

\* A field of a tracker entry as the device encodes it.
Encode(f) ==
    LET varint(v) == IF v < 128 THEN <<v>> ELSE <<128 + (v % 128), v \div 128>>
        tag == varint(8 * f.field + f.wire)
    IN CASE f.wire = 0 -> tag \o varint(f.val)
         [] f.wire = 2 -> tag \o varint(Len(f.val)) \o f.val
         [] OTHER -> tag \o f.val
Encoded(fs) == FlattenSeq([i \in DOMAIN fs |-> Encode(fs[i])])

\* A tracker message cut at the end of a field reads as the fields before
\* the cut, the last value of each counting; cut anywhere else it is refused
\* rather than read as something shorter (decode_process_entry, skip_field,
\* decode_repeated_field1).
EntryExact ==
    Reads("proto") =>
        LET b == Encoded(text)
            ends == {Len(Encoded(Upto(text, i))): i \in 0..Len(text)}
            after(n) == Max({i \in 0..Len(text): Len(Encoded(Upto(text, i))) <= n})
            listed(d) == decode_app_processes(<<10, Len(d)>> \o d)
        IN \A n \in 0..Len(b):
             LET r == decode_process_entry(Upto(b, n))
             IN IF n \in ends THEN /\ r = ProcessEntry(Upto(text, after(n)))
                                   /\ listed(Upto(b, n)) = [entries |-> <<r>>]
                ELSE IsBad(r) /\ IsBad(listed(Upto(b, n)))

\* A log entry is cut from the stream only when all of it is there, what
\* follows it changes nothing, and its parts put together again are its
\* payload, no byte of it lost but the terminators (parse_entry).
LogExact ==
    Reads("log") =>
        LET r == parse_entry(text)
            early(n) == parse_entry(Upto(text, n))
            payload == SubSeq(text, text[2] + 1, r.total)
            front == <<r.priority>> \o r.tag
        IN /\ \A n \in 0..Len(text): "none" \in DOMAIN early(n) \/ early(n) = r
           /\ "total" \in DOMAIN r =>
                /\ r.total <= Len(text) /\ r.total = text[1] + text[2]
                /\ IF text[3] \in {2, 5, 6} \/ text[3] > 7 \/ payload = <<>> THEN r.message = payload
                   ELSE /\ ~Has(r.tag, 0)
                        /\ \/ payload \in {front, front \o <<0>>} /\ r.message = <<>>
                           \/ payload \in {front \o <<0>> \o r.message, front \o <<0>> \o r.message \o <<0>>}

\* A reply of the reverse service counts as a success only when all of it
\* is there: the data that follows OKAY is as long as the length in front
\* says, so a reply cut short is never taken for shorter data
\* (parse_status, hex4_block).
ReplyExact ==
    Reads("reply") =>
        LET r == parse_status(text)
            data == From(text, 3)
            whole == Len(text) >= 2 /\ text[2] \in DOMAIN HexWords /\ HexWords[text[2]] = Width(data)
            raw == list_raw(Tail(text))
        IN /\ "body" \in DOMAIN r <=> text # <<>> /\ text[1] = "OKAY" /\ (text = <<"OKAY">> \/ whole)
           /\ "body" \in DOMAIN r /\ Len(text) > 1 => r.body = data /\ raw = r
           /\ "failed" \in DOMAIN r <=> text # <<>> /\ text[1] = "FAIL"

\* The rules of a listing, written out again, are the listing, whether or
\* not its last line is ended (parse_listing).
ListingExact ==
    Reads("listing") =>
        LET r == parse_listing(text)
            line(u) == u.serial \o <<" ">> \o u.remote \o <<" ">> \o u.local
            out == FlattenSeq([i \in DOMAIN r.rules |-> line(r.rules[i]) \o <<"\n">>])
        IN ~IsBad(r) => /\ out \in {text, Append(text, "\n")}
                        /\ \A i \in DOMAIN r.rules: ~Has(r.rules[i].serial \o r.rules[i].remote, " ")

\* The port read is the port meant, printed as a signed or as an unsigned
\* number of the device's width, and nothing else is a port (parse_port).
PortExact ==
    Reads("port") /\ text # <<>> =>
        LET r == parse_port(text)
            minus == text[1] = "-"
            digits == IF minus THEN Tail(text) ELSE text
            meant == IF minus THEN -Number(digits) ELSE Number(digits)
            good == digits # <<>> /\ ~Has(digits, "-")
        IN IF good /\ meant \in -(PortMod \div 2)..(PortMod - 1)
           THEN r.port \in 0..(PortMod - 1) /\ (r.port - meant) % PortMod = 0
           ELSE IsBad(r)

\* What a device writes is read as what it meant at every length at which
\* it can be cut, and otherwise refused or waited for.
DecodersExact == EntryExact /\ LogExact /\ ReplyExact /\ ListingExact /\ PortExact

------------------------------------------------------------------------------
(* What the texts promise *)

\* A URI is taken exactly when it has one of the documented forms, each
\* number in it one that Rust reads, and the parts read from it are the parts
\* it is written from: a host, a bracketed one or a serial is never cut at a
\* colon, bracket or slash of its own, and none is empty (uri::parse).  A
\* number Rust reads may have a sign, which no documented form has: that is
\* UsbIdsAreHex.
UriExact ==
    /\ Reads("tcp") =>
        LET r == parse(<<"tcp", "://">> \o text)
            n == Len(text)
            hosted(h) == h # <<>> /\ ~Has(h, ":") /\ h[1] # "["
            ends == n >= 2 /\ text[n - 1] = ":" /\ text[n] \in DOMAIN Ports
            bare == ends /\ hosted(Upto(text, n - 2))
            v6 == /\ ends /\ n >= 5 /\ text[1] = "[" /\ text[n - 2] = "]"
                  /\ ~Has(SubSeq(text, 2, n - 3), "]")
        IN IF bare \/ v6
           THEN /\ r.port = Ports[text[n]]
                /\ r.host = IF v6 THEN SubSeq(text, 2, n - 3) ELSE Upto(text, n - 2)
           ELSE IsBad(r)
    /\ Reads("usb") =>
        LET r == parse(<<"usb", "://">> \o text)
        IN IF text = <<>> THEN r = [usb |-> "Any"]
           ELSE IF text[1] = "serial/" /\ Len(text) > 1 THEN r = [serial |-> Tail(text)]
           ELSE IF Len(text) = 3 /\ text[2] = ":" /\ {text[1], text[3]} \subseteq HexIds
           THEN r = [vid |-> text[1], pid |-> text[3]]
           ELSE IsBad(r)

\* What the documentation of the parser says of usb://VID:PID: "VID and PID
\* as 4 hex digits each" (uri.rs).
UsbIdsAreHex ==
    Reads("usb") =>
        LET r == parse(<<"usb", "://">> \o text)
        IN "vid" \in DOMAIN r => {r.vid, r.pid} \subseteq FourHexDigits

\* The features a connection is negotiated by, looked for in the raw banner,
\* are those its parsed banner lists, whenever the banner lists features
\* once: delayed_ack is on exactly when both sides offered it
\* (has_feature, DeviceBanner::parse_inner, Negotiated::new).
BannerExact ==
    Reads("banner") =>
        LET b == <<"device", ":", ":">> \o text
            d == parse_inner(b)
            marks == {i \in 1..(Len(b) - 1): b[i] = "features" /\ b[i + 1] = "="}
            once == Cardinality(marks) = 1 /\ \A i \in marks: b[i - 1] \in {":", ";"}
            cnxn == [data |-> b, arg0 |-> 2, arg1 |-> 3]
            both(h) == new(to_bytes(h), cnxn, 4, 1)
        IN ~IsBad(d) /\ once =>
             /\ \A f \in Known: has_feature(b, f) <=> f \in d.features
             /\ both(<<"shell_v2", "delayed_ack">>).delayed_ack
                  <=> require_feature(both(<<"shell_v2">>), "delayed_ack")
             /\ ~both(<<"shell_v2">>).delayed_ack
             /\ LET k == property(d, <<"k">>)
                IN "value" \in DOMAIN k => ~Has(k.value, ";")

\* How a POSIX shell splits a line into words; "bad" when it is more than
\* one simple command or a quote is left open.
ShellStep(s, c) ==
    CASE s.mode = "quoted" /\ c # "'" -> [s EXCEPT !.cur = Append(@, c)]
      [] s.mode = "quoted" /\ c = "'" -> [s EXCEPT !.mode = "plain"]
      [] s.mode = "escaped" -> [s EXCEPT !.cur = Append(@, c), !.mode = "plain"]
      [] s.mode = "plain" /\ c = "'" -> [s EXCEPT !.mode = "quoted", !.word = TRUE]
      [] s.mode = "plain" /\ c = "\\" -> [s EXCEPT !.mode = "escaped", !.word = TRUE]
      [] s.mode = "plain" /\ c = " " ->
           [s EXCEPT !.words = IF s.word THEN Append(@, s.cur) ELSE @, !.cur = <<>>, !.word = FALSE]
      [] s.mode = "plain" /\ c = ";" -> [s EXCEPT !.bad = TRUE]
      [] OTHER -> [s EXCEPT !.cur = Append(@, c), !.word = TRUE]
ShellWords(line) ==
    LET s == FoldLeft(ShellStep, [words |-> <<>>, cur |-> <<>>, word |-> FALSE, mode |-> "plain", bad |-> FALSE],
                      Append(line, " "))
    IN IF s.bad \/ s.mode # "plain" \/ s.word THEN Bad("bad") ELSE [words |-> s.words]

\* The arguments a text stands for: its "," ends one and begins the next.
Args == Split(text, ",")

\* The argv a caller passes is the argv the device's program gets, through
\* a shell's quoting or through abb's NULs, whatever characters are in it,
\* and the two ways of `cmd` agree; what cannot be carried is refused
\* (write_destination, build_nul_destination, Cmd::exec).
ArgvExact ==
    Reads("dest") =>
        LET sh == exec(Args, FALSE, 99)
            ab == exec(Args, TRUE, 99)
            short == exec(Args, FALSE, 9)
            nul == \E i \in DOMAIN Args: Has(Args[i], "NUL")
        IN IF nul THEN IsBad(sh) /\ IsBad(ab)
           ELSE /\ ShellWords(Front(sh.dest)) = [words |-> <<<<"cmd">>>> \o Args]
                /\ Last(sh.dest) = "NUL"
                /\ IF ab.way = "abb" THEN Split(Front(Tail(ab.dest)), "NUL") = Args ELSE ab = sh
                /\ IsBad(short) \/ short = sh

\* Texts mean the same on both sides: URIs, banners and argument lists.
TextsExact == UriExact /\ BannerExact /\ ArgvExact

------------------------------------------------------------------------------
(* What the limits promise *)

\* Whatever limits a program asks for, and in whatever order, a device that
\* keeps to its credit, or to one packet after each OKAY, cannot overrun a
\* channel's buffer: a full packet still fits on the last byte of credit
\* and one byte under the watermark.  There is always room for a channel,
\* and a preset is only what its setters make of it (ConnectionConfig).
ConfigExact ==
    Reads("config") =>
        \A preset \in {desktop, embedded}:
          LET c == FoldLeft(With, preset, text)
              apart == \A i, j \in DOMAIN text: i # j => text[i].set # text[j].set
              cap == Limits(c)!rx_cap
              credit == Limits(c)!advertised_ack_bytes
              mark == Limits(c)!rx_watermark
          IN /\ c.max_payload \in MIN_MAX_PAYLOAD..MAX_PAYLOAD /\ c.max_channels \in 1..MAX_CHANNELS
             /\ credit <= c.initial_ack_bytes /\ credit <= cap - c.max_payload + 1
             /\ 1 <= mark /\ mark - 1 <= cap - c.max_payload
             /\ apart => FoldLeft(With, preset, Reverse(text)) = c
             /\ c.initial_ack_bytes > 0 => credit > 0
=============================================================================

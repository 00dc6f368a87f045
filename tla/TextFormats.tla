---------------------------- MODULE TextFormats ----------------------------
(***************************************************************************)
(* The texts libadb reads and writes: transport URIs, the banners both     *)
(* sides connect with, and the destination a service is opened by; and the *)
(* limits a ConnectionConfig is built with (libadb/src/transport/uri.rs,   *)
(* base/device_banner.rs, base/negotiated.rs, base/destination.rs, abb.rs, *)
(* cmd.rs, base/connection/config.rs).  A text is a sequence of symbols,   *)
(* each a character or a word that is only ever read whole; the limits are *)
(* the code's.                                                             *)
(***************************************************************************)
EXTENDS WireFormats

CONSTANTS MaxProperties  \* max_banner_properties

Has(s, c) == \E i \in DOMAIN s: s[i] = c
Pos(s, c) == {i \in DOMAIN s: s[i] = c}
\* split_once and rsplit_once at a symbol the text has.
LeftOf(s, c) == SubSeq(s, 1, Min(Pos(s, c)) - 1)
RightOf(s, c) == From(s, Min(Pos(s, c)) + 1)
LeftOfLast(s, c) == SubSeq(s, 1, Max(Pos(s, c)) - 1)
RightOfLast(s, c) == From(s, Max(Pos(s, c)) + 1)

------------------------------------------------------------------------------
(* uri.rs.  Rust's integers take a '+' in front: "+d6b" is four characters *)
(* and a hexadecimal number.                                               *)

Ports == [p \in {"5555", "+1"} |-> IF p = "5555" THEN 5555 ELSE 1]
FourHexDigits == {"1d6b"}
HexIds == FourHexDigits \cup {"+d6b"}

\* A bracketed host ends at its bracket; another has no colon of its own.
parse_tcp(rest) ==
    LET bracketed == rest # <<>> /\ Head(rest) = "["
        inner == Tail(rest)
        host == IF bracketed THEN LeftOf(inner, "]") ELSE LeftOfLast(rest, ":")
        after == IF bracketed THEN RightOf(inner, "]") ELSE <<":">> \o RightOfLast(rest, ":")
    IN IF rest = <<>> THEN Bad("InvalidHost")
       ELSE IF bracketed /\ ~Has(inner, "]") THEN Bad("InvalidHost")
       ELSE IF ~bracketed /\ ~Has(rest, ":") THEN Bad("InvalidPort")
       ELSE IF host = <<>> THEN Bad("InvalidHost")
       ELSE IF ~bracketed /\ Has(host, ":") THEN Bad("InvalidHost")
       ELSE IF Len(after) # 2 \/ after[1] # ":" THEN Bad("InvalidPort")
       ELSE IF after[2] \notin DOMAIN Ports THEN Bad("InvalidPort")
       ELSE [host |-> host, port |-> Ports[after[2]]]
parse_usb(rest) ==
    IF rest = <<>> THEN [usb |-> "Any"]
    ELSE IF Head(rest) = "serial/"
    THEN IF Tail(rest) = <<>> THEN Bad("InvalidUsbSelector") ELSE [serial |-> Tail(rest)]
    ELSE IF ~Has(rest, ":") THEN Bad("InvalidUsbSelector")
    ELSE IF Len(LeftOf(rest, ":")) # 1 \/ Len(RightOf(rest, ":")) # 1 THEN Bad("InvalidUsbSelector")
    ELSE IF {rest[1], rest[3]} \subseteq HexIds THEN [vid |-> rest[1], pid |-> rest[3]]
    ELSE Bad("InvalidUsbSelector")
parse(s) ==
    IF ~Has(s, "://") THEN Bad("MissingScheme")
    ELSE CASE LeftOf(s, "://") = <<"tcp">> -> parse_tcp(RightOf(s, "://"))
           [] LeftOf(s, "://") = <<"usb">> -> parse_usb(RightOf(s, "://"))
           [] OTHER -> Bad("UnknownScheme")

------------------------------------------------------------------------------
(* Banners: device_banner.rs reads the device's into properties and known  *)
(* features; features.rs looks for one feature in the raw bytes.           *)

Known == {"delayed_ack", "shell_v2"}
Part(p) == [key |-> LeftOf(p, "="), value |-> RightOf(p, "=")]
parse_inner(b) ==
    LET rest == RightOf(b, ":")
        parts == SelectSeq(Split(RightOf(rest, ":"), ";"), LAMBDA p: p # <<>>)
        kv == [i \in DOMAIN parts |-> Part(parts[i])]
        props == SelectSeq(kv, LAMBDA e: e.key # <<"features">>)
        lists == SelectSeq(kv, LAMBDA e: e.key = <<"features">>)
    IN IF ~Has(b, ":") THEN Bad("InvalidBannerPrefix")
       ELSE IF ~Has(rest, ":") THEN Bad("InvalidBannerPrefix")
       ELSE IF \E i \in DOMAIN parts: ~Has(parts[i], "=") THEN Bad("InvalidBannerKeyValue")
       ELSE IF Len(props) > MaxProperties THEN Bad("TooManyBannerProperties")
       ELSE [state |-> LeftOf(b, ":"), serial |-> LeftOf(rest, ":"), properties |-> props,
             features |-> {f \in Known: \E i \in DOMAIN lists: \E v \in Range(Split(lists[i].value, ",")): v = <<f>>}]

\* features::has_feature: the first list there is, up to any , or ;
has_feature(b, f) ==
    LET at == {i \in 1..(Len(b) - 1): b[i] = "features" /\ b[i + 1] = "="}
        commas == [i \in DOMAIN b |-> IF b[i] = ";" THEN "," ELSE b[i]]
    IN at # {} /\ \E part \in Range(Split(From(commas, Min(at) + 2), ",")): part = <<f>>

\* HostBanner::to_bytes.
to_bytes(features) == <<"host", ":", ":", "features", "=">> \o
    FlattenSeq([i \in DOMAIN features |-> IF i = 1 THEN <<features[i]>> ELSE <<",", features[i]>>])

\* Negotiated::new, from the host's banner and the device's CNXN.
new(host, cnxn, MAX_PAYLOAD, ADB_VERSION) ==
    LET d == parse_inner(cnxn.data)
    IN IF IsBad(d) THEN d
       ELSE [delayed_ack |-> has_feature(host, "delayed_ack") /\ has_feature(cnxn.data, "delayed_ack"),
             max_payload |-> Min({cnxn.arg1, MAX_PAYLOAD}), banner |-> d,
             protocol_version |-> Min({cnxn.arg0, ADB_VERSION})]
require_feature(n, f) == f \in n.banner.features
\* DeviceBanner::property: the first of that name.
property(d, key) == LET s == SelectSeq(d.properties, LAMBDA e: e.key = key)
                    IN IF s = <<>> THEN [none |-> TRUE] ELSE [value |-> Head(s).value]

------------------------------------------------------------------------------
(* Destinations: destination.rs.                                           *)

\* Faulty form: a quote inside the quotes is left as it is.
write_quoted_raw(arg) == IF arg # <<>> /\ \A i \in DOMAIN arg: arg[i] = "a" THEN arg
                         ELSE <<"'">> \o arg \o <<"'">>
is_shell_safe(c) == c = "a"
write_quoted(arg) ==
    IF arg # <<>> /\ \A i \in DOMAIN arg: is_shell_safe(arg[i]) THEN arg
    ELSE <<"'">> \o FlattenSeq([i \in DOMAIN arg |-> IF arg[i] = "'" THEN <<"'", "\\", "'", "'">>
                                                     ELSE <<arg[i]>>]) \o <<"'">>
\* write_bytes fails at the first piece the buffer has no room for, so the
\* call fails when the whole does not fit.
write_destination(cap, prefix, args) ==
    LET line == prefix \o FlattenSeq([i \in DOMAIN args |-> <<" ">> \o write_quoted(args[i])]) \o <<"NUL">>
    IN IF \E i \in DOMAIN args: Has(args[i], "NUL") THEN Bad("Nul")
       ELSE IF Len(line) > cap THEN Bad("TooLong")
       ELSE [dest |-> line]
build_nul_destination(service, args) ==
    LET dest == service \o FlattenSeq([i \in DOMAIN args |-> args[i] \o <<"NUL">>])
    IN IF \E i \in DOMAIN args: args[i] = <<>> \/ Has(args[i], "NUL") THEN Bad("InvalidDestination")
       ELSE [dest |-> IF Last(dest) # "NUL" THEN Append(dest, "NUL") ELSE dest]

\* cmd.rs: abb when the device has it, unless an argument is empty; abb
\* ends each argument with a NUL, so it cannot carry an empty one.
needs_shell(args) == \E i \in DOMAIN args: args[i] = <<>>
exec(args, abb, cap) ==
    IF abb /\ ~needs_shell(args)
    THEN [way |-> "abb"] @@ build_nul_destination(<<"abb_exec:">>, args)
    ELSE [way |-> "shell"] @@ write_destination(cap, <<"cmd">>, args)

------------------------------------------------------------------------------
(* config.rs.  Top stands for usize::MAX.                                  *)

Top == 2147483647
KiB == 1024
MIN_MAX_PAYLOAD == KiB
MAX_PAYLOAD == 1024 * KiB
MAX_CHANNELS == 65536

desktop == [max_payload |-> MAX_PAYLOAD, initial_ack_bytes |-> 32 * 1024 * KiB,
            max_rx_per_channel |-> Top, max_channels |-> 32, max_banner_properties |-> 64]
embedded == [desktop EXCEPT !.max_payload = 8 * KiB, !.initial_ack_bytes = 32 * KiB,
                            !.max_rx_per_channel = 64 * KiB]

with_max_payload(c, n) == [c EXCEPT !.max_payload = Max({MIN_MAX_PAYLOAD, Min({n, MAX_PAYLOAD})})]
with_initial_ack_bytes(c, n) == [c EXCEPT !.initial_ack_bytes = n]
with_max_rx_per_channel(c, n) == [c EXCEPT !.max_rx_per_channel = n]
with_max_channels(c, n) == [c EXCEPT !.max_channels = Max({1, Min({n, MAX_CHANNELS})})]
with_max_banner_properties(c, n) == [c EXCEPT !.max_banner_properties = n]

With(c, call) ==
    CASE call.set = "max_payload" -> with_max_payload(c, call.to)
      [] call.set = "initial_ack_bytes" -> with_initial_ack_bytes(c, call.to)
      [] call.set = "max_rx_per_channel" -> with_max_rx_per_channel(c, call.to)
      [] call.set = "max_channels" -> with_max_channels(c, call.to)
      [] OTHER -> with_max_banner_properties(c, call.to)

\* The limits a channel of such a connection lives under.
Limits(c) == INSTANCE ChannelSlot WITH AckModes <- {"Classic", "Delayed"}, MaxPayload <- c.max_payload,
                MaxRxPerChannel <- c.max_rx_per_channel, InitialAckBytes <- c.initial_ack_bytes
=============================================================================

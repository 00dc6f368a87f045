---------------------------- MODULE WireFormats ----------------------------
(***************************************************************************)
(* The decoders of what a device writes: the tracker's protobuf messages,  *)
(* logcat's entries and the replies of the reverse service (libadb/src/    *)
(* base/protobuf.rs, track_app.rs, logcat/format.rs, reverse.rs).  A       *)
(* message is fed in whole, cut anywhere, or with more behind it.          *)
(*                                                                         *)
(* Widths are constants: what is 64 bits, or 4 and 8 bytes, in the code.   *)
(***************************************************************************)
EXTENDS Integers, Sequences, SequencesExt, FiniteSetsExt

CONSTANTS
    Bits,        \* width of a varint's value: 64
    Fixed32, Fixed64,  \* bytes of the fixed protobuf fields: 4 and 8
    LogV3, LogV4,      \* words of a logger_entry header, first two included: 24 and 28 bytes
    LogMax,      \* LOGGER_ENTRY_MAX_LEN
    PortMod      \* 2^32, the reach of the port in a reverse reply

ASSUME WidthAssumption == /\ {Bits, Fixed32, Fixed64, LogV3, LogV4, LogMax, PortMod} \subseteq Nat \ {0}
                          /\ 2 < LogV3 /\ LogV3 < LogV4 /\ LogV4 < LogMax /\ PortMod % 2 = 0

From(b, i) == SubSeq(b, i, Len(b))
Bad(e) == [err |-> e]
IsBad(r) == "err" \in DOMAIN r
Then(r, next(_)) == IF IsBad(r) THEN r ELSE next(r)  \* the ? of Rust
Split(b, sep) ==  \* the parts between the separators
    FoldLeft(LAMBDA parts, c: IF c = sep THEN Append(parts, <<>>)
                              ELSE [parts EXCEPT ![Len(parts)] = Append(@, c)], <<<<>>>>, b)

------------------------------------------------------------------------------
(* protobuf.rs.  A decoded thing comes with the bytes it took.             *)

\* The width is tested before a byte is used, so its high bits may be lost
\* in the last byte that still counts.
decode_varint(b) ==
    LET last == {i \in DOMAIN b: b[i] < 128}
        n == Min(last)
    IN IF last = {} THEN Bad("InvalidProtobuf")
       ELSE IF 7 * (n - 1) >= Bits THEN Bad("InvalidProtobuf")
       ELSE [val |-> MapThenSumSet(LAMBDA i: (b[i] % 128) * 2^(7 * (i - 1)), 1..n) % 2^Bits, len |-> n]

read_bytes(b) ==
    Then(decode_varint(b), LAMBDA l: IF l.len + l.val > Len(b) THEN Bad("InvalidProtobuf")
                                     ELSE [val |-> SubSeq(b, l.len + 1, l.len + l.val), len |-> l.len + l.val])
\* The bytes fed in hold no lead byte of a longer UTF-8 sequence.
read_string(b) ==
    Then(read_bytes(b), LAMBDA s: IF \E i \in DOMAIN s.val: s.val[i] >= 128 THEN Bad("InvalidUtf8") ELSE s)

skip_field(b, wire) ==
    CASE wire = 0 -> decode_varint(b)
      [] wire = 1 /\ Len(b) >= Fixed64 -> [val |-> 0, len |-> Fixed64]
      [] wire = 2 -> read_bytes(b)
      [] wire = 5 /\ Len(b) >= Fixed32 -> [val |-> 0, len |-> Fixed32]
      [] OTHER -> Bad("InvalidProtobuf")

read_tag(b) == Then(decode_varint(b), LAMBDA t:
                 [field |-> t.val \div 8, wire |-> t.val % 8, len |-> t.len])

\* The loop both decoders run: a tag, then its field, until the bytes are
\* used up.  `reads(field, wire, rest)` decodes one field.
Fields(b, reads(_, _, _)) ==
    LET field(tag, f) == [field |-> tag.field, wire |-> tag.wire, val |-> f.val]
        go[pos \in 1..(Len(b) + 1)] ==
          IF pos > Len(b) THEN [got |-> <<>>]
          ELSE Then(read_tag(From(b, pos)), LAMBDA tag:
                 Then(reads(tag.field, tag.wire, From(b, pos + tag.len)), LAMBDA f:
                   Then(go[pos + tag.len + f.len], LAMBDA rest: [got |-> <<field(tag, f)>> \o rest.got])))
    IN go[1]

Signed(v) == IF v >= 2^(Bits - 1) THEN v - 2^Bits ELSE v
VarintFields == {1, 2, 3, 5, 8, 9}
StringFields == {4, 6, 7}

EntryField(field, wire, b) ==
    CASE field \in VarintFields /\ wire = 0 -> decode_varint(b)
      [] field \in StringFields /\ wire = 2 -> read_string(b)
      [] OTHER -> skip_field(b, wire)

\* A later value of a field replaces an earlier one; package names add up.
ProcessEntry(got) ==
    LET of(f, w) == SelectSeq(got, LAMBDA g: g.field = f /\ g.wire = w)
        latest(f, w, none) == LET s == of(f, w) IN IF s = <<>> THEN none ELSE Last(s).val
    IN [pid |-> Signed(latest(1, 0, 0)), debuggable |-> latest(2, 0, 0) # 0,
        profileable |-> latest(3, 0, 0) # 0, architecture |-> latest(4, 2, <<>>),
        user_id |-> IF of(5, 0) = <<>> THEN <<>> ELSE <<Signed(Last(of(5, 0)).val)>>,
        process_name |-> IF of(6, 2) = <<>> THEN <<>> ELSE <<Last(of(6, 2)).val>>,
        package_names |-> [i \in DOMAIN of(7, 2) |-> of(7, 2)[i].val],
        waiting_for_debugger |-> IF of(8, 0) = <<>> THEN <<>> ELSE <<Last(of(8, 0)).val # 0>>,
        uid |-> IF of(9, 0) = <<>> THEN <<>> ELSE <<Signed(Last(of(9, 0)).val)>>]
decode_process_entry(b) == Then(Fields(b, EntryField), LAMBDA r: ProcessEntry(r.got))

\* decode_repeated_field1: field 1 is an entry, what else there is is skipped.
ListField(field, wire, b) ==
    IF field = 1 /\ wire = 2
    THEN Then(read_bytes(b), LAMBDA data:
           Then(decode_process_entry(data.val), LAMBDA e: [val |-> e, len |-> data.len]))
    ELSE skip_field(b, wire)
decode_app_processes(b) ==
    LET entries(got) == SelectSeq(got, LAMBDA g: g.field = 1 /\ g.wire = 2)
        vals(gs) == [i \in DOMAIN gs |-> gs[i].val]
    IN Then(Fields(b, ListField), LAMBDA r: [entries |-> vals(entries(r.got))])

------------------------------------------------------------------------------
(* logcat/format.rs.  A word stands for each field of the header and for   *)
(* each byte of the payload: length, header size, log id, uid.             *)

\* log_ids!: main, radio, system, crash and kernel are text; events, stats,
\* security and a buffer without a name are not.
LogIds == <<"text", "text", "binary", "text", "text", "binary", "binary", "text">>
is_text(lid) == lid < Len(LogIds) /\ LogIds[lid + 1] = "text"

parse_entry(b) ==
    IF Len(b) < 2 THEN [none |-> TRUE]
    ELSE LET total == b[1] + b[2]
             payload == SubSeq(b, b[2] + 1, total)
             rest == Tail(payload)
             nul == {i \in DOMAIN rest: rest[i] = 0}
             tag_end == IF nul = {} THEN Len(rest) ELSE Min(nul) - 1
             msg == From(rest, Min({tag_end + 1, Len(rest)}) + 1)
             header == [total |-> total, lid |-> b[3], uid |-> IF b[2] >= LogV4 THEN b[4] ELSE 0]
         IN IF b[2] < LogV3 \/ total > LogMax THEN Bad("InvalidHeader")
            ELSE IF Len(b) < total THEN [none |-> TRUE]
            ELSE header @@
                 (IF payload = <<>> THEN [priority |-> 0, tag |-> <<>>, message |-> <<>>]
                  ELSE IF ~is_text(b[3]) THEN [priority |-> 0, tag |-> <<>>, message |-> payload]
                  ELSE [priority |-> payload[1], tag |-> SubSeq(rest, 1, tag_end),
                        message |-> IF msg # <<>> /\ Last(msg) = 0 THEN Front(msg) ELSE msg])

------------------------------------------------------------------------------
(* reverse.rs.  A word of four bytes ("OKAY", "FAIL", a hex length) is one *)
(* symbol, and so is any other byte.                                       *)

HexWords == [w \in {"0000", "0001", "0002"} |-> IF w = "0000" THEN 0 ELSE IF w = "0001" THEN 1 ELSE 2]
Words4 == DOMAIN HexWords \cup {"OKAY", "FAIL"}
Width(b) == MapThenSumSet(LAMBDA i: IF b[i] \in Words4 THEN 4 ELSE 1, DOMAIN b)

\* Some(body) when the length in front is exactly the body's.
hex4_block(b) ==
    IF b = <<>> THEN [none |-> TRUE]
    ELSE IF Head(b) \notin DOMAIN HexWords THEN [none |-> TRUE]
    ELSE IF Width(Tail(b)) # HexWords[Head(b)] THEN [none |-> TRUE]
    ELSE [body |-> Tail(b)]
fail_message(rest) ==
    LET h == hex4_block(rest) IN [failed |-> IF "none" \in DOMAIN h THEN rest ELSE h.body]
parse_status(r) ==
    IF r = <<>> THEN Bad("UnexpectedReply")
    ELSE CASE Head(r) = "OKAY" /\ Tail(r) = <<>> -> [body |-> <<>>]
           [] Head(r) = "OKAY" /\ Tail(r) # <<>> -> LET h == hex4_block(Tail(r))
                                  IN IF "none" \in DOMAIN h THEN Bad("UnexpectedReply") ELSE h
           [] Head(r) = "FAIL" -> fail_message(Tail(r))
           [] OTHER -> Bad("UnexpectedReply")
\* list_raw: the block comes without a status in front.
list_raw(r) ==
    LET h == hex4_block(r)
    IN IF r # <<>> /\ Head(r) = "FAIL" THEN fail_message(Tail(r))
       ELSE IF "none" \in DOMAIN h THEN Bad("UnexpectedReply") ELSE h

\* splitn(3): the third field keeps its spaces.
Rule(line) ==
    LET f == Split(line, " ")
    IN [serial |-> f[1], remote |-> f[2], local |-> From(line, Len(f[1]) + Len(f[2]) + 3)]
parse_listing(block) ==
    LET lines == Split(IF block # <<>> /\ Last(block) = "\n" THEN Front(block) ELSE block, "\n")
    IN IF block = <<>> THEN [rules |-> <<>>]
       ELSE IF \E i \in DOMAIN lines: Len(Split(lines[i], " ")) < 3 THEN Bad("UnexpectedReply")
       ELSE [rules |-> [i \in DOMAIN lines |-> Rule(lines[i])]]

\* The value a string of digits stands for, and the port: unsigned, or a
\* negative number that stands for the same bits.
Digits == [d \in {"0", "4", "5", "9"} |-> IF d = "0" THEN 0 ELSE IF d = "4" THEN 4 ELSE IF d = "5" THEN 5 ELSE 9]
Number(s) == MapThenSumSet(LAMBDA i: Digits[s[i]] * 10^(Len(s) - i), DOMAIN s)
parse_port(data) ==
    LET minus == data # <<>> /\ Head(data) = "-"
        digits == IF minus THEN Tail(data) ELSE data
    IN IF data = <<>> THEN [port |-> -1]
       ELSE IF \E i \in DOMAIN digits: digits[i] \notin DOMAIN Digits THEN Bad("UnexpectedReply")
       ELSE IF digits = <<>> THEN Bad("UnexpectedReply")
       ELSE IF minus /\ Number(digits) <= PortMod \div 2
       THEN [port |-> (PortMod - Number(digits)) % PortMod]
       ELSE IF ~minus /\ Number(digits) < PortMod THEN [port |-> Number(digits)]
       ELSE Bad("UnexpectedReply")
=============================================================================

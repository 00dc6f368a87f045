------------------------------ MODULE FfiArgs ------------------------------
(***************************************************************************)
(* What a C call checks and does, in its order, and what it has done when *)
(* it returns.  A call is a list of steps: Chk(what, status) returns       *)
(* `status` if `what` is wrong, Does(what) has an effect outside the call, *)
(* Undo(status) fails like a check, after an attempt to take back what the *)
(* call opened.                                                            *)
(***************************************************************************)
EXTENDS Naturals, Sequences

CONSTANT
    TlsBuild     \* is the `tls` feature compiled in?

VARIABLES
    arg,         \* the call: its steps, what it has done and how it returned
    synced       \* is the connection the call is made on still in step?
avars == <<arg, synced>>

Chk(what, status) == [kind |-> "chk", what |-> what, status |-> status]
Does(what) == [kind |-> "does", what |-> what, status |-> "Ok"]
Undo(what, status) == [kind |-> "undo", what |-> what, status |-> status]
Fill == [kind |-> "fill", what |-> "out", status |-> "Ok"]
NullArg == Chk("null", "InvalidArg")
Utf8 == Chk("utf8", "InvalidArg")

------------------------------------------------------------------------------
(* error.rs: what went wrong, as a status.                                 *)

fail_error(e) ==
    CASE e \in {"Io", "UnexpectedEof"} -> "Io"
      [] e = "TlsRequired" -> "TlsRequired"
      [] e \in {"Auth", "ChannelClosed", "NoFreeChannels", "Desynchronized", "Disconnected",
                "Protocol"} -> e
      [] e = "ReverseFailed" -> "Reverse"
      [] e = "ReverseReply" -> "Protocol"
      [] OTHER -> "Internal"
fail_pairing(e) == CASE e \in {"WrongCode", "Closed"} -> "Pairing"
                     [] e = "Transport" -> "Io"
                     [] e \in {"Frame", "Spake2", "PeerInfo"} -> "Protocol"
                     [] OTHER -> "Internal"
fail_ffi_connect(e) == IF e = "Uri" THEN "InvalidUri" ELSE "Connect"
Errs(E, fail(_)) == [i \in 1..Len(E) |-> Chk(E[i], fail(E[i]))]

\* How the calls on a connection fail once they wait on the device.
DeviceErrors == <<"Io", "Protocol", "ChannelClosed", "Desynchronized", "Disconnected">>
ffi_try == Errs(DeviceErrors, fail_error)

------------------------------------------------------------------------------
(* connection.rs, auth.rs, transport.rs: the calls that connect.           *)

\* transport::connect: the URI is looked at before anything is dialled.
connect == <<Chk("Uri", fail_ffi_connect("Uri")), Does("dial"),
             Chk("Unreachable", fail_ffi_connect("Unreachable"))>>
connect_plain == Errs(<<"TlsRequired", "Auth", "UnexpectedEof">>, fail_error)
\* FfiAuthenticator::tls_config; a key only TLS can use is refused inside it.
tls_config_for == <<Chk("cert", "Internal")>>
connect_with_key(usb) == IF TlsBuild /\ ~usb
                         THEN tls_config_for \o Errs(<<"Auth", "UnexpectedEof">>, fail_error)
                         ELSE connect_plain
handshake(how) == connect \o how \o <<Chk("split", "Io"), Fill>>

from_pkcs8_pem == <<Chk("pem", "Auth")>>
adb_connect == <<NullArg, Utf8>> \o from_pkcs8_pem \o handshake(connect_with_key(FALSE))
adb_connect_usb == <<NullArg, Utf8>> \o from_pkcs8_pem \o handshake(connect_with_key(TRUE))

from_ffi == <<Chk("nosign", "InvalidArg"), Chk("nokey", "InvalidArg")>>
\* CallbackAuthenticator::sign: the token's length, then what the callback
\* answers.
sign == <<Chk("token", "Auth"), Does("callback"), Chk("empty", "Auth"), Chk("long", "Auth"),
          Chk("refused", "Auth")>>
adb_connect_with_authenticator ==
    <<NullArg, Utf8>> \o from_ffi \o handshake(sign \o connect_plain)

adb_connection_set_io_timeout_ms ==
    <<NullArg, Chk("usb", "InvalidArg"), Does("read timeout"), Chk("rcvtimeo", "Io"),
      Does("write timeout"), Chk("sndtimeo", "Io"), Fill>>
adb_connection_device_banner == <<NullArg, Fill>>
adb_connection_features == <<NullArg, Fill>>

------------------------------------------------------------------------------
(* keys.rs and pairing.rs.                                                 *)

StoreError(e) == CASE e \in {"Malformed", "NotAKeyFile"} -> "Auth"
                   [] e = "Key" -> "Internal"
                   [] OTHER -> "Io"
adb_key_load_or_generate ==
    <<NullArg, Utf8, Chk("name", "InvalidArg"), Does("store")>>
    \o Errs(<<"Malformed", "NotAKeyFile", "Key", "Disk">>, StoreError)
    \o <<Chk("pkcs8", "Internal"), Chk("nul", "Internal"), Fill>>

\* Faulty form: the keys are compared once the device has been asked.
adb_pair_late ==
    <<NullArg, Utf8, Chk("Uri", fail_ffi_connect("Uri")), Chk("usb", "InvalidUri"), Chk("code", "InvalidArg"),
      Chk("name", "InvalidArg"), Chk("pem", "Auth")>>
    \o tls_config_for \o <<Does("dial"), Chk("Unreachable", fail_ffi_connect("Unreachable")), Does("attempt")>>
    \o Errs(<<"WrongCode", "Closed", "Transport", "Frame">>, fail_pairing)
    \o <<Chk("mismatch", "InvalidArg"), Does("shutdown"), Fill>>

\* adb_pair: the code, the name and the two keys before the device is asked.
adb_pair ==
    <<NullArg, Utf8, Chk("Uri", fail_ffi_connect("Uri")), Chk("usb", "InvalidUri"), Chk("code", "InvalidArg"),
      Chk("name", "InvalidArg"), Chk("pem", "Auth"), Chk("mismatch", "InvalidArg")>>
    \o tls_config_for \o <<Does("dial"), Chk("Unreachable", fail_ffi_connect("Unreachable")), Does("attempt")>>
    \o Errs(<<"WrongCode", "Closed", "Transport", "Frame">>, fail_pairing)
    \o <<Does("shutdown"), Fill>>

------------------------------------------------------------------------------
(* channel.rs, incoming.rs, reverse.rs, shell.rs.                          *)

decode_channel_id == <<Chk("slot", "InvalidArg")>>
adb_open_channel == <<NullArg>> \o Errs(<<"NoFreeChannels">>, fail_error) \o ffi_try
                    \o <<Does("opened"), Fill>>
adb_read_channel == <<NullArg, Chk("empty", "InvalidArg")>> \o decode_channel_id \o ffi_try \o <<Fill>>
adb_write_channel == <<NullArg>> \o decode_channel_id \o <<Does("send")>> \o ffi_try \o <<Fill>>
adb_close_channel == <<NullArg>> \o decode_channel_id \o <<Does("close")>> \o ffi_try \o <<Fill>>
adb_accept_channel == <<NullArg>> \o ffi_try \o <<Fill>>
adb_incoming_accept == <<NullArg, Chk("unstaged", "InvalidArg"), Does("answer")>> \o ffi_try \o <<Fill>>
adb_incoming_reject == <<NullArg, Chk("unstaged", "InvalidArg"), Does("answer")>> \o ffi_try \o <<Fill>>
ReverseErrors == Errs(<<"ReverseFailed", "ReverseReply">>, fail_error)
adb_reverse_forward == <<NullArg, Utf8, Does("rule")>> \o ffi_try \o ReverseErrors \o <<Fill>>
adb_reverse_remove == <<NullArg, Utf8, Does("rule")>> \o ffi_try \o ReverseErrors \o <<Fill>>
adb_reverse_remove_all == <<NullArg, Does("rule")>> \o ffi_try \o ReverseErrors \o <<Fill>>
adb_reverse_list == <<NullArg>> \o ffi_try \o ReverseErrors \o <<Fill>>
\* The window frame is sent on the open channel, which a failure closes; a
\* write that got stuck half way has also put the connection out of step.
WindowErrors == [i \in 1..Len(DeviceErrors) |->
                    Undo(DeviceErrors[i], fail_error(DeviceErrors[i]))]
adb_shell_open == <<NullArg, Utf8, Chk("term", "Protocol")>> \o ffi_try
                  \o <<Does("opened")>> \o WindowErrors \o <<Fill>>
adb_shell_read_frame == <<NullArg, Chk("closed", "ChannelClosed")>> \o ffi_try \o <<Fill>>
adb_shell_write_stdin == <<NullArg, Chk("closed", "ChannelClosed"), Does("send")>> \o ffi_try \o <<Fill>>
adb_shell_close_stdin == <<NullArg, Chk("closed", "ChannelClosed"), Does("send")>> \o ffi_try \o <<Fill>>
adb_shell_set_window_size == <<NullArg, Chk("closed", "ChannelClosed"), Does("send")>> \o ffi_try \o <<Fill>>
adb_shell_close == <<NullArg, Does("close")>> \o ffi_try \o <<Fill>>

Api == {adb_connect, adb_connect_usb, adb_connect_with_authenticator,
        adb_connection_set_io_timeout_ms, adb_connection_device_banner, adb_connection_features,
        adb_key_load_or_generate, adb_pair, adb_open_channel, adb_read_channel, adb_write_channel,
        adb_close_channel, adb_accept_channel, adb_incoming_accept, adb_incoming_reject,
        adb_reverse_forward, adb_reverse_remove, adb_reverse_remove_all, adb_reverse_list,
        adb_shell_open, adb_shell_read_frame, adb_shell_write_stdin, adb_shell_close_stdin,
        adb_shell_set_window_size, adb_shell_close}

------------------------------------------------------------------------------
(* A call runs.                                                            *)

ArgIdle == [call |-> <<>>, at |-> 0, done |-> {}, status |-> "none"]
ArgInit == arg = ArgIdle /\ synced = TRUE

\* A call, on a connection that may be out of step already.
ArgBegin ==
    /\ arg.at = 0
    /\ \E call \in Api: arg' = [ArgIdle EXCEPT !.call = call, !.at = 1]
    /\ synced' \in BOOLEAN

\* Writer::close_channel, whose result is let go: on a connection out of
\* step it frees nothing.
close_channel(done, in_step) == IF in_step THEN done \ {"opened"} ELSE done

\* fail_invalid_arg and its like: the status is returned.  A connection out
\* of step gives Desynchronized, and a write to the device that fails with
\* Io may leave it so.
ArgFails ==
    /\ arg.at > 0
    /\ LET s == arg.call[arg.at]
       IN /\ s.kind \in {"chk", "undo"}
          /\ s.what = "Desynchronized" => ~synced
          /\ synced' \in IF s.what = "Io" THEN {FALSE, synced} ELSE {synced}
          /\ arg' = [arg EXCEPT !.at = 0, !.status = s.status,
                        !.done = IF s.kind = "undo" THEN close_channel(@, synced') ELSE @]

\* A check that holds, an effect, or the end of the call.
ArgGoesOn ==
    /\ arg.at > 0
    /\ LET s == arg.call[arg.at]
       IN /\ s.what = "Desynchronized" => synced
          /\ arg' = IF s.kind = "fill" THEN [arg EXCEPT !.at = 0, !.status = "Ok"]
                    ELSE [arg EXCEPT !.at = @ + 1,
                                     !.done = IF s.kind = "does" THEN @ \cup {s.what} ELSE @]
    /\ UNCHANGED synced

ArgNext == ArgBegin \/ ArgFails \/ ArgGoesOn

------------------------------------------------------------------------------
(* Properties *)

Back == arg.at = 0 /\ arg.status # "none"
\* A call refused for what the caller gave it has done nothing: no device
\* was dialled, no pairing attempt spent, no key made, no request answered.
RefusedUntouched == Back /\ arg.status \in {"InvalidArg", "InvalidUri"} => arg.done = {}
\* adb_shell_open: a session that could not be set up leaves no channel open
\* while the connection is in step.  Once it is not, no channel can be
\* closed any more, and this one stays in the table with the others.
NoChannelLeft == Back /\ arg.status # "Ok" /\ synced => "opened" \notin arg.done
=============================================================================

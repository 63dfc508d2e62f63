------------------------------ MODULE OscWire ------------------------------
(***************************************************************************)
(* liblo's messages in memory and on the wire (message.c, bundle.c): a     *)
(* message grows argument by argument, is serialised, alone or in a        *)
(* bundle, and deserialised.                                               *)
(* Data: an argument is its type and, for strings and blobs, its length.   *)
(* A byte is a character, the 0 that ends strings, or part of a number:    *)
(* <<"word", order, v>> is the first byte of v, in host or network order.  *)
(***************************************************************************)
EXTENDS Integers, Sequences, SequencesExt

CONSTANTS Words, Longs, Strings, Flags,  \* types of four bytes, eight, ... none
          BLOB,                          \* the type of a blob
          Lengths,                       \* lengths of strings and blobs
          PathLengths,
          LO_DEF_TYPE_SIZE, LO_DEF_DATA_SIZE,
          MaxArgs, MaxMessages           \* bounds: arguments altogether, messages

ArgTypes == Words \cup Longs \cup Strings \cup Flags \cup {BLOB}
ASSUME OscWireAssumption ==
    /\ LO_DEF_TYPE_SIZE \in Nat \ {0, 1, 2} /\ LO_DEF_DATA_SIZE \in Nat \ {0}
    /\ Lengths \subseteq Nat /\ 0 \in Lengths /\ PathLengths \subseteq Nat \ {0}

VARIABLES message,       \* [path, args]: the message being built
          typesize, datasize,   \* sizes of its buffers
          bundle         \* messages finished and added

wireVars == <<message, typesize, datasize, bundle>>

-----------------------------------------------------------------------------
(* Sizes                                                                   *)

lo_strsize(n) == 4 * (n \div 4 + 1)
lo_blobsize(n) == 4 * ((4 + n) \div 4 + 1)
lo_arg_size(a) ==
    CASE a.type \in Flags   -> 0
      [] a.type \in Words   -> 4
      [] a.type \in Longs   -> 8
      [] a.type \in Strings -> lo_strsize(a.len)
      [] a.type = BLOB      -> lo_blobsize(a.len)

SumOf(s, size(_)) == LET f[n \in 0 .. Len(s)] == IF n = 0 THEN 0 ELSE f[n - 1] + size(s[n])
                     IN  f[Len(s)]
DataLength(args) == SumOf(args, lo_arg_size)
lo_message_length(m) ==
    lo_strsize(m.path) + lo_strsize(Len(m.args) + 1) + DataLength(m.args)
lo_bundle_length(b) == 16 + 4 * Len(b) + SumOf(b, lo_message_length)

\* lo_pow2_over: a shifted until it exceeds b, if it is not as great already
pow2_over(a, b) ==
    LET shifted[k \in 0 .. b] == IF k = 0 THEN a ELSE 2 * shifted[k - 1]
        k == CHOOSE n \in 0 .. b : shifted[n] <= b /\ b < 2 * shifted[n]
    IN  IF b > a THEN shifted[k] * 2 ELSE a

-----------------------------------------------------------------------------
(* Building                                                                *)

New(p) == [path |-> p, args |-> <<>>]
WireInit ==
    /\ \E p \in PathLengths : message = New(p)
    /\ typesize = LO_DEF_TYPE_SIZE /\ datasize = 0
    /\ bundle = <<>>

\* Slip: the terminating 0 of the types is not counted.
FullUnterminated(n) == n >= typesize
Full(n) == n + 1 >= typesize

\* lo_message_add_...: data first (none for the flags), then the type
AddArg(t, n) ==
    /\ Len(message.args) + SumOf(bundle, LAMBDA m : Len(m.args)) < MaxArgs
    /\ t \in Strings \cup {BLOB} \/ n = 0
    /\ t = BLOB => n > 0
    /\ LET a == [type |-> t, len |-> n]
           old == IF datasize = 0 THEN LO_DEF_DATA_SIZE ELSE datasize
       IN  /\ message' = [message EXCEPT !.args = Append(@, a)]
           /\ datasize' = IF t \in Flags THEN datasize
                          ELSE pow2_over(old, DataLength(message.args) + lo_arg_size(a))
    /\ typesize' = IF Full(Len(message.args) + 1) THEN 2 * typesize ELSE typesize
    /\ UNCHANGED bundle

\* lo_bundle_add_message, and the next message
AddMessage(p) ==
    /\ Len(bundle) < MaxMessages
    /\ bundle' = Append(bundle, message)
    /\ message' = New(p) /\ typesize' = LO_DEF_TYPE_SIZE /\ datasize' = 0

WireNext ==
    \/ \E t \in ArgTypes, n \in Lengths : AddArg(t, n)
    \/ \E p \in PathLengths : AddMessage(p)
WireSpec == WireInit /\ [][WireNext]_wireVars

-----------------------------------------------------------------------------
(* Serialising                                                             *)

Char(c) == <<c, "", 0>>
ZERO == Char("")
Bytes(n, b) == [k \in 1 .. n |-> b]
Text(n) == Bytes(n, Char("c"))
Padded(s) == s \o Bytes(lo_strsize(Len(s)) - Len(s), ZERO)
Word(order, v) == <<<<"word", order, v>>>> \o Text(3)
ArgBytes(a) ==
    CASE a.type \in Flags   -> <<>>
      [] a.type \in Words   -> Word("host", 0)
      [] a.type \in Longs   -> Word("host", 0) \o Text(4)
      [] a.type \in Strings -> Padded(Text(a.len))
      [] a.type = BLOB      -> Word("host", a.len) \o Text(a.len)
                                   \o Bytes(lo_blobsize(a.len) - 4 - a.len, ZERO)
TypeString(m) == <<Char(",")>> \o [n \in DOMAIN m.args |-> Char(m.args[n].type)]
MessageData(m) == FlattenSeq([n \in DOMAIN m.args |-> ArgBytes(m.args[n])])

\* The number whose first byte is at p, as the host reads it
ReadWord(bytes, p, order) == IF bytes[p][2] = order THEN bytes[p][3] ELSE 0
StringAt(bytes, p, end) ==   \* bytes to the first 0, or past the end
    LET zeros == {k \in p .. end : bytes[k] = ZERO}
    IN  IF zeros = {} THEN end + 1 - p ELSE (CHOOSE k \in zeros : \A x \in zeros : k <= x) - p
SizeAt(t, bytes, p) ==
    LET len == CASE t \in Strings -> StringAt(bytes, p, Len(bytes))
                 [] t = BLOB      -> ReadWord(bytes, p, "host")
                 [] OTHER         -> 0
    IN  lo_arg_size([type |-> t, len |-> len])

\* lo_arg_network_endian, lo_arg_host_endian
Swapped(t, bytes, p, order) ==
    IF t \in Words \cup Longs \cup {BLOB}
    THEN [bytes EXCEPT ![p] = <<"word", order, @[3]>>] ELSE bytes

\* Slip: the argument is turned round before its size is asked for.
TurnedEarly(types, data) ==
    LET step[i \in 0 .. Len(types)] ==
            IF i = 0 THEN [at |-> 1, bytes |-> data]
            ELSE LET done == step[i - 1]
                     bytes == Swapped(types[i], done.bytes, done.at, "net")
                 IN  [at |-> done.at + SizeAt(types[i], bytes, done.at), bytes |-> bytes]
    IN  step[Len(types)].bytes
\* The loop of lo_message_serialise
Turned(types, data) ==
    LET step[i \in 0 .. Len(types)] ==
            IF i = 0 THEN [at |-> 1, bytes |-> data]
            ELSE LET done == step[i - 1]
                 IN  [at |-> done.at + SizeAt(types[i], done.bytes, done.at),
                      bytes |-> Swapped(types[i], done.bytes, done.at, "net")]
    IN  step[Len(types)].bytes

lo_message_serialise(m) ==
    Padded(Text(m.path)) \o Padded(TypeString(m))
        \o Turned([n \in DOMAIN m.args |-> m.args[n].type], MessageData(m))
lo_bundle_serialise(b) ==
    Padded(Text(7)) \o Word("net", 0) \o Word("net", 0)
        \o FlattenSeq([n \in DOMAIN b |-> Word("net", lo_message_length(b[n]))
                                              \o lo_message_serialise(b[n])])

-----------------------------------------------------------------------------
(* Deserialising                                                           *)

Refused == -1
lo_validate_string(bytes, p, size) ==
    LET n == StringAt(bytes, p, p + size - 1)
        len == lo_strsize(n)
    IN  IF n = size \/ len > size THEN Refused
        ELSE IF \E k \in p + n .. p + len - 1 : bytes[k] # ZERO THEN Refused ELSE len
lo_validate_blob(bytes, p, size) ==
    IF size < 4 THEN Refused     \* what is read of the length lies outside
    ELSE LET n == ReadWord(bytes, p, "net")
             len == lo_blobsize(n)
         IN  IF len > size \/ \E k \in p + 4 + n .. p + len - 1 : bytes[k] # ZERO
             THEN Refused ELSE len
lo_validate_arg(t, bytes, p, size) ==
    CASE t \in Flags   -> 0
      [] t \in Words   -> IF size >= 4 THEN 4 ELSE Refused
      [] t \in Longs   -> IF size >= 8 THEN 8 ELSE Refused
      [] t \in Strings -> lo_validate_string(bytes, p, size)
      [] t = BLOB      -> lo_validate_blob(bytes, p, size)

NoMessage == [path |-> 0, args |-> <<>>]

\* Slip: bytes behind the last argument are let pass.
WholeTrailing(step, argc) == step.ok
Whole(step, argc) == step.ok /\ step.remain = 0

lo_message_deserialise(bytes) ==
    LET size == Len(bytes)
        path == IF size = 0 THEN Refused ELSE lo_validate_string(bytes, 1, size)
        tlen == IF path = Refused \/ path = size THEN Refused
                ELSE lo_validate_string(bytes, path + 1, size - path)
        types == [n \in 1 .. StringAt(bytes, path + 1, size) - 1 |-> bytes[path + 1 + n][1]]
        arg[i \in 0 .. Len(types)] ==
            IF i = 0
            THEN [ok |-> TRUE, at |-> path + tlen + 1, remain |-> size - path - tlen,
                  bytes |-> bytes, args |-> <<>>]
            ELSE LET s == arg[i - 1]
                     len == IF s.ok THEN lo_validate_arg(types[i], s.bytes, s.at, s.remain)
                            ELSE Refused
                     n == CASE types[i] \in Strings -> StringAt(s.bytes, s.at, size)
                            [] types[i] = BLOB      -> ReadWord(s.bytes, s.at, "net")
                            [] OTHER                -> 0
                 IN  IF len = Refused THEN [s EXCEPT !.ok = FALSE]
                     ELSE [ok |-> TRUE, at |-> s.at + len, remain |-> s.remain - len,
                           bytes |-> IF len = 0 THEN s.bytes
                                     ELSE Swapped(types[i], s.bytes, s.at, "host"),
                           args |-> Append(s.args, [type |-> types[i], len |-> n])]
        end == arg[Len(types)]
    IN  IF tlen = Refused \/ ~Whole(end, Len(types)) THEN NoMessage
        ELSE [path |-> StringAt(bytes, 1, size), args |-> end.args]

\* lo_server_dispatch_data's way through the elements of a bundle
Elements(bytes) ==
    LET element[p \in 17 .. Len(bytes) + 1] ==
            IF p > Len(bytes) THEN <<>>
            ELSE LET n == ReadWord(bytes, p, "net")
                 IN  <<lo_message_deserialise(SubSeq(bytes, p + 4, p + 3 + n))>> \o element[p + 4 + n]
    IN  element[17]

-----------------------------------------------------------------------------
(* A message's buffers hold its types with the 0 behind them, and its data. *)
(* On the wire it is as long as was announced, alone and in a bundle, and  *)
(* is read as it was: no padding, byte order or flag without data shifts   *)
(* an argument.                                                            *)
MessagesSurvive ==
    /\ Len(message.args) + 2 <= typesize
    /\ DataLength(message.args) <= datasize
    /\ Len(lo_message_serialise(message)) = lo_message_length(message)
    /\ lo_message_deserialise(lo_message_serialise(message)) = message
    /\ bundle # <<>> =>
           LET bytes == lo_bundle_serialise(bundle)
           IN  Len(bytes) = lo_bundle_length(bundle) /\ Elements(bytes) = bundle

(* A datagram that was cut short anywhere, or is longer than its message,  *)
(* is refused, and no part of it becomes a message.                        *)
OnlyWholeMessages ==
    LET bytes == lo_message_serialise(message)
    IN  /\ \A n \in 0 .. Len(bytes) - 1 :
               lo_message_deserialise(SubSeq(bytes, 1, n)) = NoMessage
        /\ lo_message_deserialise(bytes \o Bytes(4, ZERO)) = NoMessage
=============================================================================

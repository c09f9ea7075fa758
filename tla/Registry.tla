----------------------------- MODULE Registry -----------------------------
(***************************************************************************)
(* The codecs registry of src/codecs/registry.ts: from the descriptors     *)
(* that a server sends for a type it builds a codec, reusing the codecs of *)
(* two caches.  A registry is a record [codecs, built, custom] of the two  *)
(* caches and the base scalars with a custom codec; what is built is a     *)
(* record [registry, codec, error].                                        *)
(*                                                                         *)
(* A descriptor is a record [t, tid, at, len, dims]: its kind and its type,*)
(* the positions of the types it refers to, the lengths of its names,      *)
(* labels or annotation, the dimensions of an array.  A buffer is read at  *)
(* an offset: what is not the start of a descriptor is garbage.            *)
(***************************************************************************)
EXTENDS LRU

CONSTANTS
    KnownScalars,    \* base scalars with a codec
    EmptyTuple,      \* the type of the empty tuple
    NullType,        \* the type of what a query does not give or take
    NoCodec

NewRegistry(codecsSize, builtSize) ==
    [codecs |-> NewLRU(codecsSize), built |-> NewLRU(builtSize), custom |-> {}]

ScalarKinds == {"base", "scalar", "enum"}

Annotations == {"name", "note"}

NewCodec(tid, kind, subs) == [tid |-> tid, kind |-> kind, subs |-> subs]

EmptyTupleCodec == NewCodec(EmptyTuple, "empty", <<>>)

NullCodec == NewCodec(NullType, "null", <<>>)

SetCustomCodecs(reg, scalars) == [reg EXCEPT !.custom = scalars]

\* getCodec().
GetCodec(reg, tid) ==
    IF HasEntry(reg.codecs, tid) THEN EntryOf(reg.codecs, tid)
    ELSE IF tid = EmptyTuple THEN EmptyTupleCodec
    ELSE IF tid = NullType THEN NullCodec ELSE NoCodec

AfterGetCodec(reg, tid) == [reg EXCEPT !.codecs = AfterGet(@, tid)]

-----------------------------------------------------------------------------
(* One descriptor.                                                         *)

Total(lens) == LET sum[n \in 0..Len(lens)] == IF n = 0 THEN 0 ELSE sum[n - 1] + lens[n]
               IN  sum[Len(lens)]

\* The bytes of a shape element before its name.
ElementHead(minor) == IF minor >= 11 THEN 5 ELSE 1

\* Faulty variant: the cardinality is forgotten where a shape is skipped.
SkippedHead(minor) == IF minor >= 11 THEN 4 ELSE 1

\* What precedes the name of a shape element that is skipped.
SkipHead(minor) == IF minor >= 11 THEN 5 ELSE 1

\* The bytes that are skipped of a descriptor whose codec is cached.
Skipped(d, minor) ==
    CASE d.t \in {"set", "scalar"} -> 2
      [] d.t = "shape"      -> 2 + Len(d.len) * (SkipHead(minor) + 4 + 2) + Total(d.len)
      [] d.t = "base"       -> 0
      [] d.t = "tuple"      -> 2 + 2 * Len(d.at)
      [] d.t = "namedtuple" -> 2 + Len(d.len) * (4 + 2) + Total(d.len)
      [] d.t = "array"      -> 2 + 2 + 4
      [] d.t = "enum"       -> 2 + Len(d.len) * 4 + Total(d.len)
      [] d.t \in Annotations -> 4 + Total(d.len)

\* The bytes that are read of one whose codec is built.
Consumed(d, minor) ==
    CASE d.t \in {"set", "scalar"} -> 2
      [] d.t = "shape"      -> 2 + Len(d.len) * (ElementHead(minor) + 4 + 2) + Total(d.len)
      [] d.t = "tuple"      -> 2 + 2 * Len(d.at)
      [] d.t = "namedtuple" -> 2 + Len(d.len) * (4 + 2) + Total(d.len)
      [] d.t = "array"      -> 2 + 2 + 4
      [] d.t = "enum"       -> 2 + Len(d.len) * 4 + Total(d.len)
      [] OTHER              -> 0

\* The codec built of a descriptor from those that precede it, or NoCodec
\* when that throws.
Built(d, cl, custom) ==
    LET subs == [i \in DOMAIN d.at |-> cl[d.at[i]]]
    IN  IF \E i \in DOMAIN d.at : d.at[i] \notin DOMAIN cl THEN NoCodec
        ELSE
        CASE d.t = "base" /\ d.tid \in custom -> NewCodec(d.tid, "base", <<"custom">>)
          [] d.t = "base" /\ d.tid \in KnownScalars \ custom -> NewCodec(d.tid, "base", <<>>)
          [] d.t = "scalar" /\ subs[1].kind \in ScalarKinds ->
                 NewCodec(d.tid, subs[1].kind, subs[1].subs)
          [] d.t = "array" /\ d.dims = 1 -> NewCodec(d.tid, "array", subs)
          [] d.t = "tuple" /\ d.at = <<>> -> EmptyTupleCodec
          [] d.t \in {"shape", "set", "namedtuple", "enum"} \/ (d.t = "tuple" /\ d.at # <<>>) ->
                 NewCodec(d.tid, d.t, subs)
          [] OTHER -> NoCodec

\* What is known of a type: first by the one cache, then by the other.
Cached(reg, tid) ==
    IF HasEntry(reg.codecs, tid) THEN EntryOf(reg.codecs, tid)
    ELSE IF HasEntry(reg.built, tid) THEN EntryOf(reg.built, tid) ELSE NoCodec

\* The registry after it was looked for, and after its codec is registered.
Looked(reg, tid) ==
    IF HasEntry(reg.codecs, tid) THEN AfterGetCodec(reg, tid)
    ELSE [AfterGetCodec(reg, tid) EXCEPT !.built = AfterGet(@, tid)]
Registered(reg, tid, cached, codec) ==
    [codecs |-> AfterSet(reg.codecs, codec.tid, codec),
     built |-> IF cached # NoCodec THEN reg.built ELSE AfterSet(reg.built, tid, codec),
     custom |-> reg.custom]

\* _buildCodec(), for the descriptor d at the offset of a state s of
\* buildCodec(): [off, cl, reg, error].
OneCodec(s, d, minor) ==
    LET again  == Looked(s.reg, d.tid)
        cached == Cached(s.reg, d.tid)
        codec  == IF cached # NoCodec THEN cached ELSE Built(d, s.cl, s.reg.custom)
        bytes  == IF cached # NoCodec THEN Skipped(d, minor) ELSE Consumed(d, minor)
    IN  IF codec = NoCodec \/ (d.t = "array" /\ d.dims # 1)
        THEN [off |-> s.off, cl |-> s.cl, reg |-> again, error |-> TRUE]
        ELSE IF d.t \in Annotations
        THEN [off |-> s.off + 17 + bytes, cl |-> s.cl, reg |-> again, error |-> FALSE]
        ELSE [off |-> s.off + 17 + bytes, cl |-> Append(s.cl, codec),
              reg |-> Registered(again, d.tid, cached, codec), error |-> FALSE]

-----------------------------------------------------------------------------
(* The descriptors of a type.                                              *)

\* The bytes of a descriptor after its kind and its type, as the server writes it.
Written(d, minor) == IF d.t \in Annotations THEN 4 + Total(d.len) ELSE Consumed(d, minor)

\* Where the first n descriptors end.
Offsets(list, minor) ==
    LET end[n \in 0..Len(list)] ==
            IF n = 0 THEN 0 ELSE end[n - 1] + 17 + Written(list[n], minor)
    IN  end

\* The n-th turn of the loop of buildCodec().
Turn(s, list, minor, n) ==
    IF s.error THEN s
    ELSE IF s.off # Offsets(list, minor)[n - 1] THEN [s EXCEPT !.error = TRUE]
    ELSE OneCodec(s, list[n], minor)

Turns(reg, list, minor) ==
    LET after[n \in 0..Len(list)] ==
            IF n = 0 THEN [off |-> 0, cl |-> <<>>, reg |-> reg, error |-> FALSE]
            ELSE Turn(after[n - 1], list, minor, n)
    IN  after

\* buildCodec().
BuildCodec(reg, list, minor) ==
    LET end    == Turns(reg, list, minor)[Len(list)]
        failed == end.error \/ end.cl = <<>>
    IN  [registry |-> end.reg, error |-> failed,
         codec |-> IF failed THEN NoCodec ELSE end.cl[Len(end.cl)]]

\* A client looks the type up first, as _parse() does.
Lookup(reg, tid, list, minor) ==
    IF GetCodec(reg, tid) # NoCodec
    THEN [registry |-> AfterGetCodec(reg, tid), codec |-> GetCodec(reg, tid), error |-> FALSE]
    ELSE BuildCodec(reg, list, minor)
=============================================================================

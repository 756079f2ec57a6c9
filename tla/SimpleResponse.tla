--------------------------- MODULE SimpleResponse ---------------------------
(***************************************************************************)
(* simple_response of convert.hpp: the object a request handler fills, and *)
(* get_response, which turns it into the HTTP_RESPONSE that is sent.  The  *)
(* structure holds pointers into the object and lengths that are cut to    *)
(* their field's width; the maps iterate in the order of their keys.       *)
(***************************************************************************)
EXTENDS Naturals, Sequences, FiniteSets

CONSTANTS
  Texts,      \* the strings a handler may set
  Values,     \* those of them it gives to unknown headers and trailers
  Length,     \* [Texts -> Nat]
  Empty,      \* the empty string
  HeaderIds,  \* HTTP_HEADER_ID below HttpHeaderResponseMaximum: those with a slot
  Names,      \* the names of unknown headers and trailers, in the order of the maps' keys
  Codes,      \* status codes
  Unset,      \* a member that has no value
  NoEntry,    \* a key that is not in a map
  UShort,     \* 2^16 and
  ULong,      \* 2^32, the ranges of the structure's lengths
  MaxCalls    \* bound: calls of get_response on one object

ASSUME LengthAssumption ==
  /\ Length \in [Texts -> Nat]
  /\ \A s \in Texts : Length[s] = 0 <=> s = Empty
  /\ Empty \in Texts
  /\ Values \subseteq Texts
ASSUME NamesAssumption ==
  Names \in Seq(Texts) /\ \A i, j \in DOMAIN Names : Names[i] = Names[j] => i = j
ASSUME SentinelAssumption == Unset \notin Codes /\ NoEntry \notin Texts
ASSUME WidthAssumption == UShort \in Nat /\ UShort > 2 /\ ULong \in Nat \ {0}

VARIABLES
  status_code_,      \* Codes \cup {Unset}
  reason_, body_,    \* Texts
  known_headers_,    \* [HeaderIds -> Texts \cup {NoEntry}]
  unknown_headers_, trailers_,  \* [name -> Texts \cup {NoEntry}]
  data_chunks_,      \* Seq(Chunk)
  resp_,             \* what was built, or Unset when a field changed since
  calls              \* calls of get_response so far

fieldVars == <<status_code_, reason_, body_, known_headers_, unknown_headers_, trailers_>>
vars == <<fieldVars, data_chunks_, resp_, calls>>

NameSet == {Names[i] : i \in DOMAIN Names}
EmptyMap(keys) == [k \in keys |-> NoEntry]

Init ==
  /\ status_code_ = Unset
  /\ reason_ = Empty /\ body_ = Empty
  /\ known_headers_ = EmptyMap(HeaderIds)
  /\ unknown_headers_ = EmptyMap(NameSet)
  /\ trailers_ = EmptyMap(NameSet)
  /\ data_chunks_ = << >>
  /\ resp_ = Unset
  /\ calls = 0

-----------------------------------------------------------------------------
(* The setters.  Whatever was built points at strings that may have moved. *)

Changed == resp_' = Unset /\ UNCHANGED <<data_chunks_, calls>>

set_status_code(code) ==
  /\ status_code_' = code
  /\ Changed
  /\ UNCHANGED <<reason_, body_, known_headers_, unknown_headers_, trailers_>>

set_reason(s) ==
  /\ reason_' = s
  /\ Changed
  /\ UNCHANGED <<status_code_, body_, known_headers_, unknown_headers_, trailers_>>

set_body(s) ==
  /\ body_' = s
  /\ Changed
  /\ UNCHANGED <<status_code_, reason_, known_headers_, unknown_headers_, trailers_>>

(* and set_content_type, for HttpHeaderContentType                         *)
add_known_header(id, s) ==
  /\ known_headers_' = [known_headers_ EXCEPT ![id] = s]
  /\ Changed
  /\ UNCHANGED <<status_code_, reason_, body_, unknown_headers_, trailers_>>

add_unknown_header(name, s) ==
  /\ unknown_headers_' = [unknown_headers_ EXCEPT ![name] = s]
  /\ Changed
  /\ UNCHANGED <<status_code_, reason_, body_, known_headers_, trailers_>>

add_trailer(name, s) ==
  /\ trailers_' = [trailers_ EXCEPT ![name] = s]
  /\ Changed
  /\ UNCHANGED <<status_code_, reason_, body_, known_headers_, unknown_headers_>>

-----------------------------------------------------------------------------
(* get_response                                                            *)

(* A pointer to the characters of s, with a length of the given width.     *)
Slot(s, width) == [text |-> s, len |-> Length[s] % width]

(* The array of HTTP_UNKNOWN_HEADER made from a map, in its order.         *)
Keys(map) == {i \in DOMAIN Names : map[Names[i]] # NoEntry}
InOrder(keys) ==
  CHOOSE f \in [1..Cardinality(keys) -> keys] : \A i, j \in DOMAIN f : i < j => f[i] < f[j]
HeaderArray(map) ==
  LET keys == InOrder(Keys(map))
  IN  [i \in DOMAIN keys |-> [name  |-> Slot(Names[keys[i]], UShort),
                              value |-> Slot(map[Names[keys[i]]], UShort)]]

MemoryChunk(s) == [type |-> "memory", data |-> Slot(s, ULong)]
TrailersChunk(array) == [type |-> "trailers", count |-> Len(array) % UShort, array |-> array]

(* Mutant: the trailers are pushed before the body.                        *)
NewChunks_TrailersFirst ==
  LET trailers == HeaderArray(trailers_)
  IN  (IF trailers # << >> THEN <<TrailersChunk(trailers)>> ELSE << >>)
        \o (IF body_ # Empty THEN <<MemoryChunk(body_)>> ELSE << >>)

(* What a call adds to data_chunks_, which nothing clears.  A chunk of an  *)
(* earlier call points at a string or an array that may have changed       *)
(* since; its contents are kept here as they were, and nothing below       *)
(* depends on them.                                                        *)
NewChunks ==
  LET trailers == HeaderArray(trailers_)
  IN  (IF body_ # Empty THEN <<MemoryChunk(body_)>> ELSE << >>)
        \o (IF trailers # << >> THEN <<TrailersChunk(trailers)>> ELSE << >>)

(* Mutant: the pointer is set and the length of a known header is not.     *)
KnownSlots_NoLength ==
  [id \in HeaderIds |->
    [text |-> IF known_headers_[id] = NoEntry THEN Empty ELSE known_headers_[id], len |-> 0]]

(* resp_ was zeroed, and a header that was added is never taken away.      *)
KnownSlots ==
  [id \in HeaderIds |->
    Slot(IF known_headers_[id] = NoEntry THEN Empty ELSE known_headers_[id], UShort)]

Response(code, chunks) ==
  LET unknown == HeaderArray(unknown_headers_) IN
    [StatusCode         |-> code,
     Reason             |-> Slot(reason_, UShort),
     KnownHeaders       |-> KnownSlots,
     UnknownHeaderCount |-> Len(unknown) % UShort,
     UnknownHeaders     |-> unknown,
     EntityChunkCount   |-> Len(chunks) % UShort,
     EntityChunks       |-> chunks]

(* A status that was never set has any value.                              *)
get_response ==
  /\ calls < MaxCalls
  /\ data_chunks_' = data_chunks_ \o NewChunks
  /\ \E code \in IF status_code_ = Unset THEN Codes ELSE {status_code_} :
       resp_' = Response(code, data_chunks_ \o NewChunks)
  /\ calls' = calls + 1
  /\ UNCHANGED fieldVars

Next ==
  \/ \E code \in Codes : set_status_code(code)
  \/ \E s \in Texts :
       \/ set_reason(s) \/ set_body(s)
       \/ \E id \in HeaderIds : add_known_header(id, s)
  \/ \E name \in NameSet, s \in Values : add_unknown_header(name, s) \/ add_trailer(name, s)
  \/ get_response

Spec == Init /\ [][Next]_vars

-----------------------------------------------------------------------------
(* What HttpSendHttpResponse sends for a structure: the characters at each *)
(* pointer as far as the length says.                                      *)

Read(slot) == <<slot.text, slot.len>>
ReadArray(array, count) ==
  {<<Read(array[i].name), Read(array[i].value)>> : i \in 1..count}
ReadChunk(chunk) ==
  IF chunk.type = "memory" THEN <<"memory", Read(chunk.data)>>
                           ELSE <<"trailers", ReadArray(chunk.array, chunk.count)>>

SentHead ==
  [status  |-> resp_.StatusCode,
   reason  |-> Read(resp_.Reason),
   known   |-> [id \in HeaderIds |-> Read(resp_.KnownHeaders[id])],
   unknown |-> ReadArray(resp_.UnknownHeaders, resp_.UnknownHeaderCount)]
SentEntity ==
  [i \in 1..resp_.EntityChunkCount |-> ReadChunk(resp_.EntityChunks[i])]

(* What the handler asked for: every string from end to end.               *)
Whole(s) == <<s, Length[s]>>
Entries(map) == {<<Whole(Names[i]), Whole(map[Names[i]])>> : i \in Keys(map)}
WantedHead ==
  [status  |-> status_code_,
   reason  |-> Whole(reason_),
   known   |-> [id \in HeaderIds |->
                 Whole(IF known_headers_[id] = NoEntry THEN Empty ELSE known_headers_[id])],
   unknown |-> Entries(unknown_headers_)]
WantedEntity ==
  (IF body_ # Empty THEN << <<"memory", Whole(body_)>> >> ELSE << >>)
    \o (IF Entries(trailers_) # {} THEN << <<"trailers", Entries(trailers_)>> >> ELSE << >>)

-----------------------------------------------------------------------------
(* Properties.                                                             *)

(* A map that its array can count, of strings their slots can count.       *)
MapFits(map) ==
  /\ Cardinality(Keys(map)) < UShort
  /\ \A i \in Keys(map) : Length[Names[i]] < UShort /\ Length[map[Names[i]]] < UShort
HeadFits ==
  /\ Length[reason_] < UShort
  /\ \A id \in HeaderIds : known_headers_[id] # NoEntry => Length[known_headers_[id]] < UShort
  /\ MapFits(unknown_headers_)
EntityFits == Length[body_] < ULong /\ MapFits(trailers_)

(* The structure describes what the handler set exactly when the handler   *)
(* set a status, every length and count fits its field, and no earlier     *)
(* call on the object left a chunk in data_chunks_ ("prepare response and  *)
(* then return ther ptr", convert.hpp:146).  A count of chunks that wraps  *)
(* is left out: it may describe them by accident.                          *)
DescribesExactlyWhen ==
  resp_ # Unset /\ Len(data_chunks_) < UShort =>
    (SentHead = WantedHead /\ SentEntity = WantedEntity
       <=> /\ status_code_ # Unset
           /\ HeadFits /\ EntityFits
           /\ Len(data_chunks_) = Len(WantedEntity))

(* Calling get_response again gets the head right for any sequence of      *)
(* changes in between, and sends the right body and trailers last, after   *)
(* what earlier calls left.                                                *)
ReuseOnlyAddsChunks ==
  resp_ # Unset =>
    /\ status_code_ # Unset /\ HeadFits => SentHead = WantedHead
    /\ EntityFits /\ Len(data_chunks_) < UShort =>
         LET earlier == Len(SentEntity) - Len(WantedEntity)
         IN  \A i \in DOMAIN WantedEntity : SentEntity[earlier + i] = WantedEntity[i]
=============================================================================

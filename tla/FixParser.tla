------------------------------ MODULE FixParser ------------------------------
(***************************************************************************)
(* FixParser::parse_in_place over the characters of one datagram, one step *)
(* per iteration of its loop.  A message is a sequence of pieces, each of  *)
(* which its sender ends with a delimiter (SOH and '|' are the same to the *)
(* parser and one character here); a datagram may hold only the beginning  *)
(* of it, as payload_len is cut to MAX_PAYLOAD_LEN.                        *)
(***************************************************************************)
EXTENDS Integers, Sequences, SequencesExt

CONSTANTS Messages,     \* bound: what senders write, sequences of pieces
          IntMax,       \* INT_MAX, for the tag, side and quantity (2^31 - 1)
          SeqMax,       \* UINT64_MAX, for seq_num (2^64 - 1)
          Decimals,     \* decimal places of a price (6)
          PriceWidth    \* bits of int64_t price (64)

ASSUME ParserAssumption ==
    /\ \A m \in Messages : \A k \in DOMAIN m : \A i \in DOMAIN m[k] : m[k][i] # "|"
    /\ IntMax \in Nat /\ SeqMax \in Nat
    /\ Decimals \in Nat \ {0} /\ PriceWidth \in Nat \ {0}

VARIABLES pieces,       \* history: the message as it was written
          buffer,       \* the characters of it that arrived
          ptr,          \* where the parser is; Len(buffer) + 1 is end
          order         \* the ParsedOrder built so far

vars == <<pieces, buffer, ptr, order>>

Digit ==
    LET ten == <<"0", "1", "2", "3", "4", "5", "6", "7", "8", "9">>
    IN  [c \in ToSet(ten) |-> (CHOOSE k \in DOMAIN ten : ten[k] = c) - 1]

NotDigit(c) == c \notin DOMAIN Digit

\* The first position from i on whose character passes T, or the end of s.
FirstFrom(s, i, T(_)) ==
    CHOOSE k \in i..(Len(s) + 1) :
        /\ k = Len(s) + 1 \/ T(s[k])
        /\ \A j \in i..(k - 1) : ~T(s[j])

Number(digits) ==
    LET n[k \in 0..Len(digits)] == IF k = 0 THEN 0 ELSE 10 * n[k - 1] + Digit[digits[k]]
    IN  n[Len(digits)]

----------------------------------------------------------------------------
(* Conversions.                                                            *)

\* std::from_chars: the longest numeric prefix; the target keeps its old value
\* without one, and when the number is out of range.  A minus sign belongs to
\* it only if the target is signed.
FromChars(text, old, max, signed) ==
    LET negative == signed /\ text # <<>> /\ text[1] = "-"
        start == IF negative THEN 2 ELSE 1
        stop == FirstFrom(text, start, NotDigit)
        n == Number(SubSeq(text, start, stop - 1))
    IN  CASE start = stop -> old
          [] start < stop /\ negative -> IF n > max + 1 THEN old ELSE -n
          [] OTHER -> IF n > max THEN old ELSE n

\* Two's complement: overflow in the code's signed arithmetic is undefined and
\* wraps in its builds.
Signed(x) == ((x + 2^(PriceWidth - 1)) % 2^PriceWidth) - 2^(PriceWidth - 1)

FirstMultiplierWhole == 10^Decimals
FirstMultiplier == 10^(Decimals - 1)

\* parse_fixed_point_price: sign, integer part, then the digits of the
\* fraction with a multiplier that ends at 0.
ParseFixedPointPrice(text) ==
    LET negative == text # <<>> /\ text[1] = "-"
        start == IF negative THEN 2 ELSE 1
        dot == FirstFrom(text, start, NotDigit)
        whole == Number(SubSeq(text, start, dot - 1)) * 10^Decimals
        fraction == IF dot <= Len(text) /\ text[dot] = "."
                      THEN SubSeq(text, dot + 1, FirstFrom(text, dot + 1, NotDigit) - 1)
                      ELSE <<>>
        value[k \in 0..Len(fraction)] ==
            IF k = 0 THEN whole
            ELSE value[k - 1] + Digit[fraction[k]] * (FirstMultiplier \div 10^(k - 1))
    IN  Signed((IF negative THEN -1 ELSE 1) * value[Len(fraction)])

----------------------------------------------------------------------------
(* parse_in_place.                                                         *)

NewOrder ==
    [msg_type |-> <<>>, msg_type_char |-> "?", cl_ord_id |-> <<>>, symbol |-> <<>>,
     side |-> 0, quantity |-> 0, price |-> 0, seq_num |-> 0]

\* The switch on the tag.  An empty MsgType leaves msg_type_char as it was.
Store(o, tag, val) ==
    CASE tag = 35 -> [o EXCEPT !.msg_type = val,
                               !.msg_type_char = IF val = <<>> THEN @ ELSE val[1]]
      [] tag = 11 -> [o EXCEPT !.cl_ord_id = val]
      [] tag = 55 -> [o EXCEPT !.symbol = val]
      [] tag = 54 -> [o EXCEPT !.side = FromChars(val, @, IntMax, TRUE)]
      [] tag = 38 -> [o EXCEPT !.quantity = FromChars(val, @, IntMax, TRUE)]
      [] tag = 44 -> [o EXCEPT !.price = ParseFixedPointPrice(val)]
      [] tag = 34 -> [o EXCEPT !.seq_num = FromChars(val, @, SeqMax, FALSE)]
      [] OTHER -> o

IsEquals(c) == c = "="
IsDelimiter(c) == c = "|"

\* The delimiter after the value, if there is one.
SkipDelimiterNever(stop) == stop
SkipDelimiter(stop) == IF stop <= Len(buffer) THEN stop + 1 ELSE stop

\* What senders write, ended by delimiters.
Text(m) ==
    LET t[k \in 0..Len(m)] == IF k = 0 THEN <<>> ELSE t[k - 1] \o m[k] \o <<"|">>
    IN  t[Len(m)]

Init ==
    /\ pieces \in Messages
    /\ \E n \in 0..Len(Text(pieces)) : buffer = SubSeq(Text(pieces), 1, n)
    /\ ptr = 1
    /\ order = NewOrder

EqualsAt == FirstFrom(buffer, ptr, IsEquals)

\* One iteration: the tag ends at the next '=', whatever comes before it.
Field ==
    /\ ptr <= Len(buffer) /\ EqualsAt <= Len(buffer)
    /\ LET tag == FromChars(SubSeq(buffer, ptr, EqualsAt - 1), 0, IntMax, TRUE)
           stop == FirstFrom(buffer, EqualsAt + 1, IsDelimiter)
       IN  /\ order' = Store(order, tag, SubSeq(buffer, EqualsAt + 1, stop - 1))
           /\ ptr' = SkipDelimiter(stop)
    /\ UNCHANGED <<pieces, buffer>>

\* No '=' is left: the loop is broken off.
NoField ==
    /\ ptr <= Len(buffer) /\ EqualsAt > Len(buffer)
    /\ ptr' = EqualsAt
    /\ UNCHANGED <<pieces, buffer, order>>

\* return order.
Done == ptr > Len(buffer)
Return == Done /\ UNCHANGED vars

Next == Field \/ NoField \/ Return

Spec == Init /\ [][Next]_vars

----------------------------------------------------------------------------
(* Properties.                                                             *)

\* Piece k as its sender meant it.
Split(k) == FirstFrom(pieces[k], 1, IsEquals)
TagOf(k) == FromChars(SubSeq(pieces[k], 1, Split(k) - 1), 0, IntMax, TRUE)
ValueOf(k) == SubSeq(pieces[k], Split(k) + 1, Len(pieces[k]))

\* A piece without '=' is damaged; one that the datagram does not hold to its
\* end is cut; the one after a damaged piece is swallowed by it.
Damaged(k) == Split(k) > Len(pieces[k])
Cut(k) == Len(Text(SubSeq(pieces, 1, k))) - 1 > Len(buffer)
Intact(k) == ~Damaged(k) /\ ~Cut(k) /\ (k = 1 \/ ~Damaged(k - 1))

\* The order the intact pieces alone describe.
Describe(o, k) == IF Intact(k) THEN Store(o, TagOf(k), ValueOf(k)) ELSE o
Described == FoldLeftDomain(Describe, NewOrder, pieces)

FieldsOf(tag) ==
    {f \in DOMAIN NewOrder : \/ f \in {"msg_type", "msg_type_char"} /\ tag = 35
                             \/ f = "cl_ord_id" /\ tag = 11
                             \/ f = "symbol" /\ tag = 55
                             \/ f = "side" /\ tag = 54
                             \/ f = "quantity" /\ tag = 38
                             \/ f = "price" /\ tag = 44
                             \/ f = "seq_num" /\ tag = 34}

Representable(o) ==
    /\ {o.side, o.quantity} \subseteq (-IntMax - 1)..IntMax
    /\ o.seq_num \in 0..SeqMax
    /\ o.price \in (-2^(PriceWidth - 1))..(2^(PriceWidth - 1) - 1)

\* Damage is local: a field of the order differs from what the intact pieces
\* say only if a damaged piece, the piece after it or the cut one has its tag.
\* In particular a complete, well-formed message is parsed as it was written,
\* and a datagram that ends early is right in all fields before the last.  The
\* parser stops at the end of the datagram, never past it, and what it stores
\* fits the types of the order.
DamageIsLocal ==
    Done => LET described == Described
            IN  /\ ptr = Len(buffer) + 1
                /\ Representable(order)
                /\ \A f \in DOMAIN NewOrder :
                      \/ order[f] = described[f]
                      \/ \E k \in DOMAIN pieces : ~Intact(k) /\ f \in FieldsOf(TagOf(k))

\* The price is the exact decimal, cut (not rounded) to Decimals places
\* towards zero, for every numeral that does not overflow.
IsNumeral(text) ==
    /\ text # <<>>
    /\ \A k \in DOMAIN text : NotDigit(text[k]) => text[k] = "." \/ (text[k] = "-" /\ k = 1)
    /\ \A j, k \in DOMAIN text : text[j] = "." /\ text[k] = "." => j = k
Exact(text) ==
    LET digits == SelectSeq(text, LAMBDA c : ~NotDigit(c))
        places == Len(text) - FirstFrom(text, 1, LAMBDA c : c = ".")
        size == (Number(digits) * 10^Decimals) \div (IF places < 0 THEN 1 ELSE 10^places)
    IN  IF text[1] = "-" THEN -size ELSE size
PriceTruncated ==
    Done /\ Len(pieces) = 1 /\ Intact(1) /\ TagOf(1) = 44 /\ IsNumeral(ValueOf(1))
         /\ Exact(ValueOf(1)) \in (-2^(PriceWidth - 1))..(2^(PriceWidth - 1) - 1)
      => order.price = Exact(ValueOf(1))
=============================================================================

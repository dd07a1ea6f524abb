------------------------------ MODULE IndexKey ------------------------------
(***************************************************************************)
(* The byte keys of an index: encode_key gives the bytes a value is stored *)
(* and searched under, decode_key the value back.  A byte string is a      *)
(* sequence of numbers below Base, compared like the Vec<u8> of the code.  *)
(* A value is its type and its payload: <<>> for null, <<n>> for an        *)
(* integer, <<0>> or <<1>> for a bool, the bytes of a string.  That the    *)
(* bytes of a string key are UTF-8 is left out.                            *)
(***************************************************************************)
EXTENDS Integers, SequencesExt

CONSTANTS Base,         \* the number of values of a byte (256)
          IntBytes      \* the bytes of an integer (8)

ASSUME KeyAssumption ==
          /\ Base \in Nat /\ Base >= 4 /\ Base % 2 = 0
          /\ IntBytes \in Nat \ {0}

Bytes == 0..(Base - 1)

(* Base to the power of n.                                                 *)
Power[n \in Nat] == IF n = 0 THEN 1 ELSE Base * Power[n - 1]

Width == Power[IntBytes]
Half == Width \div 2

NullValue == [type |-> "null", payload |-> <<>>]
IntValue(n) == [type |-> "int", payload |-> <<n>>]
BoolValue(b) == [type |-> "bool", payload |-> <<b>>]
StringValue(bytes) == [type |-> "string", payload |-> bytes]

IsKeyValue(v) ==
    \/ v = NullValue
    \/ v.type = "int" /\ \E n \in (-Half)..(Half - 1) : v = IntValue(n)
    \/ v.type = "bool" /\ \E b \in {0, 1} : v = BoolValue(b)
    \/ v.type = "string" /\ v.payload \in Seq(Bytes) /\ v = StringValue(v.payload)

Tag == [null |-> 0, int |-> 1, string |-> 2, bool |-> 3]

(* Seeded defect: the sign bit stays as it is.                             *)
KeepSign(u) == u

(* u ^ 0x8000_0000_0000_0000                                               *)
FlipSign(u) == IF u < Half THEN u + Half ELSE u - Half

(* to_be_bytes and from_be_bytes                                           *)
BigEndian(u) == [i \in 1..IntBytes |-> (u \div Power[IntBytes - i]) % Base]
FromBigEndian(bytes) ==
    LET upTo[i \in 0..Len(bytes)] ==
            IF i = 0 THEN 0 ELSE upTo[i - 1] * Base + bytes[i]
    IN  upTo[Len(bytes)]

encode_key(v) ==
    <<Tag[v.type]>> \o
        IF v.type = "int" THEN BigEndian(FlipSign(v.payload[1] % Width)) ELSE v.payload

AsSigned(u) == IF u < Half THEN u ELSE u - Width

(* Undecodable when the tag is unknown or the payload has another length.  *)
Undecodable == [type |-> "error", payload |-> <<>>]

decode_key(bytes) ==
    LET payload == Tail(bytes)
    IN  CASE bytes = <<>> -> Undecodable
          [] bytes = <<Tag.null>> -> NullValue
          [] bytes # <<>> /\ bytes[1] = Tag.int /\ Len(payload) = IntBytes ->
                IntValue(AsSigned(FlipSign(FromBigEndian(payload))))
          [] bytes # <<>> /\ bytes[1] = Tag.string -> StringValue(payload)
          [] bytes \in {<<Tag.bool, 0>>, <<Tag.bool, 1>>} -> BoolValue(payload[1])
          [] OTHER -> Undecodable

(* left < right of two Vec<u8>: byte by byte, a prefix before the longer.  *)
KeyLess(left, right) ==
    \/ IsStrictPrefix(left, right)
    \/ \E i \in DOMAIN left \cap DOMAIN right :
          /\ left[i] < right[i]
          /\ \A j \in 1..(i - 1) : left[j] = right[j]
=============================================================================

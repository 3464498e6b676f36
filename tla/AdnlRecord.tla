----------------------------- MODULE AdnlRecord -----------------------------
(***************************************************************************)
(* From the record of a domain to a .adnl host: what the chain resolvers   *)
(* accept (ParseADNLAddress, the Resolve methods) and what ResolveToADNL   *)
(* makes of it.  Pure operators.                                           *)
(*                                                                         *)
(* A text is a sequence of characters, a character is a byte.  The address *)
(* has ADNLAddressSize bytes, 32 in the code; three hex digits stand for   *)
(* sixteen.  An address is its sequence of hex digits.                     *)
(***************************************************************************)
EXTENDS Integers, Sequences, FiniteSets, SequencesExt

CONSTANT ADNLAddressSize
ASSUME SizeOK == ADNLAddressSize \in Nat \ {0}

HexDigits == {"0", "1", "a"}
NUL       == "NUL"
Blank     == "blank"
Chars     == HexDigits \union {"x", "X", "z", Blank, NUL}
hexLen    == 2 * ADNLAddressSize
NoAddress == <<"none">>

-----------------------------------------------------------------------------
(* Helpers of package strings and encoding/hex.                            *)

TrimPrefix(s, p) == IF IsPrefix(p, s) THEN SubSeq(s, Len(p) + 1, Len(s)) ELSE s

TrimSpace(s) ==
  LET keep == {i \in 1..Len(s) : s[i] # Blank}
  IN IF keep = {} THEN <<>> ELSE SubSeq(s, Min(keep), Max(keep))
TrimRightNUL(s) ==
  LET keep == {i \in 1..Len(s) : s[i] # NUL}
  IN IF keep = {} THEN <<>> ELSE SubSeq(s, 1, Max(keep))

\* The two digits of a byte, another pair for each.
HexOf(b) == CASE b = "0" -> <<"0", "1">> [] b = "1" -> <<"0", "a">>
              [] b = "a" -> <<"1", "0">> [] b = "x" -> <<"1", "a">>
              [] b = "X" -> <<"a", "0">> [] b = "z" -> <<"a", "1">>
              [] b = Blank -> <<"1", "1">> [] b = NUL -> <<"0", "0">>
EncodeToString(bytes) ==
  [i \in 1..(2 * Len(bytes)) |-> HexOf(bytes[(i + 1) \div 2])[2 - (i % 2)]]

\* The bits of a hex text, the base32 characters of a sequence of bits, each
\* as its five bits, and the CRC16, of which only one bit is kept.
Nibble(d) == CASE d = "0" -> <<0, 0, 0, 0>> [] d = "1" -> <<0, 0, 0, 1>>
               [] d = "a" -> <<1, 0, 1, 0>>
Bits(h) == [i \in 1..(4 * Len(h)) |-> Nibble(h[(i + 3) \div 4])[((i - 1) % 4) + 1]]
Base32(bits) ==
  [i \in 1..((Len(bits) + 4) \div 5) |->
     [j \in 1..5 |-> LET k == 5 * (i - 1) + j IN IF k <= Len(bits) THEN bits[k] ELSE 0]]
Checksum(bits) == <<Cardinality({i \in DOMAIN bits : bits[i] = 1}) % 2>>

-----------------------------------------------------------------------------
(* The conversions of package resolver.                                    *)

\* Both spellings, one after the other.
StripHexPrefix(s) == TrimPrefix(TrimPrefix(s, <<"0", "x">>), <<"0", "X">>)

\* ParseADNLAddress: the digits, or no address.
ParseADNLAddress(s) ==
  LET h == StripHexPrefix(s)
  IN IF Len(h) = hexLen /\ Range(h) \subseteq HexDigits THEN h ELSE NoAddress

\* Resolve of ENS: the text record as it is stored, if it is not empty and
\* parses.  A name without a resolver and a call that fails are like an empty
\* record.
ResolveENS(text) ==
  IF text # <<>> /\ ParseADNLAddress(text) # NoAddress THEN text ELSE NoAddress

\* Resolve of Space ID, where the text record is read with a contract call.
ResolveSpaceID(text) ==
  IF text # <<>> /\ ParseADNLAddress(text) # NoAddress THEN text ELSE NoAddress

\* Resolve of the Unstoppable Domains: the first value that getMany returns.
ResolveUD(values) ==
  IF values # <<>> /\ ParseADNLAddress(Head(values)) # NoAddress
    THEN Head(values) ELSE NoAddress

\* Mutant: a later record is tried when the first does not parse.
ResolveBNSAny(zone) ==
  LET ok == SelectSeq(zone, LAMBDA e : e.name = "_adnl" /\ ParseADNLAddress(e.txt) # NoAddress)
  IN IF ok # <<>> THEN Head(ok).txt ELSE NoAddress

\* Resolve of BNS: the first _adnl TXT record of the zone file, if it parses.
\* A name that does not exist or has no zone file is like an empty zone.
ResolveBNS(zone) ==
  LET adnl == {i \in DOMAIN zone : zone[i].name = "_adnl"}
      txt  == zone[Min(adnl)].txt
  IN IF adnl # {} /\ ParseADNLAddress(txt) # NoAddress THEN txt ELSE NoAddress

SnsText(payload) == StripHexPrefix(TrimRightNUL(TrimSpace(payload)))

\* Mutant: the padding is cut before the length is compared.
TakesRawTrimmed(payload) ==
  /\ Len(SnsText(payload)) # hexLen
  /\ Len(TrimRightNUL(payload)) >= ADNLAddressSize

\* Whether SNS takes the first bytes of the account's data for the address.
TakesRaw(payload) ==
  Len(SnsText(payload)) # hexLen /\ Len(payload) >= ADNLAddressSize

\* Resolve of SNS, after the account's header: a hex text, or raw bytes.
ResolveSNS(payload) ==
  LET h == IF TakesRaw(payload)
             THEN EncodeToString(SubSeq(payload, 1, ADNLAddressSize))
             ELSE SnsText(payload)
  IN IF payload # <<>> /\ ParseADNLAddress(h) # NoAddress THEN h ELSE NoAddress

\* SerializeADNLAddress: the prefix byte 0x2d, the address and the checksum in
\* base32, of which the first character is cut off.
SerializeADNLAddress(a) ==
  LET bits == <<0, 0, 1, 0, 1, 1, 0, 1>> \o Bits(a)
  IN Tail(Base32(bits \o Checksum(bits)))

\* ResolveToADNL: decodes what Resolve returned and names the host.
HostOf(rawHex) ==
  LET h == StripHexPrefix(rawHex)
  IN IF Range(h) \subseteq HexDigits /\ Len(h) = hexLen
       THEN SerializeADNLAddress(h) ELSE NoAddress

-----------------------------------------------------------------------------
(* What a record means, apart from the code.                               *)

Addresses == [1..hexLen -> HexDigits]
\* What may stand before the digits: the code takes off "0x" and then "0X"
\* (resolver.go:321-322), so besides "with or without 0x" (resolver.go:318)
\* it also accepts one after the other.
HexPrefixes == {<<>>, <<"0", "x">>, <<"0", "X">>, <<"0", "x", "0", "X">>}

\* The texts that stand for address a.
TextsOf(a) == {p \o a : p \in HexPrefixes}

\* The records of a chain of kind k: a text, the values of getMany, the
\* entries of a zone file, the data of an account.
RecordsOf(k) ==
  CASE k \in {"ens", "sid", "sns"} -> Seq(Chars)
    [] k = "ud"  -> Seq(Seq(Chars))
    [] k = "bns" -> Seq([name: STRING, txt: Seq(Chars)])

\* The text that the record of a chain of kind k gives, none if it is the
\* empty text.
TextIn(k, record) ==
  CASE k \in {"ens", "sid"} -> record
    [] k = "ud"  -> IF record = <<>> THEN <<>> ELSE record[1]
    [] k = "bns" ->
         IF \A i \in DOMAIN record : record[i].name # "_adnl" THEN <<>>
         ELSE record[CHOOSE i \in DOMAIN record :
                       /\ record[i].name = "_adnl"
                       /\ \A j \in 1..(i - 1) : record[j].name # "_adnl"].txt

\* The payloads that stand for a: a text with blanks around it or zero bytes
\* after it, or the bytes of a with nothing but zero bytes after them.
Padded(s, k, c) == s \o [i \in 1..k |-> c]
IsPayloadOf(payload, a) ==
  \/ \E k \in 0..Len(payload) :
       \E s \in TextsOf(a) : payload = Padded(s, k, NUL)
  \/ TrimSpace(payload) \in TextsOf(a)
  \/ /\ Len(payload) >= ADNLAddressSize
     /\ EncodeToString(SubSeq(payload, 1, ADNLAddressSize)) = a
     /\ Len(TrimRightNUL(payload)) <= ADNLAddressSize
=============================================================================

------------------------------ MODULE Decoding ------------------------------
(***************************************************************************)
(* How the options of a source are decoded (common.WeakDecodeMap): texts   *)
(* by the UnmarshalText of the type (common/enums.go), anything else as    *)
(* what it is.  A number therefore passes as the constant of that value,   *)
(* or as one that no part of the program knows.                            *)
(***************************************************************************)
EXTENDS Naturals, Sequences

(* The value of an option.  Texts are given in lower case: strings.ToLower. *)
Absent    == <<"absent">>
Text(t)   == <<"text", t>>
Number(n) == <<"number", n>>

Invalid == "invalid"
Unknown == "unknown"

(* The constants of each type in their order, and what is read as them. *)
Family       == <<"IPv4", "IPv6">>
IPSelectMode == <<"first", "shortest", "last">>
IPFilterFlag == <<"nonglobalunicast", "private", "noeui64", "temporary", "baddad", "deprecated">>

FamilyTexts == [IPv4 |-> {"4", "v4", "ipv4"}, IPv6 |-> {"6", "v6", "ipv6"}]

SelectTexts == [first |-> {"first"}, shortest |-> {"shortest"}, last |-> {"last"}]

FlagTexts ==
  [nonglobalunicast |-> {"nonglobalunicast", "non-global-unicast", "allow-non-global-unicast"},
   private          |-> {"private", "allow-private"},
   noeui64          |-> {"noeui64", "no-eui64", "excludeeui64", "exclude-eui64"},
   temporary        |-> {"temporary", "allowtemporary", "allow-temporary"},
   baddad           |-> {"baddad", "allowbaddad", "bad-dad", "allow-bad-dad"},
   deprecated       |-> {"deprecated", "allowdeprecated", "allow-deprecated"}]

(* UnmarshalText: there is one constant at most that t is read as.         *)
Unmarshal(t, texts) ==
  IF \E c \in DOMAIN texts : t \in texts[c] THEN CHOOSE c \in DOMAIN texts : t \in texts[c]
  ELSE Invalid

(* An option that may be missing, of which the first constant is the zero. *)
Decode(v, consts, texts) ==
  IF v = Absent THEN consts[1]
  ELSE IF v[1] = "text" THEN Unmarshal(v[2], texts)
  ELSE IF v[2] < Len(consts) THEN consts[v[2] + 1] ELSE Unknown

(* The flags are bits, and a number may have several of them.              *)
Bits(n) == {IPFilterFlag[k] : k \in {j \in DOMAIN IPFilterFlag : (n \div 2 ^ (j - 1)) % 2 = 1}}

DecodeFlag(v) == IF v[1] = "text" THEN {Unmarshal(v[2], FlagTexts)} ELSE Bits(v[2])
=============================================================================

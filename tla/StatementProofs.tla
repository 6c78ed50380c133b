-------------------------- MODULE StatementProofs --------------------------
(***************************************************************************)
(* Proofs about what Parser is built from, for statements of any length:   *)
(* the words of legal statements and their tokens, the trees read back     *)
(* from tokens, what each part and element of a pattern takes, and the     *)
(* language of a pattern. None of it is about workers.                     *)
(***************************************************************************)
EXTENDS Parser, Induction

LEMMA PatternsAre ==
  /\ Len(ALL_PATTERNS) = 4 /\ DOMAIN ALL_PATTERNS = 1 .. 4
  /\ ALL_PATTERNS[1] = CREATE_DATABASE_SQL_PATTERN
  /\ ALL_PATTERNS[2] = CREATE_TABLE_SQL_PATTERN
  /\ ALL_PATTERNS[3] = INSERT_INTO_SQL_PATTERN
  /\ ALL_PATTERNS[4] = SELECT_FROM_ONE_TABLE_SQL_PATTERN
BY DEF ALL_PATTERNS

LEMMA Pattern1 ==
  /\ Len(CREATE_DATABASE_SQL_PATTERN) = 1 /\ DOMAIN CREATE_DATABASE_SQL_PATTERN = 1 .. 1
  /\ CREATE_DATABASE_SQL_PATTERN[1]
       = Tokens(<<Keyword("CREATE"), Keyword("DATABASE"), AnyIdentifier, Mark(";")>>)
BY DEF CREATE_DATABASE_SQL_PATTERN

LEMMA Pattern2 ==
  /\ Len(CREATE_TABLE_SQL_PATTERN) = 4 /\ DOMAIN CREATE_TABLE_SQL_PATTERN = 1 .. 4
  /\ CREATE_TABLE_SQL_PATTERN[1]
       = Tokens(<<Keyword("CREATE"), Keyword("TABLE"), AnyIdentifier, Mark("("), AnyIdentifier>>)
  /\ CREATE_TABLE_SQL_PATTERN[2] = VALUE_TYPE
  /\ CREATE_TABLE_SQL_PATTERN[3] = NEXT_COLUMN
  /\ CREATE_TABLE_SQL_PATTERN[4] = Tokens(<<Mark(")"), Mark(";")>>)
BY DEF CREATE_TABLE_SQL_PATTERN

LEMMA Pattern3 ==
  /\ Len(INSERT_INTO_SQL_PATTERN) = 5 /\ DOMAIN INSERT_INTO_SQL_PATTERN = 1 .. 5
  /\ INSERT_INTO_SQL_PATTERN[1]
       = Tokens(<<Keyword("INSERT"), Keyword("INTO"), AnyIdentifier, Mark("("), AnyIdentifier>>)
  /\ INSERT_INTO_SQL_PATTERN[2] = NEXT_ID
  /\ INSERT_INTO_SQL_PATTERN[3]
       = Tokens(<<Mark(")"), Keyword("VALUES"), Mark("("), AnyValue>>)
  /\ INSERT_INTO_SQL_PATTERN[4] = NEXT_VALUE
  /\ INSERT_INTO_SQL_PATTERN[5] = Tokens(<<Mark(")"), Mark(";")>>)
BY DEF INSERT_INTO_SQL_PATTERN

LEMMA Pattern4 ==
  /\ Len(SELECT_FROM_ONE_TABLE_SQL_PATTERN) = 7
  /\ DOMAIN SELECT_FROM_ONE_TABLE_SQL_PATTERN = 1 .. 7
  /\ SELECT_FROM_ONE_TABLE_SQL_PATTERN[1] = Tokens(<<Keyword("SELECT")>>)
  /\ SELECT_FROM_ONE_TABLE_SQL_PATTERN[2] = FIRST_COL
  /\ SELECT_FROM_ONE_TABLE_SQL_PATTERN[3] = NEXT_ID
  /\ SELECT_FROM_ONE_TABLE_SQL_PATTERN[4] = Tokens(<<Keyword("FROM"), AnyIdentifier>>)
  /\ SELECT_FROM_ONE_TABLE_SQL_PATTERN[5] = CONDITION
  /\ SELECT_FROM_ONE_TABLE_SQL_PATTERN[6] = NEXT_CONDITION
  /\ SELECT_FROM_ONE_TABLE_SQL_PATTERN[7] = Tokens(<<Mark(";")>>)
BY DEF SELECT_FROM_ONE_TABLE_SQL_PATTERN

(* The parts of an element, each with its fields.                          *)
IsCertain(part, templates) ==
  part.range = Empty /\ part.templates = templates /\ part.next = <<>>

IsRange(part, range, templates, next) ==
  part.range = range /\ part.templates = templates /\ part.next = next

Comparer == <<Mark(">"), Mark("<"), Mark("=")>>

Unequal == <<Mark("!"), Mark("=")>>

LEMMA TokensParts ==
  ASSUME NEW t
  PROVE  /\ Tokens(t).necessary /\ Len(Tokens(t).parts) = 1 /\ DOMAIN Tokens(t).parts = 1 .. 1
         /\ IsCertain(Tokens(t).parts[1], t)
BY DEF Tokens, Needed, Certain, IsCertain

LEMMA ListParts ==
  /\ ~NEXT_ID.necessary /\ Len(NEXT_ID.parts) = 1
  /\ IsCertain(NEXT_ID.parts[1], <<Mark(","), AnyIdentifier>>)
  /\ ~NEXT_VALUE.necessary /\ Len(NEXT_VALUE.parts) = 1
  /\ IsCertain(NEXT_VALUE.parts[1], <<Mark(","), AnyValue>>)
BY DEF NEXT_ID, NEXT_VALUE, Optional, Certain, IsCertain

LEMMA TypeParts ==
  /\ VALUE_TYPE.necessary /\ Len(VALUE_TYPE.parts) = 1
  /\ IsRange(VALUE_TYPE.parts[1], "VALUE_TYPE", TypeKeywords, <<>>)
  /\ ~NEXT_COLUMN.necessary /\ Len(NEXT_COLUMN.parts) = 2
  /\ IsCertain(NEXT_COLUMN.parts[1], <<Mark(","), AnyIdentifier>>)
  /\ IsRange(NEXT_COLUMN.parts[2], "NEXT_VALUE_TYPE", TypeKeywords, <<>>)
BY DEF VALUE_TYPE, NEXT_COLUMN, Needed, Optional, Certain, OneOf, IsCertain, IsRange

LEMMA ListDomains ==
  /\ DOMAIN NEXT_ID.parts = 1 .. 1 /\ DOMAIN NEXT_VALUE.parts = 1 .. 1
  /\ DOMAIN VALUE_TYPE.parts = 1 .. 1 /\ DOMAIN NEXT_COLUMN.parts = 1 .. 2
<1>1. /\ \A a : DOMAIN <<a>> = 1 .. 1
      /\ \A a, b : DOMAIN <<a, b>> = 1 .. 2
  OBVIOUS
<1>2. /\ \A parts : Optional(parts).parts = parts
      /\ \A parts : Needed(parts).parts = parts
  BY DEF Optional, Needed
<1>3. /\ \A parts, n : DOMAIN parts = n => DOMAIN Optional(parts).parts = n
      /\ \A parts, n : DOMAIN parts = n => DOMAIN Needed(parts).parts = n
  BY <1>2, Zenon
<1>4. \A a : DOMAIN Optional(<<a>>).parts = 1 .. 1
  BY <1>1, <1>3, Zenon
<1>5. \A a : DOMAIN Needed(<<a>>).parts = 1 .. 1
  BY <1>1, <1>3, Zenon
<1>6. \A a, b : DOMAIN Optional(<<a, b>>).parts = 1 .. 2
  <2> SUFFICES ASSUME NEW a, NEW b
               PROVE  DOMAIN Optional(<<a, b>>).parts = 1 .. 2
    OBVIOUS
  <2>1. PICK q : q = <<a, b>>
    OBVIOUS
  <2>2. DOMAIN q = 1 .. 2
    BY <2>1, <1>1, Zenon
  <2>3. DOMAIN Optional(q).parts = 1 .. 2
    BY <2>2, <1>3, Zenon
  <2> QED
    BY <2>1, <2>3, Zenon
<1>7. DOMAIN NEXT_ID.parts = 1 .. 1 /\ DOMAIN NEXT_VALUE.parts = 1 .. 1
  BY <1>4, Zenon DEF NEXT_ID, NEXT_VALUE
<1>8. DOMAIN VALUE_TYPE.parts = 1 .. 1 /\ DOMAIN NEXT_COLUMN.parts = 1 .. 2
  BY <1>5, <1>6, Zenon DEF VALUE_TYPE, NEXT_COLUMN
<1> QED
  BY <1>7, <1>8

LEMMA FirstColParts ==
  /\ FIRST_COL.necessary /\ Len(FIRST_COL.parts) = 1 /\ DOMAIN FIRST_COL.parts = 1 .. 1
  /\ IsRange(FIRST_COL.parts[1], "FIRST_COL", <<Mark("*")>>, <<AnyIdentifier>>)
BY DEF FIRST_COL, Needed, OneOf, IsRange

LEMMA ConditionParts ==
  /\ ~CONDITION.necessary /\ Len(CONDITION.parts) = 3 /\ DOMAIN CONDITION.parts = 1 .. 3
  /\ IsCertain(CONDITION.parts[1], <<Keyword("WHERE"), AnyIdentifier>>)
  /\ IsRange(CONDITION.parts[2], "COMPARER", Comparer, Unequal)
  /\ IsCertain(CONDITION.parts[3], <<AnyValue>>)
  /\ ~NEXT_CONDITION.necessary /\ Len(NEXT_CONDITION.parts) = 4
  /\ DOMAIN NEXT_CONDITION.parts = 1 .. 4
  /\ IsRange(NEXT_CONDITION.parts[1], "OPERATOR", <<Keyword("AND"), Keyword("OR")>>, <<>>)
  /\ IsCertain(NEXT_CONDITION.parts[2], <<AnyIdentifier>>)
  /\ IsRange(NEXT_CONDITION.parts[3], "NEXT_COMPARER", Comparer, Unequal)
  /\ IsCertain(NEXT_CONDITION.parts[4], <<AnyValue>>)
BY DEF CONDITION, NEXT_CONDITION, COMPARER, Optional, Certain, OneOf, IsCertain, IsRange,
       Comparer, Unequal

(* What fits a template; where there is no token, none does.               *)
LEMMA FitsWhat ==
  ASSUME NEW token
  PROVE  /\ \A m : Fits(Mark(m), token) <=> token = Mark(m)
         /\ \A k : Fits(Keyword(k), token) <=> token = Keyword(k)
         /\ Fits(AnyIdentifier, token) <=> token.type = "IDENTIFIER_T"
         /\ Fits(AnyValue, token) <=> IsValue(token)
BY DEF Fits, Mark, Keyword, AnyIdentifier, AnyValue, Identifier, Token

LEMMA NothingFits ==
  /\ \A m : NoToken # Mark(m)
  /\ \A k : NoToken # Keyword(k)
  /\ NoToken.type # "IDENTIFIER_T" /\ ~IsValue(NoToken)
BY DEF NoToken, Mark, Keyword, Token, IsValue

Needle(a) == ~Fits(a, NoToken)

LEMMA Needles ==
  /\ \A m : Needle(Mark(m))
  /\ \A k : Needle(Keyword(k))
  /\ Needle(AnyIdentifier) /\ Needle(AnyValue)
BY FitsWhat, NothingFits DEF Needle

(* The elements of the patterns, told apart by the number of their parts:  *)
(* tokens, or one range; a further column; a first and a further condition. *)
IsTokens(element) ==
  /\ Len(element.parts) = 1 /\ DOMAIN element.parts = 1 .. 1
  /\ \E t : /\ IsCertain(element.parts[1], t)
            /\ Len(t) \in Nat \ {0} /\ DOMAIN t = 1 .. Len(t)
            /\ \A i \in DOMAIN t : Needle(t[i])

IsChoice(element) ==
  /\ Len(element.parts) = 1 /\ DOMAIN element.parts = 1 .. 1
  /\ \/ IsRange(element.parts[1], "VALUE_TYPE", TypeKeywords, <<>>)
     \/ IsRange(element.parts[1], "FIRST_COL", <<Mark("*")>>, <<AnyIdentifier>>)

IsElement(element) ==
  \/ IsTokens(element)
  \/ IsChoice(element)
  \/ element = NEXT_COLUMN
  \/ element = CONDITION
  \/ element = NEXT_CONDITION

LEMMA TokensThese ==
  ASSUME NEW t, Len(t) \in Nat \ {0}, DOMAIN t = 1 .. Len(t), \A i \in DOMAIN t : Needle(t[i])
  PROVE  IsElement(Tokens(t))
BY TokensParts DEF IsElement, IsTokens

LEMMA Tokens1 ==
  ASSUME NEW a,
         Needle(a)
  PROVE  IsElement(Tokens(<<a>>))
<1> DEFINE t == <<a>>
<1>1. Len(t) \in Nat \ {0} /\ DOMAIN t = 1 .. Len(t)
  OBVIOUS
<1>2. DOMAIN t = {1} /\ t[1] = a
  OBVIOUS
<1>3. \A i \in DOMAIN t : Needle(t[i])
  BY <1>2, Zenon
<1> HIDE DEF t
<1>4. IsElement(Tokens(t))
  BY <1>1, <1>3, TokensThese
<1> QED
  BY <1>4, Zenon DEF t

LEMMA Tokens2 ==
  ASSUME NEW a, NEW b,
         Needle(a), Needle(b)
  PROVE  IsElement(Tokens(<<a, b>>))
<1> DEFINE t == <<a, b>>
<1>1. Len(t) \in Nat \ {0} /\ DOMAIN t = 1 .. Len(t)
  OBVIOUS
<1>2. DOMAIN t = {1, 2} /\ t[1] = a /\ t[2] = b
  OBVIOUS
<1>3. \A i \in DOMAIN t : Needle(t[i])
  BY <1>2, Zenon
<1> HIDE DEF t
<1>4. IsElement(Tokens(t))
  BY <1>1, <1>3, TokensThese
<1> QED
  BY <1>4, Zenon DEF t

LEMMA Tokens4 ==
  ASSUME NEW a, NEW b, NEW c, NEW d,
         Needle(a), Needle(b), Needle(c), Needle(d)
  PROVE  IsElement(Tokens(<<a, b, c, d>>))
<1> DEFINE t == <<a, b, c, d>>
<1>1. Len(t) \in Nat \ {0} /\ DOMAIN t = 1 .. Len(t)
  OBVIOUS
<1>2. DOMAIN t = {1, 2, 3, 4} /\ t[1] = a /\ t[2] = b /\ t[3] = c /\ t[4] = d
  OBVIOUS
<1>3. \A i \in DOMAIN t : Needle(t[i])
  BY <1>2, Zenon
<1> HIDE DEF t
<1>4. IsElement(Tokens(t))
  BY <1>1, <1>3, TokensThese
<1> QED
  BY <1>4, Zenon DEF t

LEMMA Tokens5 ==
  ASSUME NEW a, NEW b, NEW c, NEW d, NEW e,
         Needle(a), Needle(b), Needle(c), Needle(d), Needle(e)
  PROVE  IsElement(Tokens(<<a, b, c, d, e>>))
<1> DEFINE t == <<a, b, c, d, e>>
<1>1. Len(t) \in Nat \ {0} /\ DOMAIN t = 1 .. Len(t)
  OBVIOUS
<1>2. DOMAIN t = {1, 2, 3, 4, 5} /\ t[1] = a /\ t[2] = b /\ t[3] = c /\ t[4] = d /\ t[5] = e
  OBVIOUS
<1>3. \A i \in DOMAIN t : Needle(t[i])
  BY <1>2, Zenon
<1> HIDE DEF t
<1>4. IsElement(Tokens(t))
  BY <1>1, <1>3, TokensThese
<1> QED
  BY <1>4, Zenon DEF t

LEMMA ListsAre == IsElement(NEXT_ID) /\ IsElement(NEXT_VALUE)
<1>1. /\ Len(<<Mark(","), AnyIdentifier>>) \in Nat \ {0}
      /\ DOMAIN <<Mark(","), AnyIdentifier>> = 1 .. Len(<<Mark(","), AnyIdentifier>>)
      /\ Len(<<Mark(","), AnyValue>>) \in Nat \ {0}
      /\ DOMAIN <<Mark(","), AnyValue>> = 1 .. Len(<<Mark(","), AnyValue>>)
  OBVIOUS
<1>3. /\ DOMAIN <<Mark(","), AnyIdentifier>> = {1, 2} /\ DOMAIN <<Mark(","), AnyValue>> = {1, 2}
      /\ <<Mark(","), AnyIdentifier>>[1] = Mark(",") /\ <<Mark(","), AnyIdentifier>>[2] = AnyIdentifier
      /\ <<Mark(","), AnyValue>>[1] = Mark(",") /\ <<Mark(","), AnyValue>>[2] = AnyValue
  OBVIOUS
<1>4. /\ \A i \in DOMAIN <<Mark(","), AnyIdentifier>> : Needle(<<Mark(","), AnyIdentifier>>[i])
      /\ \A i \in DOMAIN <<Mark(","), AnyValue>> : Needle(<<Mark(","), AnyValue>>[i])
  BY <1>3, Needles, Zenon
<1>2. IsTokens(NEXT_ID) /\ IsTokens(NEXT_VALUE)
  BY <1>1, <1>4, ListParts, ListDomains, Zenon DEF IsTokens
<1> QED
  BY <1>2 DEF IsElement

LEMMA OthersAre ==
  /\ IsElement(VALUE_TYPE) /\ IsElement(FIRST_COL)
  /\ IsElement(NEXT_COLUMN) /\ IsElement(CONDITION) /\ IsElement(NEXT_CONDITION)
BY TypeParts, FirstColParts, ListDomains, Zenon DEF IsElement, IsChoice

LEMMA PartsDomain ==
  ASSUME NEW element, IsElement(element)
  PROVE  DOMAIN element.parts = 1 .. Len(element.parts)
BY TypeParts, ConditionParts, ListDomains, Zenon DEF IsElement, IsTokens, IsChoice

IsPattern(pattern) ==
  /\ Len(pattern) \in 1 .. 7 /\ DOMAIN pattern = 1 .. Len(pattern)
  /\ \A e \in DOMAIN pattern : IsElement(pattern[e])

LEMMA PatternElements ==
  ASSUME NEW k \in 1 .. 4
  PROVE  IsPattern(ALL_PATTERNS[k])
<1>1. IsPattern(CREATE_DATABASE_SQL_PATTERN)
  <2> DEFINE P == CREATE_DATABASE_SQL_PATTERN
  <2>0. IsElement(P[1])
    BY Pattern1, Tokens4, Needles, Zenon
  <2>1. \A e \in 1 .. 1 : IsElement(P[e])
    <3>1. \A e \in 1 .. 1 : e = 1
      OBVIOUS
    <3> QED
      BY <2>0, <3>1, Zenon
  <2>2. Len(P) \in 1 .. 7
    <3>1. Len(P) = 1
      BY Pattern1, Zenon
    <3> QED
      BY <3>1
  <2>3. DOMAIN P = 1 .. Len(P) /\ \A e \in DOMAIN P : IsElement(P[e])
    BY <2>1, Pattern1, Zenon
  <2> QED
    BY <2>2, <2>3, Zenon DEF IsPattern
<1>2. IsPattern(CREATE_TABLE_SQL_PATTERN)
  <2> DEFINE P == CREATE_TABLE_SQL_PATTERN
  <2>1. IsElement(P[1]) /\ IsElement(P[2]) /\ IsElement(P[3]) /\ IsElement(P[4])
    BY Pattern2, Tokens2, Tokens5, OthersAre, Needles, Zenon
  <2>2. \A e \in 1 .. 4 : e = 1 \/ e = 2 \/ e = 3 \/ e = 4
    OBVIOUS
  <2>3. \A e \in 1 .. 4 : IsElement(P[e])
    BY <2>1, <2>2, Zenon
  <2>4. Len(P) \in 1 .. 7
    <3>1. Len(P) = 4
      BY Pattern2, Zenon
    <3> QED
      BY <3>1
  <2>5. DOMAIN P = 1 .. Len(P) /\ \A e \in DOMAIN P : IsElement(P[e])
    BY <2>3, Pattern2, Zenon
  <2> QED
    BY <2>4, <2>5, Zenon DEF IsPattern
<1>3. IsPattern(INSERT_INTO_SQL_PATTERN)
  <2> DEFINE P == INSERT_INTO_SQL_PATTERN
  <2>1. IsElement(P[1]) /\ IsElement(P[2]) /\ IsElement(P[3]) /\ IsElement(P[4]) /\ IsElement(P[5])
    BY Pattern3, Tokens2, Tokens4, Tokens5, ListsAre, Needles, Zenon
  <2>2. \A e \in 1 .. 5 : e = 1 \/ e = 2 \/ e = 3 \/ e = 4 \/ e = 5
    OBVIOUS
  <2>3. \A e \in 1 .. 5 : IsElement(P[e])
    BY <2>1, <2>2, Zenon
  <2>4. Len(P) \in 1 .. 7
    <3>1. Len(P) = 5
      BY Pattern3, Zenon
    <3> QED
      BY <3>1
  <2>5. DOMAIN P = 1 .. Len(P) /\ \A e \in DOMAIN P : IsElement(P[e])
    BY <2>3, Pattern3, Zenon
  <2> QED
    BY <2>4, <2>5, Zenon DEF IsPattern
<1>4. IsPattern(SELECT_FROM_ONE_TABLE_SQL_PATTERN)
  <2> DEFINE P == SELECT_FROM_ONE_TABLE_SQL_PATTERN
  <2>1. /\ IsElement(P[1]) /\ IsElement(P[2]) /\ IsElement(P[3]) /\ IsElement(P[4])
        /\ IsElement(P[5]) /\ IsElement(P[6]) /\ IsElement(P[7])
    BY Pattern4, Tokens1, Tokens2, ListsAre, OthersAre, Needles, Zenon
  <2>2. \A e \in 1 .. 7 : e = 1 \/ e = 2 \/ e = 3 \/ e = 4 \/ e = 5 \/ e = 6 \/ e = 7
    OBVIOUS
  <2>3. \A e \in 1 .. 7 : IsElement(P[e])
    BY <2>1, <2>2, Zenon
  <2>4. Len(P) \in 1 .. 7
    <3>1. Len(P) = 7
      BY Pattern4, Zenon
    <3> QED
      BY <3>1
  <2>5. DOMAIN P = 1 .. Len(P) /\ \A e \in DOMAIN P : IsElement(P[e])
    BY <2>3, Pattern4, Zenon
  <2> QED
    BY <2>4, <2>5, Zenon DEF IsPattern
<1>5. k = 1 \/ k = 2 \/ k = 3 \/ k = 4
  OBVIOUS
<1> QED
  BY <1>1, <1>2, <1>3, <1>4, <1>5, PatternsAre, Zenon

-----------------------------------------------------------------------------
(* Tokens of words. Keywords are no identifiers' names. (The provers do    *)
(* not know that a string is in STRING: those that occur are named.)       *)
Texts == STRING \cup KEY_WORDS \cup {",", ";", "(", ")", "*", "!", "=", "<", ">", "!="}

TokenType == {"KEYWORD_T", "IDENTIFIER_T", "NUMBER_T", "STRING_T", "OPERATOR_T"}

IsToken(t) ==
  /\ t \in [type : TokenType, value : Texts]
  /\ t.type = "IDENTIFIER_T" => t.value \notin KEY_WORDS

AnyToken == {t \in [type : TokenType, value : Texts] : IsToken(t)}

LEMMA Check1 ==
  ASSUME NEW a, NEW input, NEW o
  PROVE  CertainCheck(<<a>>, input, o) <=> Fits(a, At(input, o + 1))
<1>1. DOMAIN <<a>> = {1} /\ <<a>>[1] = a
  OBVIOUS
<1> QED
  BY <1>1, Zenon DEF CertainCheck

LEMMA Check2 ==
  ASSUME NEW a, NEW b, NEW input, NEW o
  PROVE  CertainCheck(<<a, b>>, input, o)
           <=> Fits(a, At(input, o + 1)) /\ Fits(b, At(input, o + 2))
<1>1. DOMAIN <<a, b>> = {1, 2} /\ <<a, b>>[1] = a /\ <<a, b>>[2] = b
  OBVIOUS
<1> QED
  BY <1>1, Zenon DEF CertainCheck

LEMMA Check4 ==
  ASSUME NEW a, NEW b, NEW c, NEW d, NEW input, NEW o
  PROVE  CertainCheck(<<a, b, c, d>>, input, o)
           <=> /\ Fits(a, At(input, o + 1)) /\ Fits(b, At(input, o + 2))
               /\ Fits(c, At(input, o + 3)) /\ Fits(d, At(input, o + 4))
<1> DEFINE t == <<a, b, c, d>>
<1>1. DOMAIN t = {1, 2, 3, 4} /\ t[1] = a /\ t[2] = b /\ t[3] = c /\ t[4] = d
  OBVIOUS
<1> QED
  BY <1>1, Zenon DEF CertainCheck

LEMMA Check5 ==
  ASSUME NEW a, NEW b, NEW c, NEW d, NEW e, NEW input, NEW o
  PROVE  CertainCheck(<<a, b, c, d, e>>, input, o)
           <=> /\ Fits(a, At(input, o + 1)) /\ Fits(b, At(input, o + 2))
               /\ Fits(c, At(input, o + 3)) /\ Fits(d, At(input, o + 4))
               /\ Fits(e, At(input, o + 5))
<1> DEFINE t == <<a, b, c, d, e>>
<1>1. /\ DOMAIN t = {1, 2, 3, 4, 5}
      /\ t[1] = a /\ t[2] = b /\ t[3] = c /\ t[4] = d /\ t[5] = e
  OBVIOUS
<1> QED
  BY <1>1, Zenon DEF CertainCheck

LEMMA AtWhat ==
  ASSUME NEW input \in Seq(AnyToken), NEW i \in Nat
  PROVE  /\ i \in 1 .. Len(input) => At(input, i) = input[i] /\ IsToken(At(input, i))
         /\ i \notin 1 .. Len(input) => At(input, i) = NoToken
<1>1. DOMAIN input = 1 .. Len(input) /\ \A j \in 1 .. Len(input) : input[j] \in AnyToken
  BY LenProperties
<1> QED
  BY <1>1 DEF At, AnyToken

-----------------------------------------------------------------------------
(* What the ranges find.                                                   *)
IsType(token) ==
  token.type = "KEYWORD_T" \/ token.value \in {"INT", "FLOAT", "VCHAR", "VECTOR"}

IsConnective(token) == token.type = "KEYWORD_T" \/ token.value \in {"AND", "OR"}

IsColumn(token) == token = Mark("*") \/ token.type = "IDENTIFIER_T"

(* The length of a comparer at an offset; 0 is none.                       *)
CompareLength(input, o) ==
  IF At(input, o + 1) \in {Mark(">"), Mark("<"), Mark("=")} THEN 1
  ELSE IF At(input, o + 1) = Mark("!") /\ At(input, o + 2) = Mark("=") THEN 2
  ELSE 0

LEMMA InRange ==
  ASSUME NEW token
  PROVE  /\ (\E i \in DOMAIN TypeKeywords : FitsInRange(TypeKeywords[i], token)) <=> IsType(token)
         /\ (\E i \in DOMAIN <<Keyword("AND"), Keyword("OR")>> :
               FitsInRange(<<Keyword("AND"), Keyword("OR")>>[i], token)) <=> IsConnective(token)
         /\ (\E i \in DOMAIN <<Mark("*")>> : FitsInRange(<<Mark("*")>>[i], token))
              <=> token = Mark("*")
         /\ (\E i \in DOMAIN Comparer : FitsInRange(Comparer[i], token))
              <=> token \in {Mark(">"), Mark("<"), Mark("=")}
<1>1. /\ \A k : FitsInRange(Keyword(k), token) <=> token.type = "KEYWORD_T" \/ token.value = k
      /\ \A m : FitsInRange(Mark(m), token) <=> token = Mark(m)
  BY FitsWhat DEF FitsInRange, Keyword, Mark, Token
<1>2. /\ DOMAIN TypeKeywords = {1, 2, 3, 4}
      /\ TypeKeywords[1] = Keyword("INT") /\ TypeKeywords[2] = Keyword("FLOAT")
      /\ TypeKeywords[3] = Keyword("VCHAR") /\ TypeKeywords[4] = Keyword("VECTOR")
  BY DEF TypeKeywords
<1>3. /\ DOMAIN <<Keyword("AND"), Keyword("OR")>> = {1, 2}
      /\ <<Keyword("AND"), Keyword("OR")>>[1] = Keyword("AND")
      /\ <<Keyword("AND"), Keyword("OR")>>[2] = Keyword("OR")
  OBVIOUS
<1>4. DOMAIN <<Mark("*")>> = {1} /\ <<Mark("*")>>[1] = Mark("*")
  OBVIOUS
<1>5. /\ DOMAIN Comparer = {1, 2, 3}
      /\ Comparer[1] = Mark(">") /\ Comparer[2] = Mark("<") /\ Comparer[3] = Mark("=")
  BY DEF Comparer
<1>6. (\E i \in DOMAIN TypeKeywords : FitsInRange(TypeKeywords[i], token)) <=> IsType(token)
  BY <1>1, <1>2, ZenonT(60) DEF IsType
<1>7. (\E i \in DOMAIN <<Keyword("AND"), Keyword("OR")>> :
         FitsInRange(<<Keyword("AND"), Keyword("OR")>>[i], token)) <=> IsConnective(token)
  BY <1>1, <1>3, Zenon DEF IsConnective
<1>8. (\E i \in DOMAIN <<Mark("*")>> : FitsInRange(<<Mark("*")>>[i], token)) <=> token = Mark("*")
  BY <1>1, <1>4, Zenon
<1>9. (\E i \in DOMAIN Comparer : FitsInRange(Comparer[i], token))
        <=> token \in {Mark(">"), Mark("<"), Mark("=")}
  BY <1>1, <1>5, Zenon
<1> QED
  BY <1>6, <1>7, <1>8, <1>9, Zenon

LEMMA RangeLengths ==
  ASSUME NEW input \in Seq(AnyToken), NEW o \in Nat, o < Len(input), NEW part, NEW range
  PROVE  /\ IsRange(part, range, TypeKeywords, <<>>)
              => RangeLength(part, input, o) = IF IsType(At(input, o + 1)) THEN 1 ELSE 0
         /\ IsRange(part, range, <<Keyword("AND"), Keyword("OR")>>, <<>>)
              => RangeLength(part, input, o) = IF IsConnective(At(input, o + 1)) THEN 1 ELSE 0
         /\ IsRange(part, range, <<Mark("*")>>, <<AnyIdentifier>>)
              => RangeLength(part, input, o) = IF IsColumn(At(input, o + 1)) THEN 1 ELSE 0
         /\ IsRange(part, range, Comparer, Unequal)
              => RangeLength(part, input, o) = CompareLength(input, o)
<1> DEFINE token == input[o + 1]
<1>1. token = At(input, o + 1)
  <2>1. o + 1 \in 1 .. Len(input)
    BY LenProperties
  <2> QED
    BY <2>1, AtWhat
<1> HIDE DEF token
<1>2. RangeLength(part, input, o) =
        IF \E i \in DOMAIN part.templates : FitsInRange(part.templates[i], token) THEN 1
        ELSE IF part.next # <<>> /\ CertainCheck(part.next, input, o) THEN Len(part.next) ELSE 0
  BY Zenon DEF RangeLength, token
<1>3. ASSUME IsRange(part, range, TypeKeywords, <<>>)
      PROVE  RangeLength(part, input, o) = IF IsType(token) THEN 1 ELSE 0
  BY <1>2, <1>3, InRange, Zenon DEF IsRange
<1>4. ASSUME IsRange(part, range, <<Keyword("AND"), Keyword("OR")>>, <<>>)
      PROVE  RangeLength(part, input, o) = IF IsConnective(token) THEN 1 ELSE 0
  BY <1>2, <1>4, InRange, Zenon DEF IsRange
<1>5. ASSUME IsRange(part, range, <<Mark("*")>>, <<AnyIdentifier>>)
      PROVE  RangeLength(part, input, o) = IF IsColumn(token) THEN 1 ELSE 0
  <2>1. /\ <<AnyIdentifier>> # <<>> /\ Len(<<AnyIdentifier>>) = 1
        /\ CertainCheck(<<AnyIdentifier>>, input, o) <=> token.type = "IDENTIFIER_T"
    BY <1>1, Check1, FitsWhat
  <2> QED
    BY <1>2, <1>5, <2>1, InRange, Zenon DEF IsRange, IsColumn
<1>6. ASSUME IsRange(part, range, Comparer, Unequal)
      PROVE  RangeLength(part, input, o) = CompareLength(input, o)
  <2>1. /\ Unequal # <<>> /\ Len(Unequal) = 2
        /\ CertainCheck(Unequal, input, o) <=> token = Mark("!") /\ At(input, o + 2) = Mark("=")
    <3>1. <<Mark("!"), Mark("=")>> # <<>> /\ Len(<<Mark("!"), Mark("=")>>) = 2
      OBVIOUS
    <3>2. CertainCheck(<<Mark("!"), Mark("=")>>, input, o)
            <=> token = Mark("!") /\ At(input, o + 2) = Mark("=")
      <4>1. CertainCheck(<<Mark("!"), Mark("=")>>, input, o)
              <=> Fits(Mark("!"), At(input, o + 1)) /\ Fits(Mark("="), At(input, o + 2))
        BY Check2, Zenon
      <4> QED
        BY <1>1, <4>1, FitsWhat, Zenon
    <3> QED
      BY <3>1, <3>2, Zenon DEF Unequal
  <2>2. CompareLength(input, o) = IF token \in {Mark(">"), Mark("<"), Mark("=")} THEN 1
          ELSE IF token = Mark("!") /\ At(input, o + 2) = Mark("=") THEN 2 ELSE 0
    BY <1>1, Zenon DEF CompareLength
  <2>3. part.templates = Comparer /\ part.next = Unequal
    BY <1>6 DEF IsRange
  <2>4. (\E i \in DOMAIN part.templates : FitsInRange(part.templates[i], token))
          <=> token \in {Mark(">"), Mark("<"), Mark("=")}
    BY <2>3, InRange, Zenon
  <2>5. CASE token \in {Mark(">"), Mark("<"), Mark("=")}
    BY <1>2, <2>2, <2>4, <2>5, Zenon
  <2>6. CASE token \notin {Mark(">"), Mark("<"), Mark("=")}
    BY <1>2, <2>1, <2>2, <2>3, <2>4, <2>6, Zenon
  <2> QED
    BY <2>5, <2>6
<1> QED
  BY <1>1, <1>3, <1>4, <1>5, <1>6, Zenon

(* The parts of each kind of element.                                      *)
ColumnKind(parts) ==
  /\ Len(parts) = 2
  /\ IsCertain(parts[1], <<Mark(","), AnyIdentifier>>)
  /\ IsRange(parts[2], "NEXT_VALUE_TYPE", TypeKeywords, <<>>)

WhereKind(parts) ==
  /\ Len(parts) = 3
  /\ IsCertain(parts[1], <<Keyword("WHERE"), AnyIdentifier>>)
  /\ IsRange(parts[2], "COMPARER", Comparer, Unequal)
  /\ IsCertain(parts[3], <<AnyValue>>)

NextKind(parts) ==
  /\ Len(parts) = 4
  /\ IsRange(parts[1], "OPERATOR", <<Keyword("AND"), Keyword("OR")>>, <<>>)
  /\ IsCertain(parts[2], <<AnyIdentifier>>)
  /\ IsRange(parts[3], "NEXT_COMPARER", Comparer, Unequal)
  /\ IsCertain(parts[4], <<AnyValue>>)

TokensKind(parts) ==
  /\ Len(parts) = 1 /\ parts[1].range = Empty /\ parts[1].next = <<>>
  /\ Len(parts[1].templates) \in Nat \ {0}
  /\ DOMAIN parts[1].templates = 1 .. Len(parts[1].templates)
  /\ \A i \in DOMAIN parts[1].templates : Needle(parts[1].templates[i])

ChoiceKind(parts) ==
  /\ Len(parts) = 1
  /\ \/ IsRange(parts[1], "VALUE_TYPE", TypeKeywords, <<>>)
     \/ IsRange(parts[1], "FIRST_COL", <<Mark("*")>>, <<AnyIdentifier>>)

LEMMA Kinds ==
  ASSUME NEW element, IsElement(element)
  PROVE  LET parts == element.parts
         IN  \/ TokensKind(parts) \/ ChoiceKind(parts) \/ ColumnKind(parts)
             \/ WhereKind(parts) \/ NextKind(parts)
<1>1. ASSUME IsTokens(element) PROVE TokensKind(element.parts)
  <2>1. PICK t : /\ IsCertain(element.parts[1], t)
                 /\ Len(t) \in Nat \ {0} /\ DOMAIN t = 1 .. Len(t)
            /\ \A i \in DOMAIN t : Needle(t[i])
    BY <1>1, Zenon DEF IsTokens
  <2> QED
    BY <1>1, <2>1, Zenon DEF IsTokens, IsCertain, TokensKind
<1>2. ASSUME IsChoice(element) PROVE ChoiceKind(element.parts)
  BY <1>2, Zenon DEF IsChoice, ChoiceKind
<1>3. ColumnKind(NEXT_COLUMN.parts) /\ WhereKind(CONDITION.parts) /\ NextKind(NEXT_CONDITION.parts)
  BY TypeParts, ConditionParts, Zenon DEF ColumnKind, WhereKind, NextKind
<1> QED
  BY <1>1, <1>2, <1>3, Zenon DEF IsElement

LEMMA Lengths1 == ASSUME NEW a PROVE Len(<<a>>) = 1
OBVIOUS

LEMMA Lengths2 == ASSUME NEW a, NEW b PROVE Len(<<a, b>>) = 2
OBVIOUS

LEMMA OneTo ==
  /\ \A i \in 1 .. 1 : i = 1
  /\ \A i \in 1 .. 2 : i = 1 \/ i = 2
  /\ \A i \in 1 .. 3 : i = 1 \/ i = 2 \/ i = 3
  /\ \A i \in 1 .. 4 : i = 1 \/ i = 2 \/ i = 3 \/ i = 4
OBVIOUS

LEMMA RangesNamed == \A r \in RangeName : r # Empty
BY Zenon DEF RangeName, Empty

LEMMA PatternLengths ==
  \A k \in 1 .. 4 : Len(ALL_PATTERNS[k]) \in 1 .. 7
BY PatternElements, Zenon DEF IsPattern

(* Where tokens fit, there are that many.                                  *)
LEMMA CheckedInside ==
  ASSUME NEW input \in Seq(AnyToken), NEW t, Len(t) \in Nat \ {0}, DOMAIN t = 1 .. Len(t),
         \A i \in DOMAIN t : Needle(t[i]), NEW o \in Nat, CertainCheck(t, input, o)
  PROVE  o + Len(t) <= Len(input)
<1>1. Len(t) \in DOMAIN t /\ o + Len(t) \in Nat /\ o + Len(t) >= 1 /\ Len(input) \in Nat
  BY LenProperties
<1>2. Fits(t[Len(t)], At(input, o + Len(t))) /\ Needle(t[Len(t)])
  BY <1>1, Zenon DEF CertainCheck
<1>3. At(input, o + Len(t)) # NoToken
  BY <1>2, Zenon DEF Needle
<1>4. o + Len(t) \in 1 .. Len(input)
  BY <1>1, <1>3, AtWhat
<1> QED
  BY <1>4

-----------------------------------------------------------------------------
(* Lists of lists, one behind the other.                                   *)
IsFlattening(f, seqs, n) ==
  /\ FlattenSeq(seqs) = f[n]
  /\ f[0] = <<>>
  /\ \A i \in 1 .. n : f[i] = f[i - 1] \o seqs[i]

LEMMA FlattenRecursion ==
  ASSUME NEW S, NEW n \in Nat, NEW seqs \in [1 .. n -> Seq(S)]
  PROVE  \E f \in [0 .. n -> Seq(S)] : IsFlattening(f, seqs, n)
<1> DEFINE V == Seq(S)
           step == [q \in Nat \X V |-> IF q[1] \in 1 .. n THEN q[2] \o seqs[q[1]] ELSE q[2]]
           IsFlatten(f) == f = [i \in 1 .. n |-> IF i = 1 THEN seqs[i] ELSE f[i - 1] \o seqs[i]]
<1>1. step \in [Nat \X V -> V]
  <2>1. \A q \in Nat \X V : q[2] \in V /\ (q[1] \in 1 .. n => q[2] \o seqs[q[1]] \in V)
    BY ConcatProperties
  <2> QED
    BY <2>1
<1>2. <<>> \in V /\ Len(seqs) = n
  BY EmptySeq, FunctionIsSeq
<1>3. PICK f \in [0 .. n -> V] : IsRecursion(f, n, <<>>, step)
  <2> HIDE DEF V, step
  <2> QED
    BY <1>1, <1>2, RecursionExists
<1>4. \A i \in 0 .. n : f[i] = IF i = 0 THEN <<>> ELSE step[<<i, f[i - 1]>>]
  BY <1>3 DEF IsRecursion
<1>5. \A i \in 1 .. n : f[i] = f[i - 1] \o seqs[i]
  <2> TAKE i \in 1 .. n
  <2>1. i \in 0 .. n /\ i # 0 /\ i \in Nat /\ i - 1 \in 0 .. n
    OBVIOUS
  <2>2. <<i, f[i - 1]>> \in Nat \X V
    BY <2>1
  <2>3. step[<<i, f[i - 1]>>] = f[i - 1] \o seqs[i]
    BY <2>2
  <2> HIDE DEF step
  <2> QED
    BY <1>4, <2>1, <2>3
<1> HIDE DEF step
<1>6. f[0] = <<>>
  <2>1. 0 \in 0 .. n
    OBVIOUS
  <2> QED
    BY <1>4, <2>1, Zenon
<1>7. CASE n = 0
  <2>1. FlattenSeq(seqs) = seqs
    BY <1>2, <1>7, Zenon DEF FlattenSeq
  <2>2. seqs = <<>>
    BY <1>7, <1>2, FunctionIsSeq, EmptySeq
  <2> QED
    BY <1>5, <1>6, <1>7, <2>1, <2>2 DEF IsFlattening
<1>8. CASE n # 0
  <2>1. n \in 1 .. n /\ 1 \in 1 .. n /\ 1 - 1 = 0
    BY <1>8
  <2>2. f[1] = seqs[1]
    <3>1. f[1] = <<>> \o seqs[1] /\ seqs[1] \in Seq(S)
      BY <1>5, <1>6, <2>1
    <3> QED
      BY <3>1, ConcatEmptySeq
  <2> DEFINE g == [i \in 1 .. n |-> f[i]]
  <2>11. g = [i \in 1 .. n |-> g[i]] /\ \A i \in 1 .. n : g[i] = f[i]
    OBVIOUS
  <2> HIDE DEF g
  <2>12. ASSUME NEW i \in 1 .. n PROVE g[i] = IF i = 1 THEN seqs[i] ELSE g[i - 1] \o seqs[i]
    <3>1. i # 1 => i - 1 \in 1 .. n
      OBVIOUS
    <3>2. i # 1 => g[i] = g[i - 1] \o seqs[i]
      BY <1>5, <2>11, <3>1, Zenon
    <3>3. i = 1 => g[i] = seqs[i]
      BY <2>2, <2>11, Zenon
    <3> QED
      BY <3>2, <3>3, Zenon
  <2>3. IsFlatten(g)
    BY <2>11, <2>12, Zenon
  <2> DEFINE k == CHOOSE h : IsFlatten(h)
  <2>4. IsFlatten(k)
    BY <2>3, Zenon
  <2>5. FlattenSeq(seqs) = k[n]
    BY <1>2, <1>8, Zenon DEF FlattenSeq
  <2> HIDE DEF k
  <2>6. \A i \in 1 .. n : k[i] = IF i = 1 THEN seqs[i] ELSE k[i - 1] \o seqs[i]
    BY <2>4
  <2> DEFINE T == {i \in Nat : i + 1 <= n => k[i + 1] = f[i + 1]}
  <2>7. 0 \in T
    BY <2>1, <2>2, <2>6
  <2>8. ASSUME NEW i \in Nat, i \in T PROVE i + 1 \in T
    <3>1. CASE (i + 1) + 1 <= n
      <4>1. /\ (i + 1) + 1 \in 1 .. n /\ (i + 1) + 1 # 1 /\ ((i + 1) + 1) - 1 = i + 1
            /\ k[i + 1] = f[i + 1]
        BY <2>8, <3>1
      <4>2. /\ k[(i + 1) + 1] = k[((i + 1) + 1) - 1] \o seqs[(i + 1) + 1]
            /\ f[(i + 1) + 1] = f[((i + 1) + 1) - 1] \o seqs[(i + 1) + 1]
        BY <1>5, <2>6, <4>1, Zenon
      <4>3. k[(i + 1) + 1] = f[(i + 1) + 1]
        BY <4>1, <4>2, Zenon
      <4> QED
        BY <4>3
    <3> QED
      BY <3>1
  <2> HIDE DEF T
  <2>9. n - 1 \in T
    <3>1. n - 1 \in Nat
      BY <1>8
    <3> QED
      BY <2>7, <2>8, <3>1, NatInd
  <2>10. k[n] = f[n]
    BY <1>8, <2>9 DEF T
  <2> QED
    BY <1>5, <1>6, <2>5, <2>10 DEF IsFlattening
<1> QED
  BY <1>7, <1>8

(* Where each of them starts.                                              *)
IsStart(start, seqs, n) ==
  /\ start \in [0 .. n -> Nat] /\ start[0] = 0
  /\ \A i \in 1 .. n : start[i] = start[i - 1] + Len(seqs[i])

IsFlat(s, start, seqs, n) ==
  /\ Len(s) = start[n]
  /\ \A i \in 1 .. n : \A j \in 1 .. Len(seqs[i]) :
       start[i - 1] + j \in 1 .. start[n] /\ s[start[i - 1] + j] = seqs[i][j]

LEMMA FlattenBlocks ==
  ASSUME NEW S, NEW n \in Nat, NEW seqs \in [1 .. n -> Seq(S)]
  PROVE  /\ FlattenSeq(seqs) \in Seq(S)
         /\ \E start : IsStart(start, seqs, n) /\ IsFlat(FlattenSeq(seqs), start, seqs, n)
<1>0. PICK f \in [0 .. n -> Seq(S)] : IsFlattening(f, seqs, n)
  BY FlattenRecursion
<1>1. /\ FlattenSeq(seqs) = f[n]
      /\ f[0] = <<>>
      /\ \A i \in 1 .. n : f[i] = f[i - 1] \o seqs[i]
  BY <1>0, Zenon DEF IsFlattening
<1> DEFINE start == [i \in 0 .. n |-> Len(f[i])]
<1>2. \A i \in 0 .. n : Len(f[i]) \in Nat
  BY LenProperties
<1>3. \A i \in 1 .. n : Len(f[i]) = Len(f[i - 1]) + Len(seqs[i])
  <2> TAKE i \in 1 .. n
  <2>0. i - 1 \in 0 .. n
    OBVIOUS
  <2>1. f[i - 1] \in Seq(S) /\ seqs[i] \in Seq(S) /\ f[i] = f[i - 1] \o seqs[i]
    BY <1>1, <2>0, Zenon
  <2> QED
    BY <2>1, ConcatProperties
<1>4. IsStart(start, seqs, n)
  BY <1>1, <1>2, <1>3, EmptySeq DEF IsStart
<1> DEFINE T == {m \in Nat : m <= n => IsFlat(f[m], start, seqs, m)}
<1>5. 0 \in T
  <2>1. IsFlat(f[0], start, seqs, 0)
    BY DEF IsFlat
  <2> QED
    BY <2>1
<1>6. ASSUME NEW m \in Nat, m \in T PROVE m + 1 \in T
  <2>1. CASE m + 1 <= n
    <3>1. /\ m \in 0 .. n /\ m + 1 \in 1 .. n /\ (m + 1) - 1 = m
          /\ IsFlat(f[m], start, seqs, m)
      BY <1>6, <2>1
    <3>2. /\ f[m] \in Seq(S) /\ seqs[m + 1] \in Seq(S) /\ f[m + 1] = f[m] \o seqs[m + 1]
          /\ start[m] = Len(f[m]) /\ start[m + 1] = Len(f[m + 1])
          /\ Len(f[m]) \in Nat /\ Len(seqs[m + 1]) \in Nat
      <4>1. f[m + 1] = f[m] \o seqs[m + 1]
        BY <1>1, <3>1, Zenon
      <4>2. f[m] \in Seq(S) /\ seqs[m + 1] \in Seq(S)
        BY <3>1
      <4> QED
        BY <3>1, <4>1, <4>2, LenProperties
    <3>3. /\ Len(f[m + 1]) = Len(f[m]) + Len(seqs[m + 1])
          /\ \A j \in 1 .. Len(f[m]) + Len(seqs[m + 1]) :
               f[m + 1][j] = IF j <= Len(f[m]) THEN f[m][j] ELSE seqs[m + 1][j - Len(f[m])]
      <4> DEFINE a == f[m]
                 b == seqs[m + 1]
      <4>1. a \in Seq(S) /\ b \in Seq(S)
        BY <3>2, Zenon
      <4> HIDE DEF a, b
      <4>2. /\ Len(a \o b) = Len(a) + Len(b)
            /\ \A j \in 1 .. Len(a) + Len(b) :
                 (a \o b)[j] = IF j <= Len(a) THEN a[j] ELSE b[j - Len(a)]
        BY <4>1, ConcatProperties
      <4> QED
        BY <3>2, <4>2, Zenon DEF a, b
    <3>4. \A i \in 1 .. m : \A j \in 1 .. Len(seqs[i]) :
            start[i - 1] + j \in 1 .. start[m] /\ f[m][start[i - 1] + j] = seqs[i][j]
      BY <3>1 DEF IsFlat
    <3> HIDE DEF start
    <3>5. \A i \in 1 .. m + 1 : \A j \in 1 .. Len(seqs[i]) :
            start[i - 1] + j \in 1 .. start[m + 1] /\ f[m + 1][start[i - 1] + j] = seqs[i][j]
      <4> TAKE i \in 1 .. m + 1
      <4> TAKE j \in 1 .. Len(seqs[i])
      <4>1. CASE i \in 1 .. m
        <5>1. start[i - 1] + j \in 1 .. start[m] /\ f[m][start[i - 1] + j] = seqs[i][j]
          BY <3>4, <4>1
        <5> DEFINE x == start[i - 1] + j
        <5>2. x \in 1 .. Len(f[m]) + Len(seqs[m + 1]) /\ x <= Len(f[m])
          <6>1. \A a, b \in Nat : \A i1 \in 1 .. a : i1 \in 1 .. a + b /\ i1 <= a
            OBVIOUS
          <6>2. x \in 1 .. Len(f[m])
            BY <3>2, <5>1
          <6> QED
            BY <3>2, <6>1, <6>2
        <5>3. f[m + 1][x] = f[m][x]
          BY <3>3, <5>2
        <5>4. start[m + 1] = Len(f[m]) + Len(seqs[m + 1])
          BY <3>2, <3>3
        <5> QED
          BY <5>1, <5>2, <5>3, <5>4
      <4>2. CASE i = m + 1
        <5>1. i - 1 = m /\ j \in 1 .. Len(seqs[m + 1])
          BY <4>2
        <5> DEFINE x == Len(f[m]) + j
        <5>2. /\ x \in 1 .. Len(f[m]) + Len(seqs[m + 1])
              /\ ~(x <= Len(f[m])) /\ x - Len(f[m]) = j
          <6>1. \A a, b \in Nat : \A i1 \in 1 .. b :
                  a + i1 \in 1 .. a + b /\ ~(a + i1 <= a) /\ (a + i1) - a = i1
            OBVIOUS
          <6> QED
            BY <3>2, <5>1, <6>1
        <5>3. f[m + 1][x] = seqs[m + 1][j]
          BY <3>3, <5>2
        <5>4. start[m + 1] = Len(f[m]) + Len(seqs[m + 1]) /\ start[m] = Len(f[m])
          BY <3>2, <3>3
        <5>5. start[i - 1] + j = x /\ seqs[i][j] = seqs[m + 1][j]
          BY <4>2, <5>1, <5>4
        <5> QED
          BY <5>2, <5>3, <5>4, <5>5
      <4> QED
        BY <4>1, <4>2
    <3>6. IsFlat(f[m + 1], start, seqs, m + 1)
      BY <3>2, <3>5 DEF IsFlat
    <3> QED
      BY <3>6
  <2> QED
    BY <2>1
<1> HIDE DEF T
<1>7. n \in T
  BY <1>5, <1>6, NatInd
<1>8. IsFlat(f[n], start, seqs, n)
  BY <1>7 DEF T
<1> QED
  BY <1>1, <1>4, <1>8

-----------------------------------------------------------------------------
(* Statements are lists of words.                                          *)
AnyWord == [class : {"word", "digits", "quoted", "mark", "unclosed"}, text : Texts]

LEMMA TextsAre ==
  ASSUME NEW text \in Texts
  PROVE  /\ Text("word", text) \in AnyWord /\ Text("mark", text) \in AnyWord
         /\ Marked(text) \in Seq(AnyWord) /\ Len(Marked(text)) = 1 /\ Marked(text)[1] = Text("mark", text)
         /\ Literal(text) \in Seq(AnyWord) /\ Len(Literal(text)) = 1
         /\ Literal(text)[1] \in {Text("digits", text), Text("quoted", text)}
<1>1. \A c \in {"word", "mark", "digits", "quoted"} : Text(c, text) \in AnyWord
  BY DEF Text, AnyWord
<1>2. \A w \in AnyWord : <<w>> \in Seq(AnyWord) /\ Len(<<w>>) = 1 /\ <<w>>[1] = w
  OBVIOUS
<1>3. Text("word", text) \in AnyWord /\ Text("mark", text) \in AnyWord
  BY <1>1
<1>4. Marked(text) \in Seq(AnyWord) /\ Len(Marked(text)) = 1 /\ Marked(text)[1] = Text("mark", text)
  BY <1>2, <1>3, Zenon DEF Marked
<1> DEFINE l == Text(IF text \in DOMAIN StoF THEN "digits" ELSE "quoted", text)
<1>5. l \in {Text("digits", text), Text("quoted", text)} /\ Literal(text) = <<l>>
  BY Zenon DEF Literal
<1>6. l \in AnyWord
  BY <1>1, <1>5
<1> HIDE DEF l
<1>7. Literal(text) \in Seq(AnyWord) /\ Len(Literal(text)) = 1 /\ Literal(text)[1] = l
  BY <1>2, <1>5, <1>6, Zenon
<1> QED
  BY <1>3, <1>4, <1>5, <1>7, Zenon

LEMMA MarksAre ==
  /\ Marked(",") \in Seq(AnyWord) /\ Marked(";") \in Seq(AnyWord) /\ Marked("(") \in Seq(AnyWord)
  /\ Marked(")") \in Seq(AnyWord) /\ Marked("!") \in Seq(AnyWord) /\ Marked("=") \in Seq(AnyWord)
  /\ Marked("<") \in Seq(AnyWord) /\ Marked(">") \in Seq(AnyWord)
<1>1. \A m \in Texts : Marked(m) \in Seq(AnyWord)
  BY TextsAre
<1>2. /\ "," \in Texts /\ ";" \in Texts /\ "(" \in Texts /\ ")" \in Texts
      /\ "!" \in Texts /\ "=" \in Texts /\ "<" \in Texts /\ ">" \in Texts
  BY Zenon DEF Texts
<1> QED
  BY <1>1, <1>2, Zenon

LEMMA WordsAre ==
  ASSUME NEW texts \in Seq(Texts)
  PROVE  /\ Words(texts) \in Seq(AnyWord) /\ Len(Words(texts)) = Len(texts)
         /\ \A i \in 1 .. Len(texts) : Words(texts)[i] = Text("word", texts[i])
<1>1. DOMAIN texts = 1 .. Len(texts) /\ Len(texts) \in Nat /\ \A i \in 1 .. Len(texts) : texts[i] \in Texts
  BY LenProperties
<1>2. \A i \in 1 .. Len(texts) : Text("word", texts[i]) \in AnyWord
  BY <1>1, TextsAre
<1>3. /\ Words(texts) \in [1 .. Len(texts) -> AnyWord]
      /\ \A i \in 1 .. Len(texts) : Words(texts)[i] = Text("word", texts[i])
  BY <1>1, <1>2 DEF Words
<1> QED
  BY <1>1, <1>3, FunctionIsSeq

LEMMA ConcatIn ==
  ASSUME NEW S, NEW a \in Seq(S), NEW b \in Seq(S)
  PROVE  a \o b \in Seq(S)
BY ConcatProperties

LEMMA FiveIn ==
  ASSUME NEW S, NEW a \in Seq(S), NEW b \in Seq(S), NEW c \in Seq(S), NEW d \in Seq(S),
         NEW e \in Seq(S)
  PROVE  a \o b \o c \o d \o e \in Seq(S)
<1>1. a \o b \in Seq(S)
  BY ConcatIn
<1>2. a \o b \o c \in Seq(S)
  BY <1>1, ConcatIn
<1>3. a \o b \o c \o d \in Seq(S)
  BY <1>2, ConcatIn
<1> QED
  BY <1>3, ConcatIn

(* What is separated: each, and a comma before it unless it is the first.  *)
Separate(list) == [i \in DOMAIN list |-> IF i = 1 THEN list[i] ELSE Marked(",") \o list[i]]

LEMMA SeparatedAre ==
  ASSUME NEW n \in Nat, NEW list \in [1 .. n -> Seq(AnyWord)]
  PROVE  /\ Separated(list) = FlattenSeq(Separate(list))
         /\ Separate(list) \in [1 .. n -> Seq(AnyWord)]
         /\ Separated(list) \in Seq(AnyWord)
<1>1. Separated(list) = FlattenSeq(Separate(list))
  BY Zenon DEF Separated, Separate
<1>2. Marked(",") \in Seq(AnyWord)
  BY MarksAre
<1>3. \A i \in 1 .. n : Marked(",") \o list[i] \in Seq(AnyWord)
  BY <1>2, ConcatIn
<1>4. DOMAIN list = 1 .. n /\ \A i \in 1 .. n : list[i] \in Seq(AnyWord)
  OBVIOUS
<1>5. Separate(list) = [i \in 1 .. n |-> IF i = 1 THEN list[i] ELSE Marked(",") \o list[i]]
  BY <1>4, Zenon DEF Separate
<1>6. \A i \in 1 .. n : (IF i = 1 THEN list[i] ELSE Marked(",") \o list[i]) \in Seq(AnyWord)
  BY <1>3, <1>4, Zenon
<1>7. Separate(list) \in [1 .. n -> Seq(AnyWord)]
  BY <1>5, <1>6
<1> QED
  BY <1>1, <1>7, FlattenBlocks

NameWord(name) == Text(IF name = "*" THEN "mark" ELSE "word", name)

LEMMA NamesAre ==
  ASSUME NEW names \in Seq(Texts)
  PROVE  /\ Names(names) = Separated([i \in 1 .. Len(names) |-> <<NameWord(names[i])>>])
         /\ [i \in 1 .. Len(names) |-> <<NameWord(names[i])>>] \in [1 .. Len(names) -> Seq(AnyWord)]
         /\ Names(names) \in Seq(AnyWord)
<1>1. DOMAIN names = 1 .. Len(names) /\ Len(names) \in Nat /\ \A i \in 1 .. Len(names) : names[i] \in Texts
  BY LenProperties
<1>2. Names(names) = Separated([i \in 1 .. Len(names) |-> <<NameWord(names[i])>>])
  BY <1>1, Zenon DEF Names, NameWord
<1>3. \A i \in 1 .. Len(names) : <<NameWord(names[i])>> \in Seq(AnyWord)
  <2> TAKE i \in 1 .. Len(names)
  <2>1. NameWord(names[i]) \in {Text("mark", names[i]), Text("word", names[i])}
    BY Zenon DEF NameWord
  <2>2. NameWord(names[i]) \in AnyWord
    BY <1>1, <2>1, TextsAre
  <2> QED
    BY <2>2
<1>4. [i \in 1 .. Len(names) |-> <<NameWord(names[i])>>] \in [1 .. Len(names) -> Seq(AnyWord)]
  BY <1>3
<1> QED
  BY <1>1, <1>2, <1>4, SeparatedAre

ColumnWords(column) == Words(<<column.col_name, column.value_type>>)

LEMMA ColumnsAre ==
  ASSUME NEW columns \in Seq([col_name : Texts, value_type : Texts])
  PROVE  /\ [i \in DOMAIN columns |-> Words(<<columns[i].col_name, columns[i].value_type>>)]
              = [i \in 1 .. Len(columns) |-> ColumnWords(columns[i])]
         /\ [i \in 1 .. Len(columns) |-> ColumnWords(columns[i])] \in [1 .. Len(columns) -> Seq(AnyWord)]
         /\ Separated([i \in 1 .. Len(columns) |-> ColumnWords(columns[i])]) \in Seq(AnyWord)
<1>1. /\ DOMAIN columns = 1 .. Len(columns) /\ Len(columns) \in Nat
      /\ \A i \in 1 .. Len(columns) : columns[i] \in [col_name : Texts, value_type : Texts]
  BY LenProperties
<1>2. [i \in DOMAIN columns |-> Words(<<columns[i].col_name, columns[i].value_type>>)]
              = [i \in 1 .. Len(columns) |-> ColumnWords(columns[i])]
  BY <1>1, Zenon DEF ColumnWords
<1>3. \A i \in 1 .. Len(columns) : ColumnWords(columns[i]) \in Seq(AnyWord)
  <2> TAKE i \in 1 .. Len(columns)
  <2>1. <<columns[i].col_name, columns[i].value_type>> \in Seq(Texts)
    BY <1>1
  <2> QED
    BY <2>1, WordsAre DEF ColumnWords
<1>4. [i \in 1 .. Len(columns) |-> ColumnWords(columns[i])] \in [1 .. Len(columns) -> Seq(AnyWord)]
  BY <1>3
<1> QED
  BY <1>1, <1>2, <1>4, SeparatedAre

LEMMA ValuesAre ==
  ASSUME NEW values \in Seq(Texts)
  PROVE  /\ [i \in DOMAIN values |-> Literal(values[i])]
              = [i \in 1 .. Len(values) |-> Literal(values[i])]
         /\ [i \in 1 .. Len(values) |-> Literal(values[i])] \in [1 .. Len(values) -> Seq(AnyWord)]
         /\ Separated([i \in 1 .. Len(values) |-> Literal(values[i])]) \in Seq(AnyWord)
<1>1. /\ DOMAIN values = 1 .. Len(values) /\ Len(values) \in Nat
      /\ \A i \in 1 .. Len(values) : values[i] \in Texts
  BY LenProperties
<1>2. \A i \in 1 .. Len(values) : Literal(values[i]) \in Seq(AnyWord)
  BY <1>1, TextsAre
<1>3. [i \in 1 .. Len(values) |-> Literal(values[i])] \in [1 .. Len(values) -> Seq(AnyWord)]
  BY <1>2
<1> QED
  BY <1>1, <1>3, SeparatedAre

(* The trees, one by one, and their statements.                            *)
IsDatabase(tree) ==
  /\ tree.node = "CREATE_DATABASE_NODE" /\ tree.db_name \in Name
  /\ tree = [node |-> "CREATE_DATABASE_NODE", db_name |-> tree.db_name]

IsTable(tree) ==
  /\ tree.node = "CREATE_TABLE_NODE" /\ tree.table_name \in Name
  /\ tree.columns \in Seq([col_name : Name, value_type : ValueTypes \cup {"VECTOR"}])
  /\ tree.columns # <<>>
  /\ tree = [node |-> "CREATE_TABLE_NODE", table_name |-> tree.table_name, columns |-> tree.columns]

IsInsert(tree) ==
  /\ tree.node = "INSERT_INTO_TABLE_NODE" /\ tree.table_name \in Name
  /\ tree.columns \in Seq(Name) /\ tree.columns # <<>>
  /\ tree.values \in Seq(ValueText) /\ tree.values # <<>>
  /\ tree = [node |-> "INSERT_INTO_TABLE_NODE", table_name |-> tree.table_name,
             columns |-> tree.columns, values |-> tree.values]

IsSelect(tree) ==
  /\ tree.node = "SELECT_FROM_ONE_TABLE_NODE" /\ tree.table_name \in Name
  /\ (tree.columns \in Seq(Name) /\ tree.columns # <<>>) \/ tree.columns = <<"*">>
  /\ tree.compare_vector \in Seq([col : Name, condition : Comparators, compare_value : ValueText])
  /\ tree.operators \in Seq({"AND", "OR"})
  /\ \/ tree.compare_vector = <<>> /\ tree.operators = <<>>
     \/ Len(tree.compare_vector) = Len(tree.operators) + 1
  /\ tree = [node |-> "SELECT_FROM_ONE_TABLE_NODE", table_name |-> tree.table_name,
             columns |-> tree.columns, compare_vector |-> tree.compare_vector,
             operators |-> tree.operators]

LEMMA TreesAre ==
  ASSUME NEW tree \in Trees
  PROVE  IsDatabase(tree) \/ IsTable(tree) \/ IsInsert(tree) \/ IsSelect(tree)
<1>1. CASE tree \in [node : {"CREATE_DATABASE_NODE"}, db_name : Name]
  BY <1>1 DEF IsDatabase
<1>2. CASE tree \in [node : {"CREATE_TABLE_NODE"}, table_name : Name,
                     columns : Filled([col_name : Name, value_type : ValueTypes \cup {"VECTOR"}])]
  BY <1>2 DEF IsTable, Filled
<1>3. CASE tree \in [node : {"INSERT_INTO_TABLE_NODE"}, table_name : Name,
                     columns : Filled(Name), values : Filled(ValueText)]
  BY <1>3 DEF IsInsert, Filled
<1>4. CASE tree \in {t \in [node : {"SELECT_FROM_ONE_TABLE_NODE"}, table_name : Name,
                    columns : Filled(Name) \cup {<<"*">>},
                    compare_vector : Seq([col : Name, condition : Comparators,
                                          compare_value : ValueText]),
                    operators : Seq({"AND", "OR"})] :
            \/ t.compare_vector = <<>> /\ t.operators = <<>>
            \/ Len(t.compare_vector) = Len(t.operators) + 1}
  <2> DEFINE C == Seq([col : Name, condition : Comparators, compare_value : ValueText])
             O == Seq({"AND", "OR"})
             L == Filled(Name) \cup {<<"*">>}
  <2>1. /\ tree \in [node : {"SELECT_FROM_ONE_TABLE_NODE"}, table_name : Name, columns : L,
                     compare_vector : C, operators : O]
        /\ \/ tree.compare_vector = <<>> /\ tree.operators = <<>>
           \/ Len(tree.compare_vector) = Len(tree.operators) + 1
    BY <1>4, Zenon
  <2>2. (tree.columns \in Seq(Name) /\ tree.columns # <<>>) \/ tree.columns = <<"*">>
    <3>1. tree.columns \in L
      <4> HIDE DEF L, C, O
      <4> QED
        BY <2>1
    <3> QED
      BY <3>1, Zenon DEF Filled
  <2>3. /\ tree.node = "SELECT_FROM_ONE_TABLE_NODE" /\ tree.table_name \in Name
        /\ tree.compare_vector \in C /\ tree.operators \in O
        /\ tree = [node |-> "SELECT_FROM_ONE_TABLE_NODE", table_name |-> tree.table_name,
             columns |-> tree.columns, compare_vector |-> tree.compare_vector,
             operators |-> tree.operators]
    <3> HIDE DEF L, C, O
    <3> QED
      BY <2>1
  <2> QED
    BY <2>1, <2>2, <2>3, Zenon DEF IsSelect
<1> QED
  BY <1>1, <1>2, <1>3, <1>4, Zenon DEF Trees

LEMMA NamesTyped ==
  /\ Name \subseteq Texts /\ ValueText \subseteq Texts
  /\ \A name \in Name : name \notin KEY_WORDS /\ name # "*"
  /\ Comparators \subseteq Texts /\ {"AND", "OR"} \subseteq Texts
  /\ ValueTypes \cup {"VECTOR"} \subseteq KEY_WORDS /\ KEY_WORDS \subseteq Texts
  /\ "*" \in Texts
BY Zenon DEF Name, ValueText, Texts, Comparators, ValueTypes, KEY_WORDS

CompareWords(condition) ==
  IF condition = "!=" THEN Marked("!") \o Marked("=") ELSE Marked(condition)

LEMMA StatementsAre ==
  ASSUME NEW tree
  PROVE  /\ tree.node = "CREATE_DATABASE_NODE" =>
              Statement(tree) = Words(<<"CREATE", "DATABASE", tree.db_name>>) \o Marked(";")
         /\ tree.node = "CREATE_TABLE_NODE" =>
              Statement(tree) =
                Words(<<"CREATE", "TABLE", tree.table_name>>) \o Marked("(")
                  \o Separated([i \in DOMAIN tree.columns |->
                           Words(<<tree.columns[i].col_name, tree.columns[i].value_type>>)])
                  \o Marked(")") \o Marked(";")
         /\ tree.node = "INSERT_INTO_TABLE_NODE" =>
              Statement(tree) =
                Words(<<"INSERT", "INTO", tree.table_name>>) \o Marked("(") \o Names(tree.columns)
                  \o Marked(")") \o Words(<<"VALUES">>) \o Marked("(")
                  \o Separated([i \in DOMAIN tree.values |-> Literal(tree.values[i])])
                  \o Marked(")") \o Marked(";")
         /\ tree.node = "SELECT_FROM_ONE_TABLE_NODE" =>
              Statement(tree) =
                Words(<<"SELECT">>) \o Names(tree.columns) \o Words(<<"FROM", tree.table_name>>)
                  \o FlattenSeq([i \in DOMAIN tree.compare_vector |-> ConditionWords(tree, i)])
                  \o Marked(";")
BY Zenon DEF Statement

LEMMA TextTuples ==
  /\ \A a \in Texts : <<a>> \in Seq(Texts) /\ Len(<<a>>) = 1 /\ <<a>>[1] = a
  /\ \A a, b \in Texts : /\ <<a, b>> \in Seq(Texts) /\ Len(<<a, b>>) = 2
                         /\ <<a, b>>[1] = a /\ <<a, b>>[2] = b
  /\ \A a, b, c \in Texts : /\ <<a, b, c>> \in Seq(Texts) /\ Len(<<a, b, c>>) = 3
                            /\ <<a, b, c>>[1] = a /\ <<a, b, c>>[2] = b /\ <<a, b, c>>[3] = c
OBVIOUS

LEMMA WordTexts ==
  /\ {"CREATE", "DATABASE", "TABLE", "INSERT", "INTO", "VALUES", "SELECT", "FROM", "WHERE",
      "AND", "OR"} \subseteq KEY_WORDS
  /\ KEY_WORDS \subseteq Texts
BY Zenon DEF KEY_WORDS, Texts

LEMMA ConditionIn ==
  ASSUME NEW tree, IsSelect(tree), NEW i \in 1 .. Len(tree.compare_vector)
  PROVE  /\ tree.compare_vector[i] \in [col : Name, condition : Comparators, compare_value : ValueText]
         /\ i > 1 => tree.operators[i - 1] \in {"AND", "OR"} /\ i - 1 \in 1 .. Len(tree.operators)
         /\ ConditionWords(tree, i)
              = Words(<<IF i = 1 THEN "WHERE" ELSE tree.operators[i - 1], tree.compare_vector[i].col>>)
                  \o CompareWords(tree.compare_vector[i].condition)
                  \o Literal(tree.compare_vector[i].compare_value)
         /\ ConditionWords(tree, i) \in Seq(AnyWord)
<1> DEFINE k == tree.compare_vector[i]
           first == IF i = 1 THEN "WHERE" ELSE tree.operators[i - 1]
<1>1. /\ tree.compare_vector \in Seq([col : Name, condition : Comparators, compare_value : ValueText])
      /\ tree.operators \in Seq({"AND", "OR"})
      /\ \/ tree.compare_vector = <<>> /\ tree.operators = <<>>
         \/ Len(tree.compare_vector) = Len(tree.operators) + 1
  BY Zenon DEF IsSelect
<1>2. k \in [col : Name, condition : Comparators, compare_value : ValueText]
  BY <1>1, LenProperties
<1>3. i > 1 => tree.operators[i - 1] \in {"AND", "OR"} /\ i - 1 \in 1 .. Len(tree.operators)
  <2>1. tree.compare_vector # <<>>
    BY <1>1, EmptySeq
  <2>2. Len(tree.compare_vector) = Len(tree.operators) + 1 /\ Len(tree.operators) \in Nat
    BY <1>1, <2>1, LenProperties
  <2>3. i > 1 => i - 1 \in 1 .. Len(tree.operators)
    BY <2>2
  <2>4. \A j \in 1 .. Len(tree.operators) : tree.operators[j] \in {"AND", "OR"}
    BY <1>1, LenProperties
  <2> QED
    BY <2>3, <2>4
<1>4. ConditionWords(tree, i)
              = Words(<<first, k.col>>) \o CompareWords(k.condition) \o Literal(k.compare_value)
  BY Zenon DEF ConditionWords, CompareWords
<1>5. first \in Texts
  <2>1. "WHERE" \in Texts /\ "AND" \in Texts /\ "OR" \in Texts
    BY WordTexts, Zenon
  <2>2. i = 1 \/ i > 1
    OBVIOUS
  <2> QED
    BY <1>3, <2>1, <2>2, Zenon
<1>6. k.col \in Texts /\ k.condition \in Texts /\ k.compare_value \in Texts
  <2>1. k.col \in Name /\ k.condition \in Comparators /\ k.compare_value \in ValueText
    BY <1>2
  <2> QED
    BY <2>1, NamesTyped
<1> HIDE DEF k, first
<1>7. Words(<<first, k.col>>) \in Seq(AnyWord)
  BY <1>5, <1>6, TextTuples, WordsAre
<1>8. CompareWords(k.condition) \in Seq(AnyWord)
  <2>1. Marked("!") \o Marked("=") \in Seq(AnyWord)
    BY MarksAre, ConcatIn
  <2>2. Marked(k.condition) \in Seq(AnyWord)
    BY <1>6, TextsAre
  <2> QED
    BY <2>1, <2>2, Zenon DEF CompareWords
<1>9. ConditionWords(tree, i) \in Seq(AnyWord)
  <2>1. Literal(k.compare_value) \in Seq(AnyWord)
    BY <1>6, TextsAre
  <2>2. Words(<<first, k.col>>) \o CompareWords(k.condition) \in Seq(AnyWord)
    BY <1>7, <1>8, ConcatIn
  <2> QED
    BY <1>4, <2>1, <2>2, ConcatIn
<1> QED
  BY <1>2, <1>3, <1>4, <1>9, Zenon DEF k, first

LEMMA StatementIn ==
  ASSUME NEW tree \in Trees
  PROVE  Statement(tree) \in Seq(AnyWord)
<1>0. /\ \A a \in Texts : Words(<<a>>) \in Seq(AnyWord)
      /\ \A a, b \in Texts : Words(<<a, b>>) \in Seq(AnyWord)
      /\ \A a, b, c \in Texts : Words(<<a, b, c>>) \in Seq(AnyWord)
  BY TextTuples, WordsAre
<1>1. ASSUME IsDatabase(tree) PROVE Statement(tree) \in Seq(AnyWord)
  <2>1. tree.db_name \in Texts /\ "CREATE" \in Texts /\ "DATABASE" \in Texts
    BY <1>1, NamesTyped, WordTexts, Zenon DEF IsDatabase
  <2>2. Words(<<"CREATE", "DATABASE", tree.db_name>>) \in Seq(AnyWord)
    BY <1>0, <2>1, Zenon
  <2>3. Statement(tree) = Words(<<"CREATE", "DATABASE", tree.db_name>>) \o Marked(";")
    BY <1>1, StatementsAre, Zenon DEF IsDatabase
  <2> QED
    BY <2>2, <2>3, MarksAre, ConcatIn
<1>2. ASSUME IsTable(tree) PROVE Statement(tree) \in Seq(AnyWord)
  <2>1. tree.table_name \in Texts /\ "CREATE" \in Texts /\ "TABLE" \in Texts
    BY <1>2, NamesTyped, WordTexts, Zenon DEF IsTable
  <2>2. Words(<<"CREATE", "TABLE", tree.table_name>>) \in Seq(AnyWord)
    BY <1>0, <2>1, Zenon
  <2> DEFINE list == Separated([i \in DOMAIN tree.columns |->
                           Words(<<tree.columns[i].col_name, tree.columns[i].value_type>>)])
  <2>3. list \in Seq(AnyWord)
    <3>1. tree.columns \in Seq([col_name : Name, value_type : ValueTypes \cup {"VECTOR"}])
      BY <1>2, Zenon DEF IsTable
    <3>2. tree.columns \in Seq([col_name : Texts, value_type : Texts])
      <4> DEFINE A == [col_name : Name, value_type : ValueTypes \cup {"VECTOR"}]
                 B == [col_name : Texts, value_type : Texts]
      <4>1. A \subseteq B
        BY NamesTyped
      <4> HIDE DEF A, B
      <4>2. Seq(A) \subseteq Seq(B)
        BY <4>1
      <4> QED
        BY <3>1, <4>2, Zenon DEF A, B
    <3> QED
      BY <3>2, ColumnsAre, Zenon
  <2>4. Statement(tree) = Words(<<"CREATE", "TABLE", tree.table_name>>) \o Marked("(")
                  \o list \o Marked(")") \o Marked(";")
    BY <1>2, StatementsAre, Zenon DEF IsTable
  <2> DEFINE a == Words(<<"CREATE", "TABLE", tree.table_name>>)
             b == Marked("(")
             c == Marked(")")
             d == Marked(";")
  <2>5. /\ a \in Seq(AnyWord) /\ b \in Seq(AnyWord) /\ c \in Seq(AnyWord) /\ d \in Seq(AnyWord)
        /\ Statement(tree) = a \o b \o list \o c \o d
    BY <2>2, <2>4, MarksAre, Zenon
  <2> HIDE DEF a, b, c, d, list
  <2> QED
    BY <2>3, <2>5, FiveIn
<1>3. ASSUME IsInsert(tree) PROVE Statement(tree) \in Seq(AnyWord)
  <2>1. tree.table_name \in Texts /\ "INSERT" \in Texts /\ "INTO" \in Texts /\ "VALUES" \in Texts
    BY <1>3, NamesTyped, WordTexts, Zenon DEF IsInsert
  <2>2. /\ Words(<<"INSERT", "INTO", tree.table_name>>) \in Seq(AnyWord)
        /\ Words(<<"VALUES">>) \in Seq(AnyWord)
    BY <1>0, <2>1, Zenon
  <2> DEFINE list == Separated([i \in DOMAIN tree.values |-> Literal(tree.values[i])])
             names == Names(tree.columns)
  <2>3. list \in Seq(AnyWord) /\ names \in Seq(AnyWord)
    <3>1. tree.values \in Seq(ValueText) /\ tree.columns \in Seq(Name)
      BY <1>3, Zenon DEF IsInsert
    <3>2. tree.values \in Seq(Texts) /\ tree.columns \in Seq(Texts)
      BY <3>1, NamesTyped
    <3> QED
      BY <3>2, ValuesAre, NamesAre, Zenon
  <2>4. Statement(tree) = Words(<<"INSERT", "INTO", tree.table_name>>) \o Marked("(") \o names
                \o Marked(")") \o Words(<<"VALUES">>) \o Marked("(")
                \o list \o Marked(")") \o Marked(";")
    BY <1>3, StatementsAre, Zenon DEF IsInsert
  <2> DEFINE a == Words(<<"INSERT", "INTO", tree.table_name>>)
             b == Marked("(")
             c == Marked(")")
             d == Words(<<"VALUES">>)
             e == Marked(";")
  <2>5. /\ a \in Seq(AnyWord) /\ b \in Seq(AnyWord) /\ c \in Seq(AnyWord)
        /\ d \in Seq(AnyWord) /\ e \in Seq(AnyWord)
        /\ Statement(tree) = a \o b \o names \o c \o d \o b \o list \o c \o e
    BY <2>2, <2>4, MarksAre, Zenon
  <2> HIDE DEF a, b, c, d, e, list, names
  <2>6. a \o b \o names \o c \o d \in Seq(AnyWord)
    BY <2>3, <2>5, FiveIn
  <2> QED
    BY <2>3, <2>5, <2>6, FiveIn
<1>4. ASSUME IsSelect(tree) PROVE Statement(tree) \in Seq(AnyWord)
  <2>1. tree.table_name \in Texts /\ "SELECT" \in Texts /\ "FROM" \in Texts
    BY <1>4, NamesTyped, WordTexts, Zenon DEF IsSelect
  <2>2. Words(<<"SELECT">>) \in Seq(AnyWord) /\ Words(<<"FROM", tree.table_name>>) \in Seq(AnyWord)
    BY <1>0, <2>1, Zenon
  <2> DEFINE list == FlattenSeq([i \in DOMAIN tree.compare_vector |-> ConditionWords(tree, i)])
             names == Names(tree.columns)
  <2>3. names \in Seq(AnyWord)
    <3>1. tree.columns \in Seq(Name) \/ tree.columns = <<"*">>
      BY <1>4, Zenon DEF IsSelect
    <3>2. <<"*">> \in Seq(Texts)
      BY NamesTyped, TextTuples, Zenon
    <3>3. Seq(Name) \subseteq Seq(Texts)
      BY NamesTyped
    <3>4. tree.columns \in Seq(Texts)
      BY <3>1, <3>2, <3>3, Zenon
    <3> QED
      BY <3>4, NamesAre, Zenon
  <2>4. list \in Seq(AnyWord)
    <3> DEFINE n == Len(tree.compare_vector)
               list1 == [i \in 1 .. n |-> ConditionWords(tree, i)]
    <3>1. tree.compare_vector \in Seq([col : Name, condition : Comparators, compare_value : ValueText])
      BY <1>4, Zenon DEF IsSelect
    <3>2. n \in Nat /\ DOMAIN tree.compare_vector = 1 .. n
      BY <3>1, LenProperties
    <3>3. list = FlattenSeq(list1)
      BY <3>2, Zenon
    <3> HIDE DEF list, n
    <3>4. \A i \in 1 .. n : ConditionWords(tree, i) \in Seq(AnyWord)
      BY <1>4, ConditionIn DEF n
    <3>5. list1 \in [1 .. n -> Seq(AnyWord)]
      BY <3>4
    <3> QED
      BY <3>2, <3>3, <3>5, FlattenBlocks
  <2>5. Statement(tree) = Words(<<"SELECT">>) \o names \o Words(<<"FROM", tree.table_name>>)
                  \o list \o Marked(";")
    BY <1>4, StatementsAre, Zenon DEF IsSelect
  <2> DEFINE a == Words(<<"SELECT">>)
             b == Words(<<"FROM", tree.table_name>>)
             c == Marked(";")
  <2>6. /\ a \in Seq(AnyWord) /\ b \in Seq(AnyWord) /\ c \in Seq(AnyWord)
        /\ Statement(tree) = a \o names \o b \o list \o c
    BY <2>2, <2>5, MarksAre, Zenon
  <2> HIDE DEF a, b, c, list, names
  <2> QED
    BY <2>3, <2>4, <2>6, FiveIn
<1> QED
  BY <1>1, <1>2, <1>3, <1>4, TreesAre, Zenon

(* The tokens of words: one each, or none at all.                          *)
LEMMA TokenOfIs ==
  ASSUME NEW word \in AnyWord, word.class # "unclosed"
  PROVE  /\ IsToken(TokenOf(word)) /\ TokenOf(word) \in AnyToken /\ TokenOf(word).value = word.text
         /\ word.class = "mark" => TokenOf(word) = Mark(word.text)
         /\ word.class = "word" => TokenOf(word) = IF word.text \in KEY_WORDS THEN Keyword(word.text)
                                                   ELSE Identifier(word.text)
         /\ word.class \in {"digits", "quoted"} =>
              IsValue(TokenOf(word)) /\ TokenOf(word).type # "OPERATOR_T"
<1>1. /\ word.class = "mark" => TokenOf(word) = Mark(word.text)
      /\ word.class = "word" => TokenOf(word) = IF word.text \in KEY_WORDS THEN Keyword(word.text)
                                                ELSE Identifier(word.text)
      /\ word.class = "digits" => TokenOf(word) = Token("NUMBER_T", word.text)
      /\ word.class = "quoted" => TokenOf(word) = Token("STRING_T", word.text)
  BY Zenon DEF TokenOf
<1>2. word.class \in {"word", "digits", "quoted", "mark"} /\ word.text \in Texts
  BY DEF AnyWord
<1>3. /\ \A v \in Texts : IsToken(Mark(v)) /\ IsToken(Keyword(v)) /\ IsToken(Token("NUMBER_T", v))
                          /\ IsToken(Token("STRING_T", v))
      /\ \A v \in Texts \ KEY_WORDS : IsToken(Identifier(v))
      /\ \A v : /\ IsValue(Token("NUMBER_T", v)) /\ IsValue(Token("STRING_T", v))
                /\ Token("NUMBER_T", v).type # "OPERATOR_T"
                /\ Token("STRING_T", v).type # "OPERATOR_T"
                /\ Mark(v).value = v /\ Keyword(v).value = v /\ Token("NUMBER_T", v).value = v
                /\ Token("STRING_T", v).value = v /\ Identifier(v).value = v
  BY DEF IsToken, TokenType, Mark, Keyword, Identifier, Token, IsValue
<1>4. IsToken(TokenOf(word)) /\ TokenOf(word).value = word.text
  <2>1. CASE word.class = "word"
    BY <1>1, <1>2, <1>3, <2>1, ZenonT(60)
  <2>2. CASE word.class = "mark"
    BY <1>1, <1>2, <1>3, <2>2, Zenon
  <2>3. CASE word.class \in {"digits", "quoted"}
    BY <1>1, <1>2, <1>3, <2>3, Zenon
  <2> QED
    BY <1>2, <2>1, <2>2, <2>3
<1>5. TokenOf(word) \in AnyToken
  BY <1>4, Zenon DEF AnyToken, IsToken
<1> QED
  BY <1>1, <1>3, <1>4, <1>5, ZenonT(60)

LEMMA TokenizeIs ==
  ASSUME NEW words \in Seq(AnyWord)
  PROVE  /\ Tokenize(words) \in Seq(AnyToken)
         /\ \/ Tokenize(words) = <<>>
            \/ /\ Len(Tokenize(words)) = Len(words)
               /\ \A i \in 1 .. Len(words) : /\ words[i] \in AnyWord /\ words[i].class # "unclosed"
                                             /\ Tokenize(words)[i] = TokenOf(words[i])
<1>1. DOMAIN words = 1 .. Len(words) /\ Len(words) \in Nat /\ \A i \in 1 .. Len(words) : words[i] \in AnyWord
  BY LenProperties
<1>2. CASE \E i \in DOMAIN words : words[i].class = "unclosed"
  <2>1. Tokenize(words) = <<>>
    BY <1>2, Zenon DEF Tokenize
  <2> QED
    BY <2>1
<1>3. CASE ~\E i \in DOMAIN words : words[i].class = "unclosed"
  <2>1. Tokenize(words) = [i \in 1 .. Len(words) |-> TokenOf(words[i])]
    BY <1>1, <1>3, Zenon DEF Tokenize
  <2>2. \A i \in 1 .. Len(words) : words[i].class # "unclosed" /\ TokenOf(words[i]) \in AnyToken
    BY <1>1, <1>3, TokenOfIs
  <2>3. /\ Tokenize(words) \in [1 .. Len(words) -> AnyToken]
        /\ \A i \in 1 .. Len(words) : Tokenize(words)[i] = TokenOf(words[i])
    BY <2>1, <2>2
  <2> QED
    BY <1>1, <2>2, <2>3, FunctionIsSeq
<1> QED
  BY <1>2, <1>3

-----------------------------------------------------------------------------
(* Where the blocks of a concatenation lie.                                *)
Lies(block, s, o) ==
  o + Len(block) <= Len(s) /\ \A j \in 1 .. Len(block) : s[o + j] = block[j]

LEMMA ConcatLies ==
  ASSUME NEW S, NEW a \in Seq(S), NEW b \in Seq(S)
  PROVE  /\ a \o b \in Seq(S) /\ Len(a \o b) = Len(a) + Len(b)
         /\ Lies(a, a \o b, 0) /\ Lies(b, a \o b, Len(a))
<1>1. /\ a \o b \in Seq(S) /\ Len(a \o b) = Len(a) + Len(b)
      /\ \A i \in 1 .. Len(a) + Len(b) : (a \o b)[i] = IF i <= Len(a) THEN a[i] ELSE b[i - Len(a)]
  BY ConcatProperties
<1>2. Len(a) \in Nat /\ Len(b) \in Nat
  BY LenProperties
<1> DEFINE s == a \o b
<1> HIDE DEF s
<1>3. /\ Len(s) = Len(a) + Len(b)
      /\ \A i \in 1 .. Len(a) + Len(b) : s[i] = IF i <= Len(a) THEN a[i] ELSE b[i - Len(a)]
  BY <1>1 DEF s
<1>4. \A j \in 1 .. Len(a) : 0 + j \in 1 .. Len(a) + Len(b) /\ 0 + j <= Len(a) /\ 0 + j = j
  BY <1>2
<1>5. \A j \in 1 .. Len(b) : /\ Len(a) + j \in 1 .. Len(a) + Len(b) /\ ~(Len(a) + j <= Len(a))
                             /\ (Len(a) + j) - Len(a) = j
  BY <1>2
<1>6. Lies(a, s, 0)
  BY <1>2, <1>3, <1>4 DEF Lies
<1>7. Lies(b, s, Len(a))
  BY <1>2, <1>3, <1>5 DEF Lies
<1> QED
  BY <1>1, <1>6, <1>7 DEF s

LEMMA LiesWithin ==
  ASSUME NEW s, NEW t, NEW block, NEW o \in Nat, NEW c \in Nat,
         Len(s) \in Nat, Len(block) \in Nat, Len(t) \in Nat, Lies(block, s, o), Lies(s, t, c)
  PROVE  Lies(block, t, c + o)
<1>1. \A j \in 1 .. Len(block) : o + j \in 1 .. Len(s) /\ c + (o + j) = (c + o) + j
  BY DEF Lies
<1> QED
  BY <1>1 DEF Lies

LEMMA LiesFirst ==
  ASSUME NEW s, NEW t, NEW block, NEW o \in Nat,
         Len(s) \in Nat, Len(block) \in Nat, Len(t) \in Nat, Lies(block, s, o), Lies(s, t, 0)
  PROVE  Lies(block, t, o)
<1>1. Lies(block, t, 0 + o)
  BY LiesWithin
<1> QED
  BY <1>1

(* Five blocks.                                                            *)
IsFive(s, a, b, c, d, e) == s = a \o b \o c \o d \o e

LEMMA FiveLie ==
  ASSUME NEW S, NEW a \in Seq(S), NEW b \in Seq(S), NEW c \in Seq(S), NEW d \in Seq(S),
         NEW e \in Seq(S), NEW s, IsFive(s, a, b, c, d, e)
  PROVE  /\ s \in Seq(S) /\ Len(s) = Len(a) + Len(b) + Len(c) + Len(d) + Len(e)
         /\ Lies(a, s, 0) /\ Lies(b, s, Len(a)) /\ Lies(c, s, Len(a) + Len(b))
         /\ Lies(d, s, Len(a) + Len(b) + Len(c)) /\ Lies(e, s, Len(a) + Len(b) + Len(c) + Len(d))
<1>0. Len(a) \in Nat /\ Len(b) \in Nat /\ Len(c) \in Nat /\ Len(d) \in Nat /\ Len(e) \in Nat
  BY LenProperties
<1>1. PICK ab : ab = a \o b
  OBVIOUS
<1>2. ab \in Seq(S) /\ Len(ab) = Len(a) + Len(b) /\ Lies(a, ab, 0) /\ Lies(b, ab, Len(a))
  BY <1>1, ConcatLies
<1>3. PICK abc : abc = ab \o c
  OBVIOUS
<1>4. /\ abc \in Seq(S) /\ Len(abc) = Len(ab) + Len(c)
      /\ Lies(ab, abc, 0) /\ Lies(c, abc, Len(ab))
  BY <1>2, <1>3, ConcatLies
<1>5. PICK abcd : abcd = abc \o d
  OBVIOUS
<1>6. /\ abcd \in Seq(S) /\ Len(abcd) = Len(abc) + Len(d)
      /\ Lies(abc, abcd, 0) /\ Lies(d, abcd, Len(abc))
  BY <1>4, <1>5, ConcatLies
<1>7. s = abcd \o e
  BY <1>1, <1>3, <1>5, Zenon DEF IsFive
<1>8. /\ s \in Seq(S) /\ Len(s) = Len(abcd) + Len(e)
      /\ Lies(abcd, s, 0) /\ Lies(e, s, Len(abcd))
  <2>1. PICK t : t = abcd \o e
    OBVIOUS
  <2>2. t \in Seq(S) /\ Len(t) = Len(abcd) + Len(e) /\ Lies(abcd, t, 0) /\ Lies(e, t, Len(abcd))
    BY <1>6, <2>1, ConcatLies
  <2> QED
    BY <1>7, <2>1, <2>2, Zenon
<1>9. 0 \in Nat
  OBVIOUS
<1>10. Len(ab) \in Nat /\ Len(abc) \in Nat /\ Len(abcd) \in Nat /\ Len(s) \in Nat
  BY <1>2, <1>4, <1>6, <1>8, LenProperties
<1>11. Lies(abc, s, 0) /\ Lies(d, s, Len(abc))
  BY <1>0, <1>6, <1>8, <1>9, <1>10, LiesFirst, Zenon
<1>12. Lies(ab, s, 0) /\ Lies(c, s, Len(ab))
  BY <1>0, <1>4, <1>11, <1>9, <1>10, LiesFirst, Zenon
<1>13. Lies(a, s, 0) /\ Lies(b, s, Len(a))
  BY <1>0, <1>2, <1>12, <1>9, <1>10, LiesFirst, Zenon
<1>14. /\ Len(ab) = Len(a) + Len(b) /\ Len(abc) = Len(a) + Len(b) + Len(c)
       /\ Len(abcd) = Len(a) + Len(b) + Len(c) + Len(d)
       /\ Len(s) = Len(a) + Len(b) + Len(c) + Len(d) + Len(e)
  BY <1>2, <1>4, <1>6, <1>8, Zenon
<1> QED
  BY <1>8, <1>11, <1>12, <1>13, <1>14, Zenon

(* What is separated by commas: where its elements lie, and the commas.    *)
IsSpread(s, list, n, k) ==
  /\ Len(s) = (k + 1) * n - 1
  /\ \A i \in 1 .. n : \A j \in 1 .. k : s[(k + 1) * (i - 1) + j] = list[i][j]
  /\ \A i \in 1 .. n - 1 : s[(k + 1) * i] = Text("mark", ",")

LEMMA SeparatedSpread ==
  ASSUME NEW n \in Nat \ {0}, NEW list \in [1 .. n -> Seq(AnyWord)], NEW k \in {1, 2},
         \A i \in 1 .. n : Len(list[i]) = k
  PROVE  IsSpread(Separated(list), list, n, k)
<1>1. /\ Separated(list) = FlattenSeq(Separate(list))
      /\ Separate(list) \in [1 .. n -> Seq(AnyWord)]
  BY SeparatedAre
<1>2. PICK seqs \in [1 .. n -> Seq(AnyWord)] : seqs = Separate(list)
  BY <1>1
<1>3. PICK s : s = Separated(list)
  OBVIOUS
<1>4. PICK start : IsStart(start, seqs, n) /\ IsFlat(s, start, seqs, n)
  BY <1>1, <1>2, <1>3, FlattenBlocks
<1>5. \A i \in 1 .. n : seqs[i] = IF i = 1 THEN list[i] ELSE Marked(",") \o list[i]
  BY <1>2 DEF Separate
<1>6. /\ Marked(",") \in Seq(AnyWord) /\ Len(Marked(",")) = 1
      /\ Marked(",")[1] = Text("mark", ",")
  <2>1. "," \in Texts
    BY Zenon DEF Texts
  <2> QED
    BY <2>1, TextsAre
<1>7. Len(seqs[1]) = k /\ \A j \in 1 .. k : seqs[1][j] = list[1][j]
  <2>1. 1 \in 1 .. n
    OBVIOUS
  <2>2. seqs[1] = list[1]
    BY <1>5, <2>1, Zenon
  <2> QED
    BY <2>1, <2>2
<1>8. ASSUME NEW i \in 2 .. n
      PROVE  /\ Len(seqs[i]) = k + 1 /\ seqs[i][1] = Text("mark", ",")
             /\ \A j \in 1 .. k : seqs[i][1 + j] = list[i][j]
  <2>1. i \in 1 .. n /\ i # 1 /\ list[i] \in Seq(AnyWord) /\ Len(list[i]) = k
    OBVIOUS
  <2>2. seqs[i] = Marked(",") \o list[i]
    BY <1>5, <2>1, Zenon
  <2>3. PICK b : b = list[i]
    OBVIOUS
  <2>4. PICK c : c = Marked(",")
    OBVIOUS
  <2>5. PICK q : q = seqs[i]
    OBVIOUS
  <2>6. Len(q) = Len(c) + Len(b) /\ Lies(c, q, 0) /\ Lies(b, q, Len(c)) /\ Len(c) = 1 /\ Len(b) = k
        /\ c[1] = Text("mark", ",")
    <3>1. q = c \o b
      BY <2>2, <2>3, <2>4, <2>5, Zenon
    <3>2. c \in Seq(AnyWord) /\ Len(c) = 1 /\ c[1] = Text("mark", ",")
      BY <1>6, <2>4, Zenon
    <3>3. b \in Seq(AnyWord) /\ Len(b) = k
      BY <2>1, <2>3, Zenon
    <3> QED
      BY <3>1, <3>2, <3>3, ConcatLies, Zenon
  <2>7. Len(q) = k + 1 /\ q[1] = c[1] /\ \A j \in 1 .. k : q[1 + j] = b[j]
    <3>1. \A j \in 1 .. 1 : q[0 + j] = c[j]
      BY <2>6, Zenon DEF Lies
    <3>2. \A j \in 1 .. k : q[1 + j] = b[j]
      BY <2>6, Zenon DEF Lies
    <3>3. Len(q) = k + 1
      <4>1. 1 + k = k + 1
        OBVIOUS
      <4> QED
        BY <2>6, <4>1, Zenon
    <3>4. q[1] = c[1]
      BY <3>1
    <3> QED
      BY <3>2, <3>3, <3>4
  <2> QED
    BY <2>3, <2>5, <2>6, <2>7, Zenon
<1> DEFINE T == {i \in Nat : i \in 1 .. n => start[i] = (k + 1) * i - 1}
<1>9. 1 \in T
  <2>1. start[0] = 0 /\ start[1] = start[1 - 1] + Len(seqs[1])
    BY <1>4 DEF IsStart
  <2> QED
    BY <1>7, <2>1
<1>10. ASSUME NEW i \in Nat, i \in T PROVE i + 1 \in T
  <2>1. CASE i \in 1 .. n - 1
    <3>1. i + 1 \in 2 .. n /\ i + 1 \in 1 .. n /\ (i + 1) - 1 = i
      BY <2>1
    <3>2. start[i + 1] = start[(i + 1) - 1] + Len(seqs[i + 1])
      BY <1>4, <3>1 DEF IsStart
    <3>3. Len(seqs[i + 1]) = k + 1
      BY <1>8, <3>1
    <3>4. start[i] = (k + 1) * i - 1
      BY <1>10, <2>1
    <3>5. start[i + 1] = (k + 1) * i - 1 + (k + 1)
      BY <3>1, <3>2, <3>3, <3>4
    <3> QED
      BY <3>5
  <2>2. CASE i = 0
    BY <1>9, <2>2
  <2>3. CASE i + 1 \notin 1 .. n
    BY <2>3
  <2> QED
    BY <2>1, <2>2, <2>3
<1>11. \A i \in 1 .. n : start[i] = (k + 1) * i - 1
  <2>1. 0 \in T
    OBVIOUS
  <2> HIDE DEF T
  <2>2. Nat \subseteq T
    BY <2>1, <1>10, NatInd
  <2> QED
    BY <2>2 DEF T
<1> HIDE DEF T
<1>12. Len(s) = (k + 1) * n - 1
  BY <1>4, <1>11 DEF IsFlat
<1>13. \A i \in 1 .. n : \A j \in 1 .. Len(seqs[i]) : s[start[i - 1] + j] = seqs[i][j]
  BY <1>4, Zenon DEF IsFlat
<1>14. ASSUME NEW i \in 1 .. n, NEW j \in 1 .. k PROVE s[(k + 1) * (i - 1) + j] = list[i][j]
  <2>1. CASE i = 1
    <3>1. start[i - 1] = 0
      BY <1>4, <2>1 DEF IsStart
    <3>2. s[start[i - 1] + j] = seqs[i][j] /\ seqs[i][j] = list[i][j]
      BY <1>7, <1>13, <2>1
    <3>3. start[i - 1] + j = (k + 1) * (i - 1) + j
      BY <2>1, <3>1
    <3> QED
      BY <3>2, <3>3
  <2>2. CASE i # 1
    <3>1. i \in 2 .. n /\ i - 1 \in 1 .. n
      BY <2>2
    <3>2. start[i - 1] = (k + 1) * (i - 1) - 1
      BY <1>11, <3>1
    <3>3. Len(seqs[i]) = k + 1 /\ seqs[i][1 + j] = list[i][j]
      BY <1>8, <3>1
    <3>4. 1 + j \in 1 .. Len(seqs[i])
      BY <3>3
    <3>5. s[start[i - 1] + (1 + j)] = list[i][j]
      BY <1>13, <3>3, <3>4
    <3>6. start[i - 1] + (1 + j) = (k + 1) * (i - 1) + j
      BY <3>2
    <3> QED
      BY <3>5, <3>6
  <2> QED
    BY <2>1, <2>2
<1>15. ASSUME NEW i \in 1 .. n - 1 PROVE s[(k + 1) * i] = Text("mark", ",")
  <2>1. i + 1 \in 2 .. n /\ i + 1 \in 1 .. n /\ i \in 1 .. n /\ (i + 1) - 1 = i
    OBVIOUS
  <2>2. start[i] = (k + 1) * i - 1
    BY <1>11, <2>1
  <2>3. Len(seqs[i + 1]) = k + 1 /\ seqs[i + 1][1] = Text("mark", ",")
    BY <1>8, <2>1
  <2>4. 1 \in 1 .. Len(seqs[i + 1])
    <3>1. 1 \in 1 .. k + 1
      OBVIOUS
    <3> QED
      BY <2>3, <3>1, Zenon
  <2>5. s[start[i] + 1] = Text("mark", ",")
    <3>1. s[start[(i + 1) - 1] + 1] = seqs[i + 1][1]
      BY <1>13, <2>1, <2>4, Zenon
    <3> QED
      BY <2>1, <2>3, <3>1, Zenon
  <2>6. start[i] + 1 = (k + 1) * i
    BY <2>2
  <2> QED
    BY <2>5, <2>6
<1> QED
  BY <1>3, <1>12, <1>14, <1>15, Zenon DEF IsSpread

-----------------------------------------------------------------------------
(* What a constructor finds in a list of tokens.                           *)
LEMMA FirstIs ==
  ASSUME NEW input, Len(input) \in Nat, NEW from \in Nat, NEW token,
         NEW q \in from .. Len(input), input[q] = token,
         \A j \in from .. q - 1 : input[j] # token
  PROVE  First(input, from, token) = q
<1> DEFINE IsFirst(i) == /\ i <= Len(input) => input[i] = token
                         /\ \A j \in from .. i - 1 : input[j] # token
<1>1. q \in from .. Len(input) + 1 /\ IsFirst(q)
  OBVIOUS
<1>2. ASSUME NEW i \in from .. Len(input) + 1, IsFirst(i) PROVE i = q
  <2>1. ~(i < q)
    <3>1. ASSUME i < q PROVE FALSE
      <4>1. i \in from .. q - 1 /\ i <= Len(input)
        BY <3>1
      <4> QED
        BY <1>2, <4>1
    <3> QED
      BY <3>1
  <2>2. ~(q < i)
    <3>1. ASSUME q < i PROVE FALSE
      <4>1. q \in from .. i - 1
        BY <3>1
      <4> QED
        BY <1>2, <4>1
    <3> QED
      BY <3>1
  <2> QED
    BY <2>1, <2>2
<1>3. First(input, from, token) = CHOOSE i \in from .. Len(input) + 1 : IsFirst(i)
  BY Zenon DEF First
<1> HIDE DEF IsFirst
<1> QED
  BY <1>1, <1>2, <1>3, Zenon

(* Items of k tokens each, with a comma between two.                       *)
IsItems(input, from, n, k) ==
  /\ \A i \in 1 .. n : \A j \in 1 .. k : input[from - 1 + (k + 1) * (i - 1) + j] # Mark(",")
  /\ \A i \in 1 .. n - 1 : input[from - 1 + (k + 1) * i] = Mark(",")

ItemPlace(k, i) == i + ((i - 1) \div k)

LEMMA ItemsAre ==
  ASSUME NEW input \in Seq(AnyToken), NEW n \in Nat \ {0}, NEW k \in {1, 2}, NEW from \in Nat \ {0},
         from + (k + 1) * n - 1 <= Len(input) + 1, IsItems(input, from, n, k)
  PROVE  LET items == Items(input, from, from + (k + 1) * n - 1)
         IN  /\ items \in Seq(AnyToken) /\ Len(items) = k * n
             /\ \A i \in 1 .. k * n : items[i] = input[from - 1 + ItemPlace(k, i)]
<1> DEFINE m == (k + 1) * n - 1
           S == Range(input) \ {Mark(",")}
<1>0. Len(input) \in Nat /\ m \in Nat /\ k * n \in Nat
  BY LenProperties
<1>1. PICK s : s = SubSeq(input, from, (from + (k + 1) * n - 1) - 1)
  OBVIOUS
<1>2. /\ s \in Seq(AnyToken) /\ Len(s) = m
      /\ \A i \in 1 .. m : s[i] = input[from + i - 1] /\ input[from + i - 1] \in Range(input)
  <2>1. (from + (k + 1) * n - 1) - 1 = from + m - 1 /\ from \in Int /\ from + m - 1 \in Int
    OBVIOUS
  <2>2. \A i \in from .. from + m - 1 : i \in 1 .. Len(input)
    BY <1>0
  <2>3. \A i \in 1 .. Len(input) : input[i] \in AnyToken /\ input[i] \in Range(input)
    <3>1. DOMAIN input = 1 .. Len(input) /\ \A i \in 1 .. Len(input) : input[i] \in AnyToken
      BY LenProperties
    <3> QED
      BY <3>1, Zenon DEF Range
  <2>4. \A i \in from .. from + m - 1 : input[i] \in AnyToken
    BY <2>2, <2>3
  <2>5. s = SubSeq(input, from, from + m - 1)
    BY <1>1, <2>1, Zenon
  <2>6. PICK u : u = from + m - 1
    OBVIOUS
  <2>7. u \in Int /\ (\A i \in from .. u : input[i] \in AnyToken) /\ s = SubSeq(input, from, u)
    BY <2>1, <2>4, <2>5, <2>6, Zenon
  <2>8. /\ s \in Seq(AnyToken)
        /\ Len(s) = IF from <= u THEN u - from + 1 ELSE 0
        /\ \A i \in 1 .. u - from + 1 : s[i] = input[from + i - 1]
    BY <2>1, <2>7, SubSeqProperties
  <2>9. u - from + 1 = m /\ m >= 1 /\ from <= u
    BY <1>0, <2>6
  <2>10. \A i \in 1 .. m : from + i - 1 \in 1 .. Len(input)
    BY <1>0
  <2> HIDE DEF m
  <2> QED
    BY <2>3, <2>8, <2>9, <2>10
<1>3. PICK items : items = Sifted(s, S)
  OBVIOUS
<1>4. items \in Seq(AnyToken) /\ \E place : IsPlaces(place, s, S, Len(s), items)
  BY <1>2, <1>3, SiftedPlaces
<1>5. PICK p : IsPlaces(p, s, S, m, items)
  BY <1>2, <1>4
<1>6. Len(items) \in Nat
  BY <1>4, LenProperties
<1> DEFINE q == [i \in 1 .. k * n |-> ItemPlace(k, i)]
<1>7. \A i \in 1 .. k * n : /\ ItemPlace(k, i) \in 1 .. m
                            /\ \E c \in 1 .. n : \E j \in 1 .. k : ItemPlace(k, i) = (k + 1) * (c - 1) + j
  <2>1. CASE k = 1
    <3>1. ASSUME NEW i \in 1 .. k * n
          PROVE  ItemPlace(k, i) \in 1 .. m /\ i \in 1 .. n /\ 1 \in 1 .. k
                 /\ ItemPlace(k, i) = (k + 1) * (i - 1) + 1
      BY <2>1 DEF ItemPlace
    <3> QED
      BY <3>1, Zenon
  <2>2. CASE k = 2
    <3>1. ASSUME NEW i \in 1 .. k * n
          PROVE  /\ ItemPlace(k, i) \in 1 .. m /\ (i + 1) \div 2 \in 1 .. n
                 /\ \/ /\ ItemPlace(k, i) = (k + 1) * ((i + 1) \div 2 - 1) + 1
                       /\ 1 \in 1 .. k
                    \/ /\ ItemPlace(k, i) = (k + 1) * ((i + 1) \div 2 - 1) + 2
                       /\ 2 \in 1 .. k
      <4>1. i \in Nat /\ i >= 1 /\ i <= 2 * n
        BY <2>2
      <4> QED
        BY <2>2, <4>1 DEF ItemPlace
    <3> QED
      BY <3>1, Zenon
  <2> QED
    BY <2>1, <2>2
<1>8. \A i, j \in 1 .. k * n : i < j => ItemPlace(k, i) < ItemPlace(k, j)
  BY DEF ItemPlace
<1>9. \A c \in 1 .. n : \A j \in 1 .. k : \E i \in 1 .. k * n : ItemPlace(k, i) = (k + 1) * (c - 1) + j
  <2> TAKE c \in 1 .. n
  <2> TAKE j \in 1 .. k
  <2>1. k * (c - 1) + j \in 1 .. k * n /\ ItemPlace(k, k * (c - 1) + j) = (k + 1) * (c - 1) + j
    <3>1. CASE k = 1
      BY <3>1 DEF ItemPlace
    <3>2. CASE k = 2
      BY <3>2 DEF ItemPlace
    <3> QED
      BY <3>1, <3>2
  <2> QED
    BY <2>1
<1>10. \A a \in 1 .. m : \/ \E c \in 1 .. n : \E j \in 1 .. k : a = (k + 1) * (c - 1) + j
                         \/ \E c \in 1 .. n - 1 : a = (k + 1) * c
  <2> TAKE a \in 1 .. m
  <2>1. CASE k = 1
    <3>1. \/ (a + 1) \div 2 \in 1 .. n /\ 1 \in 1 .. k /\ a = (k + 1) * ((a + 1) \div 2 - 1) + 1
          \/ a \div 2 \in 1 .. n - 1 /\ a = (k + 1) * (a \div 2)
      BY <2>1
    <3> QED
      BY <3>1, Zenon
  <2>2. CASE k = 2
    <3>1. \/ (a + 2) \div 3 \in 1 .. n /\ 1 \in 1 .. k /\ a = (k + 1) * ((a + 2) \div 3 - 1) + 1
          \/ (a + 2) \div 3 \in 1 .. n /\ 2 \in 1 .. k /\ a = (k + 1) * ((a + 2) \div 3 - 1) + 2
          \/ a \div 3 \in 1 .. n - 1 /\ a = (k + 1) * (a \div 3)
      BY <2>2
    <3> QED
      BY <3>1, Zenon
  <2> QED
    BY <2>1, <2>2
<1>11. \A a \in 1 .. m : s[a] \in S <=> \E i \in 1 .. k * n : ItemPlace(k, i) = a
  <2> TAKE a \in 1 .. m
  <2>0. s[a] = input[from + a - 1] /\ s[a] \in Range(input) /\ (s[a] \in S <=> s[a] # Mark(","))
    BY <1>2
  <2>1. ASSUME NEW c \in 1 .. n, NEW j \in 1 .. k, a = (k + 1) * (c - 1) + j
        PROVE  s[a] \in S /\ \E i \in 1 .. k * n : ItemPlace(k, i) = a
    <3>1. from - 1 + (k + 1) * (c - 1) + j = from + a - 1
      BY <2>1
    <3>2. input[from - 1 + (k + 1) * (c - 1) + j] # Mark(",")
      BY Zenon DEF IsItems
    <3> QED
      BY <1>9, <2>0, <2>1, <3>1, <3>2, Zenon
  <2>2. ASSUME NEW c \in 1 .. n - 1, a = (k + 1) * c
        PROVE  s[a] \notin S /\ ~\E i \in 1 .. k * n : ItemPlace(k, i) = a
    <3>1. from - 1 + (k + 1) * c = from + a - 1
      BY <2>2
    <3>2. input[from - 1 + (k + 1) * c] = Mark(",")
      BY Zenon DEF IsItems
    <3>3. s[a] \notin S
      BY <2>0, <3>1, <3>2, Zenon
    <3>4. ASSUME NEW i \in 1 .. k * n, ItemPlace(k, i) = a PROVE FALSE
      <4>1. PICK e \in 1 .. n, j \in 1 .. k : ItemPlace(k, i) = (k + 1) * (e - 1) + j
        BY <1>7, Zenon
      <4>2. (k + 1) * c = (k + 1) * (e - 1) + j
        BY <2>2, <3>4, <4>1, Zenon
      <4>3. CASE k = 1
        BY <4>2, <4>3
      <4>4. CASE k = 2
        BY <4>2, <4>4
      <4> QED
        BY <4>3, <4>4
    <3> QED
      BY <3>3, <3>4
  <2> QED
    BY <1>10, <2>1, <2>2
<1>12. /\ p \in [1 .. Len(items) -> 1 .. m]
       /\ \A i, j \in 1 .. Len(items) : i < j => p[i] < p[j]
       /\ \A i \in 1 .. Len(items) : items[i] = s[p[i]]
       /\ \A a \in 1 .. m : s[a] \in S <=> \E i \in 1 .. Len(items) : p[i] = a
  BY <1>5, Zenon DEF IsPlaces
<1> HIDE DEF m, S
<1>13. p \in [1 .. Len(items) -> Nat] /\ q \in [1 .. k * n -> Nat] /\ \A i \in 1 .. k * n : q[i] = ItemPlace(k, i)
  BY <1>0, <1>7, <1>12
<1> HIDE DEF q
<1>14. IsRising(p, Len(items)) /\ IsRising(q, k * n)
  BY <1>8, <1>12, <1>13 DEF IsRising
<1>15. IsWithin(p, Len(items), q, k * n)
  <2>1. ASSUME NEW i \in 1 .. Len(items) PROVE \E j \in 1 .. k * n : p[i] = q[j]
    <3>1. p[i] \in 1 .. m /\ s[p[i]] \in S
      BY <1>12
    <3>2. PICK j \in 1 .. k * n : ItemPlace(k, j) = p[i]
      BY <1>11, <3>1, Zenon
    <3> QED
      BY <1>13, <3>2, Zenon
  <2> QED
    BY <2>1 DEF IsWithin
<1>16. IsWithin(q, k * n, p, Len(items))
  BY <1>7, <1>11, <1>12, <1>13 DEF IsWithin
<1>17. Len(items) = k * n /\ \A i \in 1 .. Len(items) : p[i] = q[i]
  BY <1>0, <1>6, <1>14, <1>15, <1>16, RisingUnique
<1>18. \A i \in 1 .. k * n : items[i] = input[from - 1 + ItemPlace(k, i)]
  <2> TAKE i \in 1 .. k * n
  <2>1. items[i] = s[ItemPlace(k, i)] /\ ItemPlace(k, i) \in 1 .. m
    <3>1. i \in 1 .. Len(items) /\ p[i] = q[i] /\ q[i] = ItemPlace(k, i)
      BY <1>13, <1>17, Zenon
    <3>2. p[i] = ItemPlace(k, i) /\ items[i] = s[p[i]]
      BY <1>12, <3>1, Zenon
    <3>3. ItemPlace(k, i) \in 1 .. m
      BY <1>7, Zenon
    <3> QED
      BY <3>2, <3>3, Zenon
  <2>2. from + ItemPlace(k, i) - 1 = from - 1 + ItemPlace(k, i)
    BY <1>0, <2>1
  <2> QED
    BY <1>2, <2>1, <2>2
<1>19. Items(input, from, from + (k + 1) * n - 1) = items
  <2>1. PICK to : to = from + (k + 1) * n - 1
    OBVIOUS
  <2>2. s = SubSeq(input, from, to - 1)
    BY <1>1, <2>1, Zenon
  <2>3. Items(input, from, to) = Sifted(SubSeq(input, from, to - 1), S)
    BY Zenon DEF Items, S
  <2> QED
    BY <1>3, <2>1, <2>2, <2>3, Zenon
<1> QED
  BY <1>4, <1>17, <1>18, <1>19

-----------------------------------------------------------------------------
(* Tokens of statements, each where it stands.                             *)
LEMMA TokensOfWords ==
  ASSUME NEW text \in Texts
  PROVE  /\ TokenOf(Text("mark", text)) = Mark(text)
         /\ text \in KEY_WORDS => TokenOf(Text("word", text)) = Keyword(text)
         /\ text \notin KEY_WORDS => TokenOf(Text("word", text)) = Identifier(text)
         /\ IsValue(TokenOf(Text("digits", text))) /\ TokenOf(Text("digits", text)).value = text
         /\ IsValue(TokenOf(Text("quoted", text))) /\ TokenOf(Text("quoted", text)).value = text
<1>1. \A c \in {"word", "mark", "digits", "quoted"} :
        /\ Text(c, text) \in AnyWord /\ Text(c, text).class = c /\ Text(c, text).text = text
        /\ Text(c, text).class # "unclosed"
  BY DEF Text, AnyWord
<1>2. \A c \in {"word", "mark", "digits", "quoted"} :
        /\ TokenOf(Text(c, text)).value = text
        /\ c = "mark" => TokenOf(Text(c, text)) = Mark(text)
        /\ c = "word" => TokenOf(Text(c, text)) = IF text \in KEY_WORDS THEN Keyword(text)
                                                  ELSE Identifier(text)
        /\ c \in {"digits", "quoted"} => IsValue(TokenOf(Text(c, text)))
  <2> TAKE c \in {"word", "mark", "digits", "quoted"}
  <2>1. PICK u : u = Text(c, text)
    OBVIOUS
  <2>2. u \in AnyWord /\ u.class = c /\ u.text = text /\ u.class # "unclosed"
    BY <1>1, <2>1, Zenon
  <2>3. /\ TokenOf(u).value = u.text
        /\ u.class = "mark" => TokenOf(u) = Mark(u.text)
        /\ u.class = "word" => TokenOf(u) = IF u.text \in KEY_WORDS THEN Keyword(u.text)
                                            ELSE Identifier(u.text)
        /\ u.class \in {"digits", "quoted"} => IsValue(TokenOf(u))
    BY <2>2, TokenOfIs
  <2> QED
    BY <2>1, <2>2, <2>3, Zenon
<1>3. /\ "word" \in {"word", "mark", "digits", "quoted"} /\ "mark" \in {"word", "mark", "digits", "quoted"}
      /\ "digits" \in {"word", "mark", "digits", "quoted"}
      /\ "quoted" \in {"word", "mark", "digits", "quoted"}
      /\ "digits" \in {"digits", "quoted"} /\ "quoted" \in {"digits", "quoted"}
  OBVIOUS
<1> QED
  BY <1>2, <1>3, Zenon

LEMMA TokensLie ==
  ASSUME NEW words \in Seq(AnyWord), NEW input, input = Tokenize(words), input # <<>>,
         NEW block, Len(block) \in Nat, NEW o \in Nat, Lies(block, words, o)
  PROVE  /\ Len(input) = Len(words)
         /\ \A j \in 1 .. Len(block) : o + j \in 1 .. Len(input) /\ input[o + j] = TokenOf(block[j])
<1>1. /\ Len(input) = Len(words)
      /\ \A i \in 1 .. Len(words) : input[i] = TokenOf(words[i])
  BY TokenizeIs
<1>2. \A j \in 1 .. Len(block) : o + j \in 1 .. Len(words) /\ words[o + j] = block[j]
  BY LenProperties DEF Lies
<1> QED
  BY <1>1, <1>2

NameTokens(input, from, names) ==
  /\ \A i \in 1 .. Len(names) :
       input[from - 1 + (2 * i - 1)] = IF names[i] = "*" THEN Mark("*") ELSE Identifier(names[i])
  /\ \A i \in 1 .. Len(names) - 1 : input[from - 1 + 2 * i] = Mark(",")

ValueTokens(input, from, values) ==
  /\ \A i \in 1 .. Len(values) : /\ IsValue(input[from - 1 + (2 * i - 1)])
                                 /\ input[from - 1 + (2 * i - 1)].value = values[i]
  /\ \A i \in 1 .. Len(values) - 1 : input[from - 1 + 2 * i] = Mark(",")

LEMMA NamesLie ==
  ASSUME NEW words \in Seq(AnyWord), NEW input, input = Tokenize(words), input # <<>>,
         NEW names \in Seq(Texts), names # <<>>, \A i \in 1 .. Len(names) : names[i] \notin KEY_WORDS
  PROVE  /\ Names(names) \in Seq(AnyWord) /\ Len(names) \in Nat \ {0}
         /\ Len(Names(names)) = 2 * Len(names) - 1
         /\ \A o \in Nat : Lies(Names(names), words, o) => NameTokens(input, o + 1, names)
<1> DEFINE n == Len(names)
           list == [i \in 1 .. n |-> <<NameWord(names[i])>>]
<1>1. /\ Names(names) = Separated(list) /\ list \in [1 .. n -> Seq(AnyWord)]
      /\ Names(names) \in Seq(AnyWord)
  BY NamesAre
<1>2. n \in Nat \ {0} /\ \A i \in 1 .. n : names[i] \in Texts
  BY EmptySeq, LenProperties
<1>3. \A i \in 1 .. n : Len(list[i]) = 1 /\ list[i][1] = NameWord(names[i])
  OBVIOUS
<1> HIDE DEF list
<1>4. IsSpread(Names(names), list, n, 1)
  <2>1. 1 \in {1, 2}
    OBVIOUS
  <2> QED
    BY <1>1, <1>2, <1>3, <2>1, SeparatedSpread, Zenon
<1> HIDE DEF n
<1>5. PICK s : s = Names(names)
  OBVIOUS
<1>6. /\ Len(s) = 2 * n - 1
      /\ \A i \in 1 .. n : s[2 * i - 1] = NameWord(names[i]) /\ 2 * i - 1 \in 1 .. Len(s)
      /\ \A i \in 1 .. n - 1 : s[2 * i] = Text("mark", ",") /\ 2 * i \in 1 .. Len(s)
  <2>1. /\ Len(s) = (1 + 1) * n - 1
        /\ \A i \in 1 .. n : \A j \in 1 .. 1 : s[(1 + 1) * (i - 1) + j] = list[i][j]
        /\ \A i \in 1 .. n - 1 : s[(1 + 1) * i] = Text("mark", ",")
    BY <1>4, <1>5, Zenon DEF IsSpread
  <2>2. \A i \in 1 .. n : (1 + 1) * (i - 1) + 1 = 2 * i - 1 /\ 1 \in 1 .. 1
    BY <1>2
  <2>3. \A i \in 1 .. n : s[2 * i - 1] = NameWord(names[i])
    BY <1>3, <2>1, <2>2
  <2>4. /\ (1 + 1) * n - 1 = 2 * n - 1
        /\ \A i \in 1 .. n : 2 * i - 1 \in 1 .. 2 * n - 1
        /\ \A i \in 1 .. n - 1 : 2 * i \in 1 .. 2 * n - 1 /\ (1 + 1) * i = 2 * i
    BY <1>2
  <2> QED
    BY <2>1, <2>3, <2>4, Zenon
<1>7. \A i \in 1 .. n : TokenOf(NameWord(names[i])) = IF names[i] = "*" THEN Mark("*") ELSE Identifier(names[i])
  <2> TAKE i \in 1 .. n
  <2>1. names[i] \in Texts /\ names[i] \notin KEY_WORDS
    BY <1>2 DEF n
  <2>2. /\ TokenOf(Text("mark", names[i])) = Mark(names[i])
        /\ TokenOf(Text("word", names[i])) = Identifier(names[i])
    BY <2>1, TokensOfWords
  <2> QED
    BY <2>2, Zenon DEF NameWord
<1>8. TokenOf(Text("mark", ",")) = Mark(",")
  <2>1. "," \in Texts
    BY Zenon DEF Texts
  <2> QED
    BY <2>1, TokensOfWords
<1>9. ASSUME NEW o \in Nat, Lies(s, words, o) PROVE NameTokens(input, o + 1, names)
  <2>1. Len(s) \in Nat
    <3>1. 2 * n - 1 \in Nat
      BY <1>2
    <3> QED
      BY <1>6, <3>1, Zenon
  <2>2. \A j \in 1 .. Len(s) : input[o + j] = TokenOf(s[j])
    BY <1>9, <2>1, TokensLie
  <2>3. \A i \in 1 .. n : input[o + (2 * i - 1)] = TokenOf(NameWord(names[i]))
    BY <1>6, <2>2, Zenon
  <2>4. \A i \in 1 .. n - 1 : input[o + 2 * i] = TokenOf(Text("mark", ","))
    BY <1>6, <2>2, Zenon
  <2>5. (o + 1) - 1 = o
    OBVIOUS
  <2> QED
    BY <1>7, <1>8, <2>3, <2>4, <2>5, Zenon DEF NameTokens, n
<1> QED
  BY <1>1, <1>2, <1>5, <1>6, <1>9, Zenon DEF n

LEMMA ValuesLie ==
  ASSUME NEW words \in Seq(AnyWord), NEW input, input = Tokenize(words), input # <<>>,
         NEW values \in Seq(Texts), values # <<>>, NEW s,
         s = Separated([i \in DOMAIN values |-> Literal(values[i])])
  PROVE  /\ s \in Seq(AnyWord) /\ Len(values) \in Nat \ {0}
         /\ Len(s) = 2 * Len(values) - 1
         /\ \A o \in Nat : Lies(s, words, o) => ValueTokens(input, o + 1, values)
<1> DEFINE n == Len(values)
           list == [i \in 1 .. n |-> Literal(values[i])]
<1>1. /\ s = Separated(list) /\ list \in [1 .. n -> Seq(AnyWord)]
      /\ s \in Seq(AnyWord)
  BY ValuesAre, Zenon
<1>2. n \in Nat \ {0} /\ \A i \in 1 .. n : values[i] \in Texts
  BY EmptySeq, LenProperties
<1>3. \A i \in 1 .. n : /\ Len(list[i]) = 1
                        /\ list[i][1] \in {Text("digits", values[i]), Text("quoted", values[i])}
  BY <1>2, TextsAre
<1> HIDE DEF list
<1>4. IsSpread(s, list, n, 1)
  <2>1. 1 \in {1, 2}
    OBVIOUS
  <2> QED
    BY <1>1, <1>2, <1>3, <2>1, SeparatedSpread, Zenon
<1> HIDE DEF n
<1>6. /\ Len(s) = 2 * n - 1
      /\ \A i \in 1 .. n : s[2 * i - 1] = list[i][1] /\ 2 * i - 1 \in 1 .. Len(s)
      /\ \A i \in 1 .. n - 1 : s[2 * i] = Text("mark", ",") /\ 2 * i \in 1 .. Len(s)
  <2>1. /\ Len(s) = (1 + 1) * n - 1
        /\ \A i \in 1 .. n : \A j \in 1 .. 1 : s[(1 + 1) * (i - 1) + j] = list[i][j]
        /\ \A i \in 1 .. n - 1 : s[(1 + 1) * i] = Text("mark", ",")
    BY <1>4, Zenon DEF IsSpread
  <2>2. \A i \in 1 .. n : (1 + 1) * (i - 1) + 1 = 2 * i - 1 /\ 1 \in 1 .. 1
    BY <1>2
  <2>3. \A i \in 1 .. n : s[2 * i - 1] = list[i][1]
    BY <2>1, <2>2
  <2>4. /\ (1 + 1) * n - 1 = 2 * n - 1
        /\ \A i \in 1 .. n : 2 * i - 1 \in 1 .. 2 * n - 1
        /\ \A i \in 1 .. n - 1 : 2 * i \in 1 .. 2 * n - 1 /\ (1 + 1) * i = 2 * i
    BY <1>2
  <2> QED
    BY <2>1, <2>3, <2>4, Zenon
<1>7. \A i \in 1 .. n : IsValue(TokenOf(list[i][1])) /\ TokenOf(list[i][1]).value = values[i]
  <2> TAKE i \in 1 .. n
  <2>1. values[i] \in Texts
    BY <1>2
  <2>2. /\ IsValue(TokenOf(Text("digits", values[i])))
        /\ TokenOf(Text("digits", values[i])).value = values[i]
        /\ IsValue(TokenOf(Text("quoted", values[i])))
        /\ TokenOf(Text("quoted", values[i])).value = values[i]
    BY <2>1, TokensOfWords
  <2> QED
    BY <1>3, <2>2, Zenon
<1>8. TokenOf(Text("mark", ",")) = Mark(",")
  <2>1. "," \in Texts
    BY Zenon DEF Texts
  <2> QED
    BY <2>1, TokensOfWords
<1>9. ASSUME NEW o \in Nat, Lies(s, words, o) PROVE ValueTokens(input, o + 1, values)
  <2>1. Len(s) \in Nat
    <3>1. 2 * n - 1 \in Nat
      BY <1>2
    <3> QED
      BY <1>6, <3>1, Zenon
  <2>2. \A j \in 1 .. Len(s) : input[o + j] = TokenOf(s[j])
    BY <1>9, <2>1, TokensLie
  <2>3. \A i \in 1 .. n : input[o + (2 * i - 1)] = TokenOf(list[i][1])
    BY <1>6, <2>2, Zenon
  <2>4. \A i \in 1 .. n - 1 : input[o + 2 * i] = TokenOf(Text("mark", ","))
    BY <1>6, <2>2, Zenon
  <2>5. (o + 1) - 1 = o
    OBVIOUS
  <2> QED
    BY <1>7, <1>8, <2>3, <2>4, <2>5, Zenon DEF ValueTokens, n
<1> QED
  BY <1>1, <1>2, <1>6, <1>9, Zenon DEF n

LEMMA MarkLies ==
  ASSUME NEW words \in Seq(AnyWord), NEW input, input = Tokenize(words), input # <<>>, NEW m \in Texts
  PROVE  /\ Marked(m) \in Seq(AnyWord) /\ Len(Marked(m)) = 1
         /\ \A o \in Nat : Lies(Marked(m), words, o) => input[o + 1] = Mark(m) /\ o + 1 \in 1 .. Len(input)
<1>1. Marked(m) \in Seq(AnyWord) /\ Len(Marked(m)) = 1 /\ Marked(m)[1] = Text("mark", m)
  BY TextsAre
<1>2. TokenOf(Text("mark", m)) = Mark(m) /\ 1 \in Nat /\ 1 \in 1 .. 1
  BY TokensOfWords
<1> QED
  BY <1>1, <1>2, TokensLie

(* Words that are keywords or names.                                       *)
WordToken(t) == IF t \in KEY_WORDS THEN Keyword(t) ELSE Identifier(t)

LEMMA WordsLie ==
  ASSUME NEW words \in Seq(AnyWord), NEW input, input = Tokenize(words), input # <<>>,
         NEW texts \in Seq(Texts)
  PROVE  /\ Words(texts) \in Seq(AnyWord) /\ Len(Words(texts)) = Len(texts) /\ Len(texts) \in Nat
         /\ \A o \in Nat : Lies(Words(texts), words, o) =>
              \A j \in 1 .. Len(texts) : o + j \in 1 .. Len(input) /\ input[o + j] = WordToken(texts[j])
<1>1. /\ Words(texts) \in Seq(AnyWord) /\ Len(Words(texts)) = Len(texts)
      /\ \A i \in 1 .. Len(texts) : Words(texts)[i] = Text("word", texts[i])
      /\ Len(texts) \in Nat
  BY WordsAre, LenProperties
<1>2. \A i \in 1 .. Len(texts) : TokenOf(Text("word", texts[i])) = WordToken(texts[i])
  <2> TAKE i \in 1 .. Len(texts)
  <2>1. texts[i] \in Texts
    BY LenProperties
  <2> QED
    BY <2>1, TokensOfWords, Zenon DEF WordToken
<1> QED
  BY <1>1, <1>2, TokensLie

(* The words of a legal statement, and what lies behind it.                *)
LEMMA StatementLies ==
  ASSUME NEW tree \in Trees, NEW behind \in Seq(AnyWord), NEW words, words = Statement(tree) \o behind
  PROVE  /\ Statement(tree) \in Seq(AnyWord) /\ words \in Seq(AnyWord)
         /\ Len(words) = Len(Statement(tree)) + Len(behind)
         /\ \A block \in Seq(AnyWord), o \in Nat :
              Lies(block, Statement(tree), o) => Lies(block, words, o)
<1>1. PICK s : s = Statement(tree)
  OBVIOUS
<1>2. s \in Seq(AnyWord)
  BY <1>1, StatementIn
<1>3. words \in Seq(AnyWord) /\ Len(words) = Len(s) + Len(behind) /\ Lies(s, words, 0)
  BY <1>1, <1>2, ConcatLies
<1>4. \A block \in Seq(AnyWord), o \in Nat : Lies(block, s, o) => Lies(block, words, o)
  <2> TAKE block \in Seq(AnyWord), o \in Nat
  <2>1. Len(s) \in Nat /\ Len(words) \in Nat /\ Len(block) \in Nat
    BY <1>2, <1>3, LenProperties
  <2> QED
    BY <1>3, <2>1, LiesFirst, Zenon
<1> QED
  BY <1>1, <1>2, <1>3, <1>4, Zenon

InsertTokens(input, tree) ==
  LET n == Len(tree.columns)
      m == Len(tree.values)
  IN  /\ Len(input) >= 7 + 2 * n + 2 * m
      /\ input[1] = Keyword("INSERT") /\ input[2] = Keyword("INTO")
      /\ input[3] = Identifier(tree.table_name) /\ input[4] = Mark("(")
      /\ NameTokens(input, 5, tree.columns)
      /\ input[4 + 2 * n] = Mark(")") /\ input[5 + 2 * n] = Keyword("VALUES")
      /\ input[6 + 2 * n] = Mark("(")
      /\ ValueTokens(input, 7 + 2 * n, tree.values)
      /\ input[6 + 2 * n + 2 * m] = Mark(")") /\ input[7 + 2 * n + 2 * m] = Mark(";")

LEMMA InsertLies ==
  ASSUME NEW tree \in Trees, IsInsert(tree), NEW behind \in Seq(AnyWord),
         NEW input, input = Tokenize(Statement(tree) \o behind), input # <<>>
  PROVE  /\ InsertTokens(input, tree) /\ Len(tree.columns) \in Nat \ {0} /\ Len(tree.values) \in Nat \ {0}
         /\ Len(Statement(tree)) = 7 + 2 * Len(tree.columns) + 2 * Len(tree.values)
<1>1. PICK words : words = Statement(tree) \o behind
  OBVIOUS
<1>2. words \in Seq(AnyWord) /\ input = Tokenize(words)
  BY <1>1, StatementLies
<1>3. /\ tree.table_name \in Texts /\ tree.table_name \notin KEY_WORDS
      /\ tree.columns \in Seq(Texts) /\ tree.columns # <<>>
      /\ tree.values \in Seq(Texts) /\ tree.values # <<>>
  <2>1. /\ tree.table_name \in Name /\ tree.columns \in Seq(Name) /\ tree.columns # <<>>
        /\ tree.values \in Seq(ValueText) /\ tree.values # <<>>
    BY Zenon DEF IsInsert
  <2>2. tree.columns \in Seq(Texts) /\ tree.values \in Seq(Texts)
    BY <2>1, NamesTyped, SeqMonotonic
  <2> QED
    BY <2>1, <2>2, NamesTyped
<1>4. \A i \in 1 .. Len(tree.columns) : tree.columns[i] \notin KEY_WORDS /\ tree.columns[i] # "*"
  <2>1. tree.columns \in Seq(Name)
    BY Zenon DEF IsInsert
  <2> QED
    BY <2>1, NamesTyped, LenProperties
<1> DEFINE first == <<"INSERT", "INTO", tree.table_name>>
           list == Separated([i \in DOMAIN tree.values |-> Literal(tree.values[i])])
<1>5. PICK s : s = Statement(tree)
  OBVIOUS
<1>6. s = Words(first) \o Marked("(") \o Names(tree.columns)
                  \o Marked(")") \o Words(<<"VALUES">>) \o Marked("(") \o list \o Marked(")") \o Marked(";")
  BY <1>5, StatementsAre, Zenon DEF IsInsert
<1>7. /\ first \in Seq(Texts) /\ Len(first) = 3
      /\ first[1] = "INSERT" /\ first[2] = "INTO" /\ first[3] = tree.table_name
      /\ <<"VALUES">> \in Seq(Texts) /\ Len(<<"VALUES">>) = 1 /\ <<"VALUES">>[1] = "VALUES"
  <2>1. "INSERT" \in Texts /\ "INTO" \in Texts /\ "VALUES" \in Texts
    BY WordTexts, Zenon
  <2> QED
    BY <1>3, <2>1, TextTuples, Zenon
<1> HIDE DEF first, list
<1>8. PICK a, b, c, d, e, f, g, h, k : /\ a = Words(first) /\ b = Marked("(") /\ c = Names(tree.columns)
        /\ d = Marked(")") /\ e = Words(<<"VALUES">>) /\ f = Marked("(") /\ g = list /\ h = Marked(")")
        /\ k = Marked(";")
  BY Zenon
<1>9. "(" \in Texts /\ ")" \in Texts /\ ";" \in Texts
  BY Zenon DEF Texts
<1>10. /\ a \in Seq(AnyWord) /\ b \in Seq(AnyWord) /\ c \in Seq(AnyWord) /\ d \in Seq(AnyWord)
       /\ e \in Seq(AnyWord) /\ f \in Seq(AnyWord) /\ g \in Seq(AnyWord) /\ h \in Seq(AnyWord)
       /\ k \in Seq(AnyWord)
       /\ Len(a) = 3 /\ Len(b) = 1 /\ Len(c) = 2 * Len(tree.columns) - 1 /\ Len(d) = 1
       /\ Len(e) = 1 /\ Len(f) = 1 /\ Len(g) = 2 * Len(tree.values) - 1 /\ Len(h) = 1 /\ Len(k) = 1
       /\ Len(tree.columns) \in Nat \ {0} /\ Len(tree.values) \in Nat \ {0}
  <2>1. a \in Seq(AnyWord) /\ Len(a) = 3 /\ e \in Seq(AnyWord) /\ Len(e) = 1
    BY <1>2, <1>7, <1>8, WordsLie, Zenon
  <2>2. /\ b \in Seq(AnyWord) /\ Len(b) = 1 /\ d \in Seq(AnyWord) /\ Len(d) = 1
        /\ f \in Seq(AnyWord) /\ Len(f) = 1 /\ h \in Seq(AnyWord) /\ Len(h) = 1
        /\ k \in Seq(AnyWord) /\ Len(k) = 1
    BY <1>2, <1>8, <1>9, MarkLies, Zenon
  <2>3. c \in Seq(AnyWord) /\ Len(c) = 2 * Len(tree.columns) - 1 /\ Len(tree.columns) \in Nat \ {0}
    BY <1>2, <1>3, <1>4, <1>8, NamesLie, Zenon
  <2>4. g \in Seq(AnyWord) /\ Len(g) = 2 * Len(tree.values) - 1 /\ Len(tree.values) \in Nat \ {0}
    BY <1>2, <1>3, <1>8, ValuesLie, Zenon DEF list
  <2> QED
    BY <2>1, <2>2, <2>3, <2>4, Zenon
<1> DEFINE n == Len(tree.columns)
           m == Len(tree.values)
<1>11. /\ Len(s) = 7 + 2 * n + 2 * m
       /\ Lies(a, s, 0) /\ Lies(b, s, 3) /\ Lies(c, s, 4) /\ Lies(d, s, 3 + 2 * n)
       /\ Lies(e, s, 4 + 2 * n) /\ Lies(f, s, 5 + 2 * n) /\ Lies(g, s, 6 + 2 * n)
       /\ Lies(h, s, 5 + 2 * n + 2 * m) /\ Lies(k, s, 6 + 2 * n + 2 * m)
  <2>1. PICK t : t = a \o b \o c \o d \o e
    OBVIOUS
  <2>2. /\ t \in Seq(AnyWord) /\ Len(t) = Len(a) + Len(b) + Len(c) + Len(d) + Len(e)
        /\ Lies(a, t, 0) /\ Lies(b, t, Len(a)) /\ Lies(c, t, Len(a) + Len(b))
        /\ Lies(d, t, Len(a) + Len(b) + Len(c)) /\ Lies(e, t, Len(a) + Len(b) + Len(c) + Len(d))
    <3>1. a \in Seq(AnyWord) /\ b \in Seq(AnyWord) /\ c \in Seq(AnyWord) /\ d \in Seq(AnyWord)
          /\ e \in Seq(AnyWord)
      BY <1>10, Zenon
    <3>2. IsFive(t, a, b, c, d, e)
      BY <2>1, Zenon DEF IsFive
    <3> QED
      BY <3>1, <3>2, FiveLie
  <2>3. s = t \o f \o g \o h \o k
    BY <1>6, <1>8, <2>1, Zenon
  <2>4. /\ s \in Seq(AnyWord) /\ Len(s) = Len(t) + Len(f) + Len(g) + Len(h) + Len(k)
        /\ Lies(t, s, 0) /\ Lies(f, s, Len(t)) /\ Lies(g, s, Len(t) + Len(f))
        /\ Lies(h, s, Len(t) + Len(f) + Len(g)) /\ Lies(k, s, Len(t) + Len(f) + Len(g) + Len(h))
    <3>1. t \in Seq(AnyWord) /\ f \in Seq(AnyWord) /\ g \in Seq(AnyWord) /\ h \in Seq(AnyWord)
          /\ k \in Seq(AnyWord)
      BY <1>10, <2>2, Zenon
    <3>2. IsFive(s, t, f, g, h, k)
      BY <2>3, Zenon DEF IsFive
    <3> QED
      BY <3>1, <3>2, FiveLie
  <2>5. /\ Len(a) + Len(b) = 4 /\ Len(a) + Len(b) + Len(c) = 3 + 2 * n
        /\ Len(a) + Len(b) + Len(c) + Len(d) = 4 + 2 * n /\ Len(t) = 5 + 2 * n
        /\ Len(t) + Len(f) = 6 + 2 * n /\ Len(t) + Len(f) + Len(g) = 5 + 2 * n + 2 * m
        /\ Len(t) + Len(f) + Len(g) + Len(h) = 6 + 2 * n + 2 * m
        /\ Len(s) = 7 + 2 * n + 2 * m
    <3>1. PICK x \in Nat \ {0} : x = Len(tree.columns)
      BY <1>10, Zenon
    <3>2. PICK y \in Nat \ {0} : y = Len(tree.values)
      BY <1>10, Zenon
    <3>3. /\ Len(a) = 3 /\ Len(b) = 1 /\ Len(c) = 2 * x - 1 /\ Len(d) = 1
          /\ Len(e) = 1 /\ Len(f) = 1 /\ Len(g) = 2 * y - 1 /\ Len(h) = 1 /\ Len(k) = 1
      BY <1>10, <3>1, <3>2, Zenon
    <3>4. 3 + 1 = 4 /\ 3 + 1 + (2 * x - 1) = 3 + 2 * x /\ 3 + 1 + (2 * x - 1) + 1 = 4 + 2 * x
          /\ 3 + 1 + (2 * x - 1) + 1 + 1 = 5 + 2 * x /\ 5 + 2 * x + 1 = 6 + 2 * x
          /\ 5 + 2 * x + 1 + (2 * y - 1) = 5 + 2 * x + 2 * y
          /\ 5 + 2 * x + 1 + (2 * y - 1) + 1 = 6 + 2 * x + 2 * y
          /\ 5 + 2 * x + 1 + (2 * y - 1) + 1 + 1 = 7 + 2 * x + 2 * y
      OBVIOUS
    <3>5. Len(t) = 5 + 2 * x
      BY <2>2, <3>3, <3>4, Zenon
    <3> QED
      BY <2>4, <3>1, <3>2, <3>3, <3>4, <3>5, Zenon
  <2>6. Lies(d, t, 3 + 2 * n) /\ Lies(e, t, 4 + 2 * n) /\ Lies(b, t, 3) /\ Lies(c, t, 4)
    BY <1>10, <2>2, <2>5, Zenon
  <2>7. /\ 0 \in Nat /\ 3 \in Nat /\ 4 \in Nat /\ 3 + 2 * n \in Nat /\ 4 + 2 * n \in Nat
        /\ Len(t) \in Nat /\ Len(s) \in Nat
        /\ Len(a) \in Nat /\ Len(b) \in Nat /\ Len(c) \in Nat /\ Len(d) \in Nat /\ Len(e) \in Nat
    <3>1. n \in Nat
      BY <1>10
    <3>2. 0 \in Nat /\ 3 \in Nat /\ 4 \in Nat /\ 3 + 2 * n \in Nat /\ 4 + 2 * n \in Nat
      BY <3>1
    <3> QED
      BY <1>10, <2>2, <2>4, <3>2, LenProperties
  <2>8. Lies(a, s, 0) /\ Lies(b, s, 3) /\ Lies(c, s, 4) /\ Lies(d, s, 3 + 2 * n) /\ Lies(e, s, 4 + 2 * n)
    <3>1. \A block, o : /\ o \in Nat /\ Len(block) \in Nat /\ Lies(block, t, o)
                        => Lies(block, s, o)
      BY <2>4, <2>7, LiesFirst
    <3> QED
      BY <2>2, <2>6, <2>7, <3>1, Zenon
  <2> QED
    BY <2>4, <2>5, <2>8, Zenon
<1>12. \A block \in Seq(AnyWord), o \in Nat : Lies(block, s, o) => Lies(block, words, o)
  BY <1>1, <1>5, StatementLies, Zenon
<1>13. /\ 0 \in Nat /\ 3 \in Nat /\ 4 \in Nat /\ 3 + 2 * n \in Nat /\ 4 + 2 * n \in Nat
       /\ 5 + 2 * n \in Nat /\ 6 + 2 * n \in Nat /\ 5 + 2 * n + 2 * m \in Nat /\ 6 + 2 * n + 2 * m \in Nat
       /\ 3 + 1 = 4 /\ 4 + 1 = 5 /\ (3 + 2 * n) + 1 = 4 + 2 * n /\ (4 + 2 * n) + 1 = 5 + 2 * n
       /\ (5 + 2 * n) + 1 = 6 + 2 * n /\ (6 + 2 * n) + 1 = 7 + 2 * n
       /\ (5 + 2 * n + 2 * m) + 1 = 6 + 2 * n + 2 * m
       /\ (6 + 2 * n + 2 * m) + 1 = 7 + 2 * n + 2 * m
       /\ 0 + 1 = 1 /\ 0 + 2 = 2 /\ 0 + 3 = 3
  <2>1. n \in Nat /\ m \in Nat
    BY <1>10
  <2> HIDE DEF n, m
  <2> QED
    BY <2>1
<1>0. /\ Lies(a, words, 0) /\ Lies(b, words, 3) /\ Lies(c, words, 4) /\ Lies(d, words, 3 + 2 * n)
      /\ Lies(e, words, 4 + 2 * n) /\ Lies(f, words, 5 + 2 * n) /\ Lies(g, words, 6 + 2 * n)
      /\ Lies(h, words, 5 + 2 * n + 2 * m) /\ Lies(k, words, 6 + 2 * n + 2 * m)
  BY <1>10, <1>11, <1>12, <1>13, Zenon
<1>14. Len(input) >= 7 + 2 * n + 2 * m
  <2>1. Len(input) = Len(words)
    <3>1. Len(a) \in Nat
      BY <1>10
    <3> QED
      BY <1>2, <1>0, <1>13, <3>1, TokensLie
  <2>2. Len(words) = Len(s) + Len(behind) /\ Len(behind) \in Nat /\ Len(s) \in Nat
    <3>1. Len(words) = Len(s) + Len(behind) /\ s \in Seq(AnyWord)
      BY <1>1, <1>5, StatementLies, Zenon
    <3> QED
      BY <3>1, LenProperties
  <2>3. \A x, y \in Nat : x + y >= x
    OBVIOUS
  <2> QED
    BY <1>11, <2>1, <2>2, <2>3, Zenon
<1>15. input[1] = Keyword("INSERT") /\ input[2] = Keyword("INTO") /\ input[3] = Identifier(tree.table_name)
  <2>1. \A j \in 1 .. 3 : input[0 + j] = WordToken(first[j])
    <3>1. Lies(Words(first), words, 0) /\ 0 \in Nat
      BY <1>8, <1>0, <1>13, Zenon
    <3>2. \A o \in Nat : Lies(Words(first), words, o) =>
            \A j \in 1 .. Len(first) : input[o + j] = WordToken(first[j])
      <4>1. first \in Seq(Texts)
        BY <1>7, Zenon
      <4> QED
        BY <1>2, <4>1, WordsLie
    <3> QED
      BY <1>7, <3>1, <3>2, Zenon
  <2>2. 1 \in 1 .. 3 /\ 2 \in 1 .. 3 /\ 3 \in 1 .. 3
    OBVIOUS
  <2>3. /\ WordToken("INSERT") = Keyword("INSERT") /\ WordToken("INTO") = Keyword("INTO")
        /\ WordToken(tree.table_name) = Identifier(tree.table_name)
    BY <1>3, WordTexts, Zenon DEF WordToken
  <2> QED
    BY <1>7, <1>13, <2>1, <2>2, <2>3, Zenon
<1>16. input[5 + 2 * n] = Keyword("VALUES")
  <2>1. \A j \in 1 .. 1 : input[(4 + 2 * n) + j] = WordToken(<<"VALUES">>[j])
    <3>1. Lies(Words(<<"VALUES">>), words, 4 + 2 * n) /\ 4 + 2 * n \in Nat
      BY <1>8, <1>0, <1>13, Zenon
    <3>2. \A o \in Nat : Lies(Words(<<"VALUES">>), words, o) =>
            \A j \in 1 .. Len(<<"VALUES">>) : input[o + j] = WordToken(<<"VALUES">>[j])
      <4>1. PICK q : q = <<"VALUES">>
        OBVIOUS
      <4>2. q \in Seq(Texts)
        BY <1>7, <4>1, Zenon
      <4>3. \A o \in Nat : Lies(Words(q), words, o) =>
              \A j \in 1 .. Len(q) : input[o + j] = WordToken(q[j])
        BY <1>2, <4>2, WordsLie
      <4> QED
        BY <4>1, <4>3, Zenon
    <3> QED
      BY <1>7, <3>1, <3>2, Zenon
  <2>2. 1 \in 1 .. 1
    OBVIOUS
  <2>3. WordToken("VALUES") = Keyword("VALUES")
    BY WordTexts, Zenon DEF WordToken
  <2> QED
    BY <1>7, <1>13, <2>1, <2>2, <2>3, Zenon
<1>17. /\ input[4] = Mark("(") /\ input[4 + 2 * n] = Mark(")") /\ input[6 + 2 * n] = Mark("(")
       /\ input[6 + 2 * n + 2 * m] = Mark(")") /\ input[7 + 2 * n + 2 * m] = Mark(";")
  <2>1. \A t \in Texts, o \in Nat : Lies(Marked(t), words, o) => input[o + 1] = Mark(t)
    BY <1>2, MarkLies, ZenonT(60)
  <2> QED
    <3>1. /\ Lies(Marked("("), words, 3) /\ Lies(Marked(")"), words, 3 + 2 * n)
          /\ Lies(Marked("("), words, 5 + 2 * n) /\ Lies(Marked(")"), words, 5 + 2 * n + 2 * m)
          /\ Lies(Marked(";"), words, 6 + 2 * n + 2 * m)
      BY <1>0, <1>8, Zenon
    <3>2. /\ input[3 + 1] = Mark("(") /\ input[(3 + 2 * n) + 1] = Mark(")")
          /\ input[(5 + 2 * n) + 1] = Mark("(") /\ input[(5 + 2 * n + 2 * m) + 1] = Mark(")")
          /\ input[(6 + 2 * n + 2 * m) + 1] = Mark(";")
      BY <1>9, <1>13, <2>1, <3>1, Zenon
    <3> QED
      BY <1>13, <3>2, Zenon
<1>18. NameTokens(input, 5, tree.columns)
  <2>1. \A o \in Nat : Lies(c, words, o) => NameTokens(input, o + 1, tree.columns)
    BY <1>2, <1>3, <1>4, <1>8, NamesLie, Zenon
  <2> QED
    BY <1>0, <1>13, <2>1, Zenon
<1>19. ValueTokens(input, 7 + 2 * n, tree.values)
  <2>1. \A o \in Nat : Lies(g, words, o) => ValueTokens(input, o + 1, tree.values)
    BY <1>2, <1>3, <1>8, ValuesLie, Zenon DEF list
  <2> QED
    BY <1>0, <1>13, <2>1, Zenon
<1> QED
  BY <1>5, <1>10, <1>11, <1>14, <1>15, <1>16, <1>17, <1>18, <1>19, Zenon DEF InsertTokens

(* Names and values are none of the marks.                                 *)
LEMMA KindsOfTokens ==
  /\ \A a, m : Identifier(a) # Mark(m)
  /\ \A a, m : Keyword(a) # Mark(m)
  /\ \A a, k : Identifier(a) # Keyword(k)
  /\ \A a, b : Mark(a) = Mark(b) => a = b
  /\ \A a, b : Keyword(a) = Keyword(b) => a = b
  /\ \A t, m : IsValue(t) => t # Mark(m)
  /\ \A t, k : IsValue(t) => t # Keyword(k)
  /\ \A a : Identifier(a).value = a /\ Mark(a).value = a /\ Keyword(a).value = a
  /\ \A a : Identifier(a).type = "IDENTIFIER_T" /\ Mark(a).type = "OPERATOR_T"
            /\ Keyword(a).type = "KEYWORD_T"
BY DEF Identifier, Mark, Keyword, Token, IsValue

(* A list of names or values in brackets, as a constructor reads it.       *)
IsList(input, from, list, n) ==
  /\ \A i \in 1 .. n : /\ input[from - 1 + (2 * i - 1)].value = list[i]
                       /\ input[from - 1 + (2 * i - 1)] # Mark(",")
  /\ \A i \in 1 .. n - 1 : input[from - 1 + 2 * i] = Mark(",")

LEMMA ListPlaces ==
  ASSUME NEW from \in Nat \ {0}, NEW n \in Nat \ {0}, NEW i \in Nat \ {0}
  PROVE  /\ from + (1 + 1) * n - 1 = from + 2 * n - 1
         /\ from - 1 + (1 + 1) * (i - 1) + 1 = from - 1 + (2 * i - 1)
         /\ from - 1 + (1 + 1) * i = from - 1 + 2 * i
         /\ from - 1 + ItemPlace(1, i) = from - 1 + (2 * i - 1)
         /\ 1 * n = n
<1>1. (i - 1) \div 1 = i - 1
  BY SMT
<1>2. ItemPlace(1, i) = 2 * i - 1
  BY <1>1 DEF ItemPlace
<1>3. from - 1 + ItemPlace(1, i) = from - 1 + (2 * i - 1)
  BY <1>2, Zenon
<1> HIDE DEF ItemPlace
<1> QED
  BY <1>3

LEMMA ListIs ==
  ASSUME NEW input \in Seq(AnyToken), NEW n \in Nat \ {0}, NEW from \in Nat \ {0}, NEW list,
         list = [i \in 1 .. n |-> list[i]],
         from + 2 * n - 1 <= Len(input), IsList(input, from, list, n)
  PROVE  ValuesOf(Items(input, from, from + 2 * n - 1)) = list
<1>1. Len(input) \in Nat
  BY LenProperties
<1>2. /\ from + (1 + 1) * n - 1 = from + 2 * n - 1 /\ 1 * n = n
      /\ from + (1 + 1) * n - 1 <= Len(input) + 1
  BY <1>1
<1>3. IsItems(input, from, n, 1)
  <2>1. ASSUME NEW i \in 1 .. n, NEW j \in 1 .. 1
        PROVE  input[from - 1 + (1 + 1) * (i - 1) + j] # Mark(",")
    <3>1. i \in Nat \ {0} /\ j = 1
      OBVIOUS
    <3>2. from - 1 + (1 + 1) * (i - 1) + j = from - 1 + (2 * i - 1)
      BY <3>1, ListPlaces, Zenon
    <3> QED
      BY <3>2, Zenon DEF IsList
  <2>2. ASSUME NEW i \in 1 .. n - 1 PROVE input[from - 1 + (1 + 1) * i] = Mark(",")
    <3>1. i \in Nat \ {0}
      OBVIOUS
    <3>2. from - 1 + (1 + 1) * i = from - 1 + 2 * i
      BY <3>1, ListPlaces, Zenon
    <3> QED
      BY <3>2, Zenon DEF IsList
  <2> QED
    BY <2>1, <2>2, Zenon DEF IsItems
<1>4. PICK k : k = 1
  OBVIOUS
<1>5. k \in {1, 2}
  BY <1>4
<1>6. PICK items : items = Items(input, from, from + (1 + 1) * n - 1)
  OBVIOUS
<1>7. /\ items \in Seq(AnyToken) /\ Len(items) = k * n
      /\ \A i \in 1 .. k * n : items[i] = input[from - 1 + ItemPlace(k, i)]
  <2>1. from + (k + 1) * n - 1 <= Len(input) + 1 /\ IsItems(input, from, n, k)
        /\ items = Items(input, from, from + (k + 1) * n - 1)
    BY <1>2, <1>3, <1>4, <1>6, Zenon
  <2>2. LET r == Items(input, from, from + (k + 1) * n - 1)
        IN  /\ r \in Seq(AnyToken) /\ Len(r) = k * n
            /\ \A i \in 1 .. k * n : r[i] = input[from - 1 + ItemPlace(k, i)]
    BY <1>5, <2>1, ItemsAre, Zenon
  <2> QED
    BY <2>1, <2>2, Zenon
<1>8. /\ items \in Seq(AnyToken) /\ Len(items) = n
      /\ \A i \in 1 .. n : items[i] = input[from - 1 + ItemPlace(1, i)]
  BY <1>2, <1>4, <1>7, Zenon
<1>9. DOMAIN items = 1 .. n
  BY <1>8, LenProperties
<1>10. \A i \in 1 .. n : items[i].value = list[i]
  <2> TAKE i \in 1 .. n
  <2>1. i \in Nat \ {0}
    OBVIOUS
  <2>2. items[i] = input[from - 1 + (2 * i - 1)]
    BY <1>8, <2>1, ListPlaces, ZenonT(60)
  <2> QED
    BY <2>2, Zenon DEF IsList
<1>11. ValuesOf(items) = [i \in 1 .. n |-> items[i].value]
  BY <1>9, Zenon DEF ValuesOf
<1>12. [i \in 1 .. n |-> items[i].value] = [i \in 1 .. n |-> list[i]]
  BY <1>10, Zenon
<1> QED
  BY <1>2, <1>6, <1>11, <1>12, Zenon

LEMMA NamesRead ==
  ASSUME NEW input \in Seq(AnyToken), NEW names \in Seq(Texts), names # <<>>,
         NEW from \in Nat \ {0}, NEW to, to = from + 2 * Len(names) - 1, to <= Len(input),
         NameTokens(input, from, names)
  PROVE  ValuesOf(Items(input, from, to)) = names
<1>0. PICK n : n = Len(names)
  OBVIOUS
<1>1. /\ n \in Nat \ {0} /\ names = [i \in 1 .. n |-> names[i]]
  BY <1>0, EmptySeq, LenProperties
<1>2. "," # "*"
  OBVIOUS
<1>3. \A i \in 1 .. n : input[from - 1 + (2 * i - 1)] = IF names[i] = "*" THEN Mark("*") ELSE Identifier(names[i])
  BY <1>0, Zenon DEF NameTokens
<1>4. \A i \in 1 .. n : /\ input[from - 1 + (2 * i - 1)].value = names[i]
                        /\ input[from - 1 + (2 * i - 1)] # Mark(",")
  <2> TAKE i \in 1 .. n
  <2>1. PICK t : t = input[from - 1 + (2 * i - 1)]
    OBVIOUS
  <2>2. (t = Mark(names[i]) /\ names[i] = "*") \/ t = Identifier(names[i])
    BY <1>3, <2>1, Zenon
  <2>3. t # Mark(",") /\ t.value = names[i]
    BY <1>2, <2>2, KindsOfTokens, Zenon
  <2> QED
    BY <2>1, <2>3, Zenon
<1>5. \A i \in 1 .. n - 1 : input[from - 1 + 2 * i] = Mark(",")
  BY <1>0, Zenon DEF NameTokens
<1>6. IsList(input, from, names, n)
  BY <1>4, <1>5, Zenon DEF IsList
<1> QED
  BY <1>0, <1>1, <1>6, ListIs, Zenon

LEMMA ValuesRead ==
  ASSUME NEW input \in Seq(AnyToken), NEW values \in Seq(Texts), values # <<>>,
         NEW from \in Nat \ {0}, NEW to, to = from + 2 * Len(values) - 1, to <= Len(input),
         ValueTokens(input, from, values)
  PROVE  ValuesOf(Items(input, from, to)) = values
<1>0. PICK n : n = Len(values)
  OBVIOUS
<1>1. /\ n \in Nat \ {0} /\ values = [i \in 1 .. n |-> values[i]]
  BY <1>0, EmptySeq, LenProperties
<1>3. \A i \in 1 .. n : /\ IsValue(input[from - 1 + (2 * i - 1)])
                        /\ input[from - 1 + (2 * i - 1)].value = values[i]
  BY <1>0, Zenon DEF ValueTokens
<1>4. \A i \in 1 .. n : /\ input[from - 1 + (2 * i - 1)].value = values[i]
                        /\ input[from - 1 + (2 * i - 1)] # Mark(",")
  <2> TAKE i \in 1 .. n
  <2>1. PICK t : t = input[from - 1 + (2 * i - 1)]
    OBVIOUS
  <2>2. IsValue(t) /\ t.value = values[i]
    BY <1>3, <2>1, Zenon
  <2>3. t # Mark(",")
    BY <2>2, KindsOfTokens, Zenon
  <2> QED
    BY <2>1, <2>2, <2>3, Zenon
<1>5. \A i \in 1 .. n - 1 : input[from - 1 + 2 * i] = Mark(",")
  BY <1>0, Zenon DEF ValueTokens
<1>6. IsList(input, from, values, n)
  BY <1>4, <1>5, Zenon DEF IsList
<1> QED
  BY <1>0, <1>1, <1>6, ListIs, Zenon

LEMMA InsertRead ==
  ASSUME NEW tree \in Trees, IsInsert(tree), NEW input \in Seq(AnyToken), InsertTokens(input, tree),
         Len(tree.columns) \in Nat \ {0}, Len(tree.values) \in Nat \ {0}
  PROVE  InsertIntoTableSql(input) = tree
<1>1. PICK n \in Nat \ {0} : n = Len(tree.columns)
  OBVIOUS
<1>2. PICK m \in Nat \ {0} : m = Len(tree.values)
  OBVIOUS
<1>3. /\ Len(input) >= 7 + 2 * n + 2 * m
      /\ input[3] = Identifier(tree.table_name)
      /\ NameTokens(input, 5, tree.columns)
      /\ input[4 + 2 * n] = Mark(")")
      /\ ValueTokens(input, 7 + 2 * n, tree.values)
      /\ input[6 + 2 * n + 2 * m] = Mark(")")
  BY <1>1, <1>2, Zenon DEF InsertTokens
<1>4. /\ tree.columns \in Seq(Name) /\ tree.columns # <<>>
      /\ tree.values \in Seq(ValueText) /\ tree.values # <<>>
      /\ tree = [node |-> "INSERT_INTO_TABLE_NODE", table_name |-> tree.table_name,
                 columns |-> tree.columns, values |-> tree.values]
  BY Zenon DEF IsInsert
<1>13. /\ tree.columns \in Seq(Texts) /\ tree.columns # <<>>
       /\ tree.values \in Seq(Texts) /\ tree.values # <<>>
  <2>1. Seq(Name) \subseteq Seq(Texts) /\ Seq(ValueText) \subseteq Seq(Texts)
    BY NamesTyped, SeqMonotonic
  <2> QED
    BY <1>4, <2>1
<1>14. PICK from : from = 7 + 2 * n
  OBVIOUS
<1>15. /\ \A i \in 1 .. m : IsValue(input[from - 1 + (2 * i - 1)])
       /\ \A i \in 1 .. m - 1 : input[from - 1 + 2 * i] = Mark(",")
  <2>1. ValueTokens(input, from, tree.values)
    BY <1>3, <1>14, Zenon
  <2> QED
    BY <1>2, <2>1, Zenon DEF ValueTokens
<1>5. Len(input) \in Nat /\ ")" # "," /\ ")" # "*"
  BY LenProperties
<1>6. First(input, 5, Mark(")")) = 4 + 2 * n
  <2>1. \A j \in 5 .. (4 + 2 * n) - 1 : input[j] # Mark(")")
    <3> TAKE j \in 5 .. (4 + 2 * n) - 1
    <3>1. \/ (j - 3) \div 2 \in 1 .. n /\ j = 5 - 1 + (2 * ((j - 3) \div 2) - 1)
          \/ (j - 4) \div 2 \in 1 .. n - 1 /\ j = 5 - 1 + 2 * ((j - 4) \div 2)
      OBVIOUS
    <3>2. ASSUME NEW i \in 1 .. n, j = 5 - 1 + (2 * i - 1) PROVE input[j] # Mark(")")
      <4>1. input[j] = IF tree.columns[i] = "*" THEN Mark("*") ELSE Identifier(tree.columns[i])
        BY <1>1, <1>3, <3>2, Zenon DEF NameTokens
      <4> QED
        BY <1>5, <4>1, KindsOfTokens, Zenon
    <3>3. ASSUME NEW i \in 1 .. n - 1, j = 5 - 1 + 2 * i PROVE input[j] # Mark(")")
      <4>1. input[j] = Mark(",")
        BY <1>1, <1>3, <3>3, Zenon DEF NameTokens
      <4> QED
        BY <1>5, <4>1, KindsOfTokens, Zenon
    <3> QED
      BY <3>1, <3>2, <3>3, Zenon
  <2>2. 4 + 2 * n \in 5 .. Len(input) /\ 5 \in Nat
    BY <1>3, <1>5
  <2> QED
    BY <1>3, <1>5, <2>1, <2>2, FirstIs, Zenon
<1>7. First(input, 7 + 2 * n, Mark(")")) = 6 + 2 * n + 2 * m
  <2>1. \A j \in 7 + 2 * n .. (6 + 2 * n + 2 * m) - 1 : input[j] # Mark(")")
    <3> TAKE j \in 7 + 2 * n .. (6 + 2 * n + 2 * m) - 1
    <3>0. from \in Nat /\ j \in from .. from + 2 * m - 2
      BY <1>14
    <3>1. \/ (j - from + 2) \div 2 \in 1 .. m /\ j = from - 1 + (2 * ((j - from + 2) \div 2) - 1)
          \/ (j - from + 1) \div 2 \in 1 .. m - 1 /\ j = from - 1 + 2 * ((j - from + 1) \div 2)
      BY <3>0
    <3>2. ASSUME NEW i \in 1 .. m, j = from - 1 + (2 * i - 1) PROVE input[j] # Mark(")")
      <4>1. IsValue(input[j])
        BY <1>14, <1>15, <3>2, Zenon
      <4> QED
        BY <1>5, <4>1, KindsOfTokens, Zenon
    <3>3. ASSUME NEW i \in 1 .. m - 1, j = from - 1 + 2 * i PROVE input[j] # Mark(")")
      <4>1. input[j] = Mark(",")
        BY <1>14, <1>15, <3>3, Zenon
      <4> QED
        BY <1>5, <4>1, KindsOfTokens, Zenon
    <3> QED
      BY <3>1, <3>2, <3>3, Zenon
  <2>2. 6 + 2 * n + 2 * m \in 7 + 2 * n .. Len(input) /\ 7 + 2 * n \in Nat
    BY <1>3, <1>5
  <2> QED
    BY <1>3, <1>5, <2>1, <2>2, FirstIs, Zenon
<1>8. ValuesOf(Items(input, 5, 4 + 2 * n)) = tree.columns
  <2>1. PICK to : to = 4 + 2 * n
    OBVIOUS
  <2>2. 5 \in Nat \ {0} /\ to = 5 + 2 * n - 1 /\ to <= Len(input)
    BY <1>3, <1>5, <2>1
  <2>4. PICK names : names = tree.columns
    OBVIOUS
  <2>5. names \in Seq(Texts) /\ names # <<>> /\ n = Len(names)
    BY <1>1, <1>13, <2>4, Zenon
  <2>6. NameTokens(input, 5, names)
    BY <1>3, <2>4, Zenon
  <2>8. \A from_, to_ : /\ from_ \in Nat \ {0} /\ to_ = from_ + 2 * n - 1 /\ to_ <= Len(input)
                       /\ NameTokens(input, from_, names)
                       => ValuesOf(Items(input, from_, to_)) = names
    BY <2>5, NamesRead, Zenon
  <2>7. ValuesOf(Items(input, 5, to)) = names
    BY <2>2, <2>6, <2>8, Zenon
  <2>3. ValuesOf(Items(input, 5, to)) = tree.columns
    BY <2>4, <2>7, Zenon
  <2> QED
    BY <2>1, <2>3, Zenon
<1>9. ValuesOf(Items(input, 7 + 2 * n, 6 + 2 * n + 2 * m)) = tree.values
  <2>1. PICK to : to = 6 + 2 * n + 2 * m
    OBVIOUS
  <2>3. from \in Nat \ {0} /\ to = from + 2 * m - 1 /\ to <= Len(input)
    BY <1>3, <1>5, <1>14, <2>1
  <2>4. ValueTokens(input, from, tree.values)
    BY <1>3, <1>14, Zenon
  <2>6. PICK values : values = tree.values
    OBVIOUS
  <2>7. values \in Seq(Texts) /\ values # <<>> /\ m = Len(values) /\ ValueTokens(input, from, values)
    BY <1>2, <1>13, <2>4, <2>6, Zenon
  <2>9. \A from_, to_ : /\ from_ \in Nat \ {0} /\ to_ = from_ + 2 * m - 1 /\ to_ <= Len(input)
                       /\ ValueTokens(input, from_, values)
                       => ValuesOf(Items(input, from_, to_)) = values
    BY <2>7, ValuesRead, Zenon
  <2>8. ValuesOf(Items(input, from, to)) = values
    BY <2>3, <2>7, <2>9, Zenon
  <2>5. ValuesOf(Items(input, from, to)) = tree.values
    BY <2>6, <2>8, Zenon
  <2> QED
    BY <1>14, <2>1, <2>5, Zenon
<1>10. (4 + 2 * n) + 3 = 7 + 2 * n
  OBVIOUS
<1>11. input[3].value = tree.table_name
  BY <1>3, KindsOfTokens, Zenon
<1>12. InsertIntoTableSql(input) =
         [node |-> "INSERT_INTO_TABLE_NODE", table_name |-> input[3].value,
          columns |-> ValuesOf(Items(input, 5, First(input, 5, Mark(")")))),
          values |-> ValuesOf(Items(input, First(input, 5, Mark(")")) + 3,
                                    First(input, First(input, 5, Mark(")")) + 3, Mark(")"))))]
  BY Zenon DEF InsertIntoTableSql
<1> QED
  BY <1>4, <1>6, <1>7, <1>8, <1>9, <1>10, <1>11, <1>12, Zenon

-----------------------------------------------------------------------------
(* What a worker parses, and what it has found out.                        *)
FirstTokens(k) == ALL_PATTERNS[k][1].parts[1].templates

LEMMA LongEnough ==
  \A k \in 1 .. 4 : 1 \in 1 .. Len(ALL_PATTERNS[k]) /\ ~(1 > Len(ALL_PATTERNS[k]))
<1>1. \A n \in 1 .. 7 : 1 \in 1 .. n /\ ~(1 > n)
  OBVIOUS
<1> QED
  BY <1>1, PatternLengths, Zenon

LEMMA FirstTokensAre ==
  /\ \A k \in 1 .. 4 : ALL_PATTERNS[k][1].necessary /\ TokensKind(ALL_PATTERNS[k][1].parts)
  /\ FirstTokens(1) = <<Keyword("CREATE"), Keyword("DATABASE"), AnyIdentifier, Mark(";")>>
  /\ FirstTokens(2) = <<Keyword("CREATE"), Keyword("TABLE"), AnyIdentifier, Mark("("), AnyIdentifier>>
  /\ FirstTokens(3) = <<Keyword("INSERT"), Keyword("INTO"), AnyIdentifier, Mark("("), AnyIdentifier>>
  /\ FirstTokens(4) = <<Keyword("SELECT")>>
<1>1. /\ ALL_PATTERNS[1][1]
           = Tokens(<<Keyword("CREATE"), Keyword("DATABASE"), AnyIdentifier, Mark(";")>>)
      /\ ALL_PATTERNS[2][1]
           = Tokens(<<Keyword("CREATE"), Keyword("TABLE"), AnyIdentifier, Mark("("), AnyIdentifier>>)
      /\ ALL_PATTERNS[3][1]
           = Tokens(<<Keyword("INSERT"), Keyword("INTO"), AnyIdentifier, Mark("("), AnyIdentifier>>)
      /\ ALL_PATTERNS[4][1] = Tokens(<<Keyword("SELECT")>>)
  BY PatternsAre, Pattern1, Pattern2, Pattern3, Pattern4, Zenon
<1>2. \A t : Tokens(t).necessary /\ Tokens(t).parts[1].templates = t /\ Len(Tokens(t).parts) = 1
             /\ Tokens(t).parts[1].range = Empty
  BY TokensParts, Zenon DEF IsCertain
<1>3. \A k \in 1 .. 4 : k = 1 \/ k = 2 \/ k = 3 \/ k = 4
  OBVIOUS
<1>4. \A k \in 1 .. 4 : \E t : ALL_PATTERNS[k][1] = Tokens(t)
  BY <1>1, <1>3, Zenon
<1>5. ASSUME NEW k \in 1 .. 4
      PROVE  ALL_PATTERNS[k][1].necessary /\ TokensKind(ALL_PATTERNS[k][1].parts)
  <2>1. ALL_PATTERNS[k][1].necessary /\ Len(ALL_PATTERNS[k][1].parts) = 1
        /\ ALL_PATTERNS[k][1].parts[1].range = Empty
    <3>1. PICK t : ALL_PATTERNS[k][1] = Tokens(t)
      BY <1>4
    <3> QED
      BY <1>2, <3>1, ZenonT(60)
  <2>2. 1 \in 1 .. Len(ALL_PATTERNS[k])
    BY LongEnough, Zenon
  <2>3. IsElement(ALL_PATTERNS[k][1])
    BY <2>2, PatternElements, Zenon DEF IsPattern
  <2>4. \/ TokensKind(ALL_PATTERNS[k][1].parts) \/ ChoiceKind(ALL_PATTERNS[k][1].parts)
        \/ ColumnKind(ALL_PATTERNS[k][1].parts)
        \/ WhereKind(ALL_PATTERNS[k][1].parts) \/ NextKind(ALL_PATTERNS[k][1].parts)
    BY <2>3, Kinds, Zenon
  <2>5. 1 # 2 /\ 1 # 3 /\ 1 # 4
    OBVIOUS
  <2>6. "VALUE_TYPE" # Empty /\ "FIRST_COL" # Empty
    BY RangesNamed DEF RangeName
  <2> QED
    BY <2>1, <2>4, <2>5, <2>6, Zenon DEF ColumnKind, WhereKind, NextKind, ChoiceKind, IsRange
<1> QED
  BY <1>1, <1>2, <1>5, Zenon DEF FirstTokens

-----------------------------------------------------------------------------
(* Statements of five blocks.                                              *)
LEMMA BlocksLie ==
  ASSUME NEW words \in Seq(AnyWord), NEW s \in Seq(AnyWord), Lies(s, words, 0),
         NEW a \in Seq(AnyWord), NEW b \in Seq(AnyWord), NEW c \in Seq(AnyWord), NEW d \in Seq(AnyWord),
         NEW e \in Seq(AnyWord), IsFive(s, a, b, c, d, e)
  PROVE  /\ Len(s) = Len(a) + Len(b) + Len(c) + Len(d) + Len(e)
         /\ Lies(a, words, 0) /\ Lies(b, words, Len(a)) /\ Lies(c, words, Len(a) + Len(b))
         /\ Lies(d, words, Len(a) + Len(b) + Len(c)) /\ Lies(e, words, Len(a) + Len(b) + Len(c) + Len(d))
<1>1. /\ Len(s) = Len(a) + Len(b) + Len(c) + Len(d) + Len(e)
      /\ Lies(a, s, 0) /\ Lies(b, s, Len(a)) /\ Lies(c, s, Len(a) + Len(b))
      /\ Lies(d, s, Len(a) + Len(b) + Len(c)) /\ Lies(e, s, Len(a) + Len(b) + Len(c) + Len(d))
  BY FiveLie, SMTT(60)
<1>2. /\ Len(a) \in Nat /\ Len(b) \in Nat /\ Len(c) \in Nat /\ Len(d) \in Nat /\ Len(e) \in Nat
      /\ Len(s) \in Nat /\ Len(words) \in Nat
  BY LenProperties
<1>3. /\ 0 \in Nat /\ Len(a) + Len(b) \in Nat /\ Len(a) + Len(b) + Len(c) \in Nat
      /\ Len(a) + Len(b) + Len(c) + Len(d) \in Nat
  BY <1>2
<1>4. \A block, o : o \in Nat /\ Len(block) \in Nat /\ Lies(block, s, o) => Lies(block, words, o)
  BY <1>2, LiesFirst
<1> QED
  BY <1>1, <1>2, <1>3, <1>4, Zenon

ColumnTokens(input, from, columns) ==
  /\ \A i \in 1 .. Len(columns) :
       /\ input[from - 1 + (3 * i - 2)] = Identifier(columns[i].col_name)
       /\ input[from - 1 + (3 * i - 1)] = Keyword(columns[i].value_type)
  /\ \A i \in 1 .. Len(columns) - 1 : input[from - 1 + 3 * i] = Mark(",")

AnyColumn == [col_name : Name, value_type : ValueTypes \cup {"VECTOR"}]

LEMMA AnyColumnIs ==
  /\ \A c \in AnyColumn : /\ c.col_name \in Texts /\ c.col_name \notin KEY_WORDS
                          /\ c.value_type \in Texts /\ c.value_type \in KEY_WORDS
  /\ AnyColumn \subseteq [col_name : Texts, value_type : Texts]
<1>1. ASSUME NEW c \in AnyColumn
      PROVE  /\ c.col_name \in Texts /\ c.col_name \notin KEY_WORDS
             /\ c.value_type \in Texts /\ c.value_type \in KEY_WORDS
  <2>1. c.col_name \in Name /\ c.value_type \in ValueTypes \cup {"VECTOR"}
    BY DEF AnyColumn
  <2> QED
    BY <2>1, NamesTyped, Zenon
<1>2. \A c \in AnyColumn : c = [col_name |-> c.col_name, value_type |-> c.value_type]
  BY DEF AnyColumn
<1>3. AnyColumn \subseteq [col_name : Texts, value_type : Texts]
  BY <1>1, <1>2
<1> QED
  BY <1>1, <1>3

LEMMA ColumnsLie ==
  ASSUME NEW words \in Seq(AnyWord), NEW input, input = Tokenize(words), input # <<>>,
         NEW columns \in Seq(AnyColumn), columns # <<>>, NEW s,
         s = Separated([i \in DOMAIN columns |->
                          Words(<<columns[i].col_name, columns[i].value_type>>)])
  PROVE  /\ s \in Seq(AnyWord) /\ Len(columns) \in Nat \ {0}
         /\ Len(s) = 3 * Len(columns) - 1
         /\ \A o \in Nat : Lies(s, words, o) => ColumnTokens(input, o + 1, columns)
<1> DEFINE n == Len(columns)
           list == [i \in 1 .. n |-> ColumnWords(columns[i])]
<1>1. columns \in Seq([col_name : Texts, value_type : Texts])
  BY AnyColumnIs, SeqMonotonic
<1>2. /\ s = Separated(list) /\ list \in [1 .. n -> Seq(AnyWord)]
      /\ s \in Seq(AnyWord)
  BY <1>1, ColumnsAre, Zenon
<1>3. n \in Nat \ {0} /\ \A i \in 1 .. n : columns[i] \in AnyColumn
  BY EmptySeq, LenProperties
<1>4. ASSUME NEW i \in 1 .. n
      PROVE  /\ Len(list[i]) = 2
             /\ list[i][1] = Text("word", columns[i].col_name)
             /\ list[i][2] = Text("word", columns[i].value_type)
  <2>1. columns[i].col_name \in Texts /\ columns[i].value_type \in Texts
    BY <1>3, AnyColumnIs
  <2>2. PICK q : q = <<columns[i].col_name, columns[i].value_type>>
    OBVIOUS
  <2>3. q \in Seq(Texts) /\ Len(q) = 2 /\ q[1] = columns[i].col_name /\ q[2] = columns[i].value_type
    BY <2>1, <2>2, TextTuples, Zenon
  <2>4. Len(Words(q)) = Len(q) /\ \A j \in 1 .. Len(q) : Words(q)[j] = Text("word", q[j])
    BY <2>3, WordsAre
  <2>5. 1 \in 1 .. 2 /\ 2 \in 1 .. 2
    OBVIOUS
  <2>6. list[i] = Words(q)
    BY <2>2, Zenon DEF ColumnWords
  <2> QED
    BY <2>3, <2>4, <2>5, <2>6, Zenon
<1> HIDE DEF list
<1>5. IsSpread(s, list, n, 2)
  <2>1. 2 \in {1, 2}
    OBVIOUS
  <2> QED
    BY <1>2, <1>3, <1>4, <2>1, SeparatedSpread, Zenon
<1> HIDE DEF n
<1>6. /\ Len(s) = 3 * n - 1
      /\ \A i \in 1 .. n : /\ s[3 * i - 2] = Text("word", columns[i].col_name) /\ 3 * i - 2 \in 1 .. Len(s)
                           /\ s[3 * i - 1] = Text("word", columns[i].value_type) /\ 3 * i - 1 \in 1 .. Len(s)
      /\ \A i \in 1 .. n - 1 : s[3 * i] = Text("mark", ",") /\ 3 * i \in 1 .. Len(s)
  <2>1. /\ Len(s) = (2 + 1) * n - 1
        /\ \A i \in 1 .. n : \A j \in 1 .. 2 : s[(2 + 1) * (i - 1) + j] = list[i][j]
        /\ \A i \in 1 .. n - 1 : s[(2 + 1) * i] = Text("mark", ",")
    BY <1>5, Zenon DEF IsSpread
  <2>2. /\ (2 + 1) * n - 1 = 3 * n - 1 /\ 1 \in 1 .. 2 /\ 2 \in 1 .. 2
        /\ \A i \in 1 .. n : /\ (2 + 1) * (i - 1) + 1 = 3 * i - 2 /\ (2 + 1) * (i - 1) + 2 = 3 * i - 1
                             /\ 3 * i - 2 \in 1 .. 3 * n - 1 /\ 3 * i - 1 \in 1 .. 3 * n - 1
        /\ \A i \in 1 .. n - 1 : (2 + 1) * i = 3 * i /\ 3 * i \in 1 .. 3 * n - 1
    BY <1>3
  <2>3. \A i \in 1 .. n : s[3 * i - 2] = list[i][1] /\ s[3 * i - 1] = list[i][2]
    BY <2>1, <2>2, Zenon
  <2>4. \A i \in 1 .. n - 1 : s[3 * i] = Text("mark", ",")
    BY <2>1, <2>2, Zenon
  <2> QED
    BY <1>4, <2>1, <2>2, <2>3, <2>4, Zenon
<1>7. \A i \in 1 .. n : /\ TokenOf(Text("word", columns[i].col_name)) = Identifier(columns[i].col_name)
                        /\ TokenOf(Text("word", columns[i].value_type)) = Keyword(columns[i].value_type)
  BY <1>3, AnyColumnIs, TokensOfWords, Zenon
<1>8. TokenOf(Text("mark", ",")) = Mark(",")
  <2>1. "," \in Texts
    BY Zenon DEF Texts
  <2> QED
    BY <2>1, TokensOfWords
<1>9. Len(s) \in Nat
  BY <1>2, LenProperties
<1>10. ASSUME NEW o \in Nat, Lies(s, words, o)
       PROVE  ColumnTokens(input, o + 1, columns)
  <2>1. \A j \in 1 .. Len(s) : input[o + j] = TokenOf(s[j])
    BY <1>9, <1>10, TokensLie
  <2>2. \A i \in 1 .. n : /\ input[o + (3 * i - 2)] = Identifier(columns[i].col_name)
                          /\ input[o + (3 * i - 1)] = Keyword(columns[i].value_type)
    BY <1>6, <1>7, <2>1, Zenon
  <2>3. \A i \in 1 .. n - 1 : input[o + 3 * i] = Mark(",")
    BY <1>6, <1>8, <2>1, Zenon
  <2>4. (o + 1) - 1 = o
    OBVIOUS
  <2> QED
    BY <2>2, <2>3, <2>4, Zenon DEF ColumnTokens, n
<1> QED
  BY <1>2, <1>3, <1>6, <1>10, Zenon DEF n

TableTokens(input, tree) ==
  LET n == Len(tree.columns)
  IN  /\ Len(input) >= 5 + 3 * n
      /\ input[1] = Keyword("CREATE") /\ input[2] = Keyword("TABLE")
      /\ input[3] = Identifier(tree.table_name) /\ input[4] = Mark("(")
      /\ ColumnTokens(input, 5, tree.columns)
      /\ input[4 + 3 * n] = Mark(")") /\ input[5 + 3 * n] = Mark(";")

(* Words and marks where they lie.                                         *)
LEMMA WordsThere ==
  ASSUME NEW words \in Seq(AnyWord), NEW input, input = Tokenize(words), input # <<>>
  PROVE  /\ \A a \in Texts, o \in Nat : Lies(Words(<<a>>), words, o) => input[o + 1] = WordToken(a)
         /\ \A a, b \in Texts, o \in Nat : Lies(Words(<<a, b>>), words, o) =>
              input[o + 1] = WordToken(a) /\ input[o + 2] = WordToken(b)
         /\ \A a, b, c \in Texts, o \in Nat : Lies(Words(<<a, b, c>>), words, o) =>
              input[o + 1] = WordToken(a) /\ input[o + 2] = WordToken(b) /\ input[o + 3] = WordToken(c)
         /\ \A m \in Texts, o \in Nat : Lies(Marked(m), words, o) => input[o + 1] = Mark(m)
<1>1. \A texts \in Seq(Texts), o \in Nat : Lies(Words(texts), words, o) =>
         \A j \in 1 .. Len(texts) : input[o + j] = WordToken(texts[j])
  BY WordsLie
<1>2. \A m \in Texts, o \in Nat : Lies(Marked(m), words, o) => input[o + 1] = Mark(m)
  BY MarkLies, Zenon
<1>3. 1 \in 1 .. 1 /\ 1 \in 1 .. 2 /\ 2 \in 1 .. 2 /\ 1 \in 1 .. 3 /\ 2 \in 1 .. 3 /\ 3 \in 1 .. 3
  OBVIOUS
<1>4. ASSUME NEW a \in Texts, NEW o \in Nat, Lies(Words(<<a>>), words, o) PROVE input[o + 1] = WordToken(a)
  <2>1. PICK q : q = <<a>>
    OBVIOUS
  <2>2. q \in Seq(Texts) /\ Len(q) = 1 /\ q[1] = a
    BY <2>1, TextTuples, Zenon
  <2> QED
    BY <1>1, <1>3, <1>4, <2>1, <2>2, Zenon
<1>5. ASSUME NEW a \in Texts, NEW b \in Texts, NEW o \in Nat, Lies(Words(<<a, b>>), words, o)
      PROVE  input[o + 1] = WordToken(a) /\ input[o + 2] = WordToken(b)
  <2>1. PICK q : q = <<a, b>>
    OBVIOUS
  <2>2. q \in Seq(Texts) /\ Len(q) = 2 /\ q[1] = a /\ q[2] = b
    BY <2>1, TextTuples, Zenon
  <2> QED
    BY <1>1, <1>3, <1>5, <2>1, <2>2, Zenon
<1>6. ASSUME NEW a \in Texts, NEW b \in Texts, NEW c \in Texts, NEW o \in Nat,
             Lies(Words(<<a, b, c>>), words, o)
      PROVE  input[o + 1] = WordToken(a) /\ input[o + 2] = WordToken(b) /\ input[o + 3] = WordToken(c)
  <2>1. PICK q : q = <<a, b, c>>
    OBVIOUS
  <2>2. q \in Seq(Texts) /\ Len(q) = 3 /\ q[1] = a /\ q[2] = b /\ q[3] = c
    BY <2>1, TextTuples, Zenon
  <2> QED
    BY <1>1, <1>3, <1>6, <2>1, <2>2, Zenon
<1> QED
  BY <1>2, <1>4, <1>5, <1>6, Zenon

LEMMA WordTokens ==
  /\ \A k \in KEY_WORDS : WordToken(k) = Keyword(k)
  /\ \A i \in Name : WordToken(i) = Identifier(i) /\ i \in Texts
  /\ {"CREATE", "DATABASE", "TABLE", "INSERT", "INTO", "VALUES", "SELECT", "FROM", "WHERE",
      "AND", "OR"} \subseteq KEY_WORDS \cap Texts
  /\ {"(", ")", ",", ";", "=", "<", ">", "!"} \subseteq Texts
<1>1. /\ \A k \in KEY_WORDS : WordToken(k) = Keyword(k)
      /\ \A i \in Name : WordToken(i) = Identifier(i) /\ i \in Texts
  BY NamesTyped, Zenon DEF WordToken
<1>2. {"(", ")", ",", ";", "=", "<", ">", "!"} \subseteq Texts
  BY Zenon DEF Texts
<1> QED
  BY <1>1, <1>2, WordTexts, Zenon

LEMMA StatementHead ==
  ASSUME NEW tree \in Trees, NEW behind \in Seq(AnyWord), NEW words, words = Statement(tree) \o behind
  PROVE  /\ Statement(tree) \in Seq(AnyWord) /\ Lies(Statement(tree), words, 0)
         /\ words \in Seq(AnyWord) /\ Len(words) \in Nat /\ Len(Statement(tree)) \in Nat
         /\ Len(behind) \in Nat /\ Len(words) = Len(Statement(tree)) + Len(behind)
         /\ Len(words) >= Len(Statement(tree))
<1>1. PICK s : s = Statement(tree)
  OBVIOUS
<1>2. s \in Seq(AnyWord)
  BY <1>1, StatementIn
<1>3. words \in Seq(AnyWord) /\ Len(words) = Len(s) + Len(behind) /\ Lies(s, words, 0)
  BY <1>1, <1>2, ConcatLies
<1>4. Len(words) \in Nat /\ Len(s) \in Nat /\ Len(behind) \in Nat
  BY <1>2, <1>3, LenProperties
<1> QED
  BY <1>1, <1>2, <1>3, <1>4

DatabaseTokens(input, tree) ==
  /\ input[1] = Keyword("CREATE") /\ input[2] = Keyword("DATABASE")
  /\ input[3] = Identifier(tree.db_name) /\ input[4] = Mark(";")

LEMMA DatabaseLies ==
  ASSUME NEW tree \in Trees, IsDatabase(tree), NEW behind \in Seq(AnyWord),
         NEW input, input = Tokenize(Statement(tree) \o behind), input # <<>>
  PROVE  DatabaseTokens(input, tree) /\ Len(Statement(tree)) = 4
<1>1. PICK words : words = Statement(tree) \o behind
  OBVIOUS
<1>2. words \in Seq(AnyWord) /\ input = Tokenize(words)
  BY <1>1, StatementLies
<1>3. tree.db_name \in Name
  BY Zenon DEF IsDatabase
<1>4. PICK a, b : a = Words(<<"CREATE", "DATABASE", tree.db_name>>) /\ b = Marked(";")
  BY Zenon
<1>5. PICK s : s = Statement(tree)
  OBVIOUS
<1>6. s = a \o b
  BY <1>4, <1>5, StatementsAre, Zenon DEF IsDatabase
<1>7. /\ "CREATE" \in Texts /\ "DATABASE" \in Texts /\ tree.db_name \in Texts /\ ";" \in Texts
      /\ WordToken("CREATE") = Keyword("CREATE") /\ WordToken("DATABASE") = Keyword("DATABASE")
      /\ WordToken(tree.db_name) = Identifier(tree.db_name)
  BY <1>3, WordTokens, Zenon
<1>8. a \in Seq(AnyWord) /\ Len(a) = 3
  <2>1. PICK q : q = <<"CREATE", "DATABASE", tree.db_name>>
    OBVIOUS
  <2>2. q \in Seq(Texts) /\ Len(q) = 3
    BY <1>7, <2>1, TextTuples, Zenon
  <2> QED
    BY <1>4, <2>1, <2>2, WordsAre, Zenon
<1>9. b \in Seq(AnyWord) /\ Len(b) = 1
  BY <1>4, <1>7, TextsAre, Zenon
<1>10. Len(s) = Len(a) + Len(b) /\ Lies(a, s, 0) /\ Lies(b, s, Len(a))
  BY <1>6, <1>8, <1>9, ConcatLies
<1>11. \A block \in Seq(AnyWord), o \in Nat : Lies(block, s, o) => Lies(block, words, o)
  BY <1>1, <1>5, StatementLies, Zenon
<1>12. Lies(a, words, 0) /\ Lies(b, words, 3) /\ 0 \in Nat /\ 3 \in Nat
  <2>1. 0 \in Nat /\ 3 \in Nat
    OBVIOUS
  <2> QED
    BY <1>8, <1>9, <1>10, <1>11, <2>1, Zenon
<1>13. /\ input[0 + 1] = Keyword("CREATE") /\ input[0 + 2] = Keyword("DATABASE")
       /\ input[0 + 3] = Identifier(tree.db_name) /\ input[3 + 1] = Mark(";")
  <2>1. \A texts \in Seq(Texts), o \in Nat : Lies(Words(texts), words, o) =>
         \A j \in 1 .. Len(texts) : input[o + j] = WordToken(texts[j])
    BY <1>2, WordsLie
  <2>2. \A m \in Texts, o \in Nat : Lies(Marked(m), words, o) => input[o + 1] = Mark(m)
    BY <1>2, WordsThere
  <2>3. /\ Lies(Words(<<"CREATE", "DATABASE", tree.db_name>>), words, 0) /\ Lies(Marked(";"), words, 3)
    BY <1>4, <1>12, Zenon
  <2>4. /\ input[0 + 1] = WordToken("CREATE") /\ input[0 + 2] = WordToken("DATABASE")
        /\ input[0 + 3] = WordToken(tree.db_name)
    <3>1. PICK q : q = <<"CREATE", "DATABASE", tree.db_name>>
      OBVIOUS
    <3>2. /\ q \in Seq(Texts) /\ Len(q) = 3
          /\ q[1] = "CREATE" /\ q[2] = "DATABASE" /\ q[3] = tree.db_name
      BY <1>7, <3>1, TextTuples, Zenon
    <3>3. \A j \in 1 .. 3 : input[0 + j] = WordToken(q[j])
      BY <2>1, <2>3, <1>12, <3>1, <3>2, Zenon
    <3>4. 1 \in 1 .. 3 /\ 2 \in 1 .. 3 /\ 3 \in 1 .. 3
      OBVIOUS
    <3> QED
      BY <3>2, <3>3, <3>4, Zenon
  <2>5. input[3 + 1] = Mark(";")
    BY <1>7, <1>12, <2>2, <2>3, Zenon
  <2> QED
    BY <1>7, <2>4, <2>5, Zenon
<1>14. 0 + 1 = 1 /\ 0 + 2 = 2 /\ 0 + 3 = 3 /\ 3 + 1 = 4
  OBVIOUS
<1> QED
  BY <1>5, <1>8, <1>9, <1>10, <1>13, <1>14, Zenon DEF DatabaseTokens

LEMMA TableLies ==
  ASSUME NEW tree \in Trees, IsTable(tree), NEW behind \in Seq(AnyWord),
         NEW input, input = Tokenize(Statement(tree) \o behind), input # <<>>
  PROVE  /\ TableTokens(input, tree) /\ Len(tree.columns) \in Nat \ {0}
         /\ Len(Statement(tree)) = 5 + 3 * Len(tree.columns)
<1>1. PICK words : words = Statement(tree) \o behind
  OBVIOUS
<1>2. words \in Seq(AnyWord) /\ input = Tokenize(words)
  BY <1>1, StatementLies
<1>3. tree.table_name \in Name /\ tree.columns \in Seq(AnyColumn) /\ tree.columns # <<>>
  BY Zenon DEF IsTable, AnyColumn
<1>4. PICK a, b, c, d, e :
        /\ a = Words(<<"CREATE", "TABLE", tree.table_name>>) /\ b = Marked("(")
        /\ c = Separated([i \in DOMAIN tree.columns |->
                           Words(<<tree.columns[i].col_name, tree.columns[i].value_type>>)])
        /\ d = Marked(")") /\ e = Marked(";")
  BY Zenon
<1>5. IsFive(Statement(tree), a, b, c, d, e)
  BY <1>4, StatementsAre, Zenon DEF IsTable, IsFive
<1>6. /\ "CREATE" \in Texts /\ "TABLE" \in Texts /\ tree.table_name \in Texts
      /\ ";" \in Texts /\ "(" \in Texts /\ ")" \in Texts
      /\ WordToken("CREATE") = Keyword("CREATE") /\ WordToken("TABLE") = Keyword("TABLE")
      /\ WordToken(tree.table_name) = Identifier(tree.table_name)
  BY <1>3, WordTokens, Zenon
<1>7. a \in Seq(AnyWord) /\ Len(a) = 3
  <2>1. PICK q : q = <<"CREATE", "TABLE", tree.table_name>>
    OBVIOUS
  <2>2. q \in Seq(Texts) /\ Len(q) = 3
    BY <1>6, <2>1, TextTuples, Zenon
  <2> QED
    BY <1>4, <2>1, <2>2, WordsAre, Zenon
<1>8. /\ b \in Seq(AnyWord) /\ Len(b) = 1 /\ d \in Seq(AnyWord) /\ Len(d) = 1
      /\ e \in Seq(AnyWord) /\ Len(e) = 1
  BY <1>4, <1>6, TextsAre, Zenon
<1>9. /\ c \in Seq(AnyWord) /\ Len(tree.columns) \in Nat \ {0} /\ Len(c) = 3 * Len(tree.columns) - 1
      /\ \A o \in Nat : Lies(c, words, o) => ColumnTokens(input, o + 1, tree.columns)
  BY <1>2, <1>3, <1>4, ColumnsLie, Zenon
<1>10. PICK n \in Nat \ {0} : n = Len(tree.columns)
  BY <1>9, Zenon
<1>18. /\ Statement(tree) \in Seq(AnyWord) /\ Lies(Statement(tree), words, 0)
       /\ Len(words) \in Nat /\ Len(words) >= Len(Statement(tree))
  BY <1>1, StatementHead
<1>11. /\ Len(Statement(tree)) = Len(a) + Len(b) + Len(c) + Len(d) + Len(e)
       /\ Lies(a, words, 0) /\ Lies(b, words, Len(a)) /\ Lies(c, words, Len(a) + Len(b))
       /\ Lies(d, words, Len(a) + Len(b) + Len(c)) /\ Lies(e, words, Len(a) + Len(b) + Len(c) + Len(d))
  <2>1. a \in Seq(AnyWord) /\ b \in Seq(AnyWord) /\ c \in Seq(AnyWord) /\ d \in Seq(AnyWord)
        /\ e \in Seq(AnyWord)
    BY <1>7, <1>8, <1>9, Zenon
  <2> QED
    BY <1>2, <1>5, <1>18, <2>1, BlocksLie
<1>12. /\ 3 + 1 = 4 /\ 4 + 1 = 5 /\ 3 + 1 + (3 * n - 1) = 3 + 3 * n /\ (3 + 3 * n) + 1 = 4 + 3 * n
       /\ (4 + 3 * n) + 1 = 5 + 3 * n /\ 0 + 1 = 1 /\ 0 + 2 = 2 /\ 0 + 3 = 3
       /\ 0 \in Nat /\ 3 \in Nat /\ 4 \in Nat /\ 3 + 3 * n \in Nat /\ 4 + 3 * n \in Nat
  OBVIOUS
<1>13. /\ Len(Statement(tree)) = 5 + 3 * n
       /\ Lies(a, words, 0) /\ Lies(b, words, 3) /\ Lies(c, words, 4) /\ Lies(d, words, 3 + 3 * n)
       /\ Lies(e, words, 4 + 3 * n)
  BY <1>7, <1>8, <1>9, <1>10, <1>11, <1>12, Zenon
<1>14. Len(input) = Len(words)
  <2>1. Len(a) \in Nat
    BY <1>7
  <2> QED
    BY <1>2, <1>12, <1>13, <2>1, TokensLie
<1>15. /\ input[0 + 1] = Keyword("CREATE") /\ input[0 + 2] = Keyword("TABLE")
       /\ input[0 + 3] = Identifier(tree.table_name)
       /\ input[3 + 1] = Mark("(") /\ input[(3 + 3 * n) + 1] = Mark(")")
       /\ input[(4 + 3 * n) + 1] = Mark(";")
  <2>1. \A texts \in Seq(Texts), o \in Nat : Lies(Words(texts), words, o) =>
         \A j \in 1 .. Len(texts) : input[o + j] = WordToken(texts[j])
    BY <1>2, WordsLie
  <2>2. \A m \in Texts, o \in Nat : Lies(Marked(m), words, o) => input[o + 1] = Mark(m)
    BY <1>2, WordsThere
  <2>3. /\ Lies(Words(<<"CREATE", "TABLE", tree.table_name>>), words, 0) /\ Lies(Marked("("), words, 3)
        /\ Lies(Marked(")"), words, 3 + 3 * n) /\ Lies(Marked(";"), words, 4 + 3 * n)
    BY <1>4, <1>13, Zenon
  <2>4. /\ input[0 + 1] = WordToken("CREATE") /\ input[0 + 2] = WordToken("TABLE")
        /\ input[0 + 3] = WordToken(tree.table_name)
    <3>1. PICK q : q = <<"CREATE", "TABLE", tree.table_name>>
      OBVIOUS
    <3>2. /\ q \in Seq(Texts) /\ Len(q) = 3
          /\ q[1] = "CREATE" /\ q[2] = "TABLE" /\ q[3] = tree.table_name
      BY <1>6, <3>1, TextTuples, Zenon
    <3>3. \A j \in 1 .. 3 : input[0 + j] = WordToken(q[j])
      BY <2>1, <2>3, <1>12, <3>1, <3>2, Zenon
    <3>4. 1 \in 1 .. 3 /\ 2 \in 1 .. 3 /\ 3 \in 1 .. 3
      OBVIOUS
    <3> QED
      BY <3>2, <3>3, <3>4, Zenon
  <2>5. /\ input[3 + 1] = Mark("(") /\ input[(3 + 3 * n) + 1] = Mark(")")
        /\ input[(4 + 3 * n) + 1] = Mark(";")
    BY <1>6, <1>12, <2>2, <2>3, Zenon
  <2> QED
    BY <1>6, <2>4, <2>5, Zenon
<1>16. ColumnTokens(input, 5, tree.columns)
  BY <1>9, <1>12, <1>13, Zenon
<1>17. Len(input) >= 5 + 3 * n
  BY <1>13, <1>14, <1>18
<1> QED
  BY <1>9, <1>10, <1>12, <1>13, <1>15, <1>16, <1>17, Zenon DEF TableTokens

(* The words of a SELECT's conditions.                                     *)
Where(tree) == FlattenSeq([i \in 1 .. Len(tree.compare_vector) |-> ConditionWords(tree, i)])

SelectTokens(input, tree) ==
  LET n == Len(tree.columns)
  IN  /\ Len(input) >= 3 + 2 * n + Len(Where(tree))
      /\ input[1] = Keyword("SELECT") /\ NameTokens(input, 2, tree.columns)
      /\ input[1 + 2 * n] = Keyword("FROM") /\ input[2 + 2 * n] = Identifier(tree.table_name)
      /\ \A j \in 1 .. Len(Where(tree)) : input[2 + 2 * n + j] = TokenOf(Where(tree)[j])
      /\ input[3 + 2 * n + Len(Where(tree))] = Mark(";")

LEMMA WhereIn ==
  ASSUME NEW tree, IsSelect(tree)
  PROVE  /\ Where(tree) \in Seq(AnyWord) /\ Len(Where(tree)) \in Nat /\ Len(tree.compare_vector) \in Nat
         /\ DOMAIN tree.compare_vector = 1 .. Len(tree.compare_vector)
         /\ [i \in 1 .. Len(tree.compare_vector) |-> ConditionWords(tree, i)]
              \in [1 .. Len(tree.compare_vector) -> Seq(AnyWord)]
<1> DEFINE n == Len(tree.compare_vector)
           list == [i \in 1 .. n |-> ConditionWords(tree, i)]
<1>1. tree.compare_vector \in Seq([col : Name, condition : Comparators, compare_value : ValueText])
  BY Zenon DEF IsSelect
<1>2. n \in Nat /\ DOMAIN tree.compare_vector = 1 .. n
  BY <1>1, LenProperties
<1>3. \A i \in 1 .. n : ConditionWords(tree, i) \in Seq(AnyWord)
  BY ConditionIn
<1>4. list \in [1 .. n -> Seq(AnyWord)]
  <2> HIDE DEF n
  <2> QED
    BY <1>3
<1>5. Where(tree) = FlattenSeq(list)
  BY Zenon DEF Where
<1> HIDE DEF n, list
<1>6. Where(tree) \in Seq(AnyWord)
  BY <1>2, <1>4, <1>5, FlattenBlocks
<1> QED
  BY <1>2, <1>4, <1>6, LenProperties DEF n, list

LEMMA ColumnNames ==
  ASSUME NEW tree, IsSelect(tree)
  PROVE  /\ tree.columns \in Seq(Texts) /\ tree.columns # <<>>
         /\ \A i \in 1 .. Len(tree.columns) : tree.columns[i] \notin KEY_WORDS
<1>1. (tree.columns \in Seq(Name) /\ tree.columns # <<>>) \/ tree.columns = <<"*">>
  BY Zenon DEF IsSelect
<1>2. CASE tree.columns \in Seq(Name) /\ tree.columns # <<>>
  <2>1. Seq(Name) \subseteq Seq(Texts)
    BY NamesTyped
  <2>2. \A i \in 1 .. Len(tree.columns) : tree.columns[i] \in Name
    BY <1>2, LenProperties
  <2> QED
    BY <1>2, <2>1, <2>2, NamesTyped, Zenon
<1>3. CASE tree.columns = <<"*">>
  <2>1. PICK q : q = <<"*">>
    OBVIOUS
  <2>2. q \in Seq(Texts) /\ Len(q) = 1 /\ q[1] = "*" /\ "*" \notin KEY_WORDS
    <3>1. "*" \notin KEY_WORDS
      BY DEF KEY_WORDS
    <3> QED
      BY <2>1, <3>1, NamesTyped, TextTuples, Zenon
  <2>3. q # <<>> /\ \A i \in 1 .. 1 : i = 1
    <3>1. q # <<>>
      <4>1. Len(<<>>) # 1
        OBVIOUS
      <4> QED
        BY <2>2, <4>1, Zenon
    <3>2. \A i \in 1 .. 1 : i = 1
      OBVIOUS
    <3> QED
      BY <3>1, <3>2
  <2> QED
    BY <1>3, <2>1, <2>2, <2>3, Zenon
<1> QED
  BY <1>1, <1>2, <1>3

LEMMA SelectLies ==
  ASSUME NEW tree \in Trees, IsSelect(tree), NEW behind \in Seq(AnyWord),
         NEW input, input = Tokenize(Statement(tree) \o behind), input # <<>>
  PROVE  /\ SelectTokens(input, tree) /\ Len(tree.columns) \in Nat \ {0}
         /\ Len(Statement(tree)) = 3 + 2 * Len(tree.columns) + Len(Where(tree))
<1>1. PICK words : words = Statement(tree) \o behind
  OBVIOUS
<1>2. words \in Seq(AnyWord) /\ input = Tokenize(words)
  BY <1>1, StatementLies
<1>3. tree.table_name \in Name
  BY Zenon DEF IsSelect
<1>4. PICK a, b, c, d, e :
        /\ a = Words(<<"SELECT">>) /\ b = Names(tree.columns)
        /\ c = Words(<<"FROM", tree.table_name>>)
        /\ d = Where(tree) /\ e = Marked(";")
  BY Zenon
<1>5. IsFive(Statement(tree), a, b, c, d, e)
  <2>1. Where(tree) = FlattenSeq([i \in DOMAIN tree.compare_vector |-> ConditionWords(tree, i)])
    BY WhereIn, Zenon DEF Where
  <2> QED
    BY <1>4, <2>1, StatementsAre, Zenon DEF IsSelect, IsFive
<1>6. /\ "SELECT" \in Texts /\ "FROM" \in Texts /\ tree.table_name \in Texts /\ ";" \in Texts
      /\ WordToken("SELECT") = Keyword("SELECT") /\ WordToken("FROM") = Keyword("FROM")
      /\ WordToken(tree.table_name) = Identifier(tree.table_name)
  BY <1>3, WordTokens, Zenon
<1>7. a \in Seq(AnyWord) /\ Len(a) = 1 /\ c \in Seq(AnyWord) /\ Len(c) = 2
  <2>1. PICK q : q = <<"SELECT">>
    OBVIOUS
  <2>2. q \in Seq(Texts) /\ Len(q) = 1
    BY <1>6, <2>1, TextTuples, Zenon
  <2>3. PICK r : r = <<"FROM", tree.table_name>>
    OBVIOUS
  <2>4. r \in Seq(Texts) /\ Len(r) = 2
    BY <1>6, <2>3, TextTuples, Zenon
  <2> QED
    BY <1>4, <2>1, <2>2, <2>3, <2>4, WordsAre, Zenon
<1>8. e \in Seq(AnyWord) /\ Len(e) = 1 /\ d \in Seq(AnyWord) /\ Len(d) \in Nat
  BY <1>4, <1>6, TextsAre, WhereIn, Zenon
<1>9. /\ b \in Seq(AnyWord) /\ Len(tree.columns) \in Nat \ {0} /\ Len(b) = 2 * Len(tree.columns) - 1
      /\ \A o \in Nat : Lies(b, words, o) => NameTokens(input, o + 1, tree.columns)
  BY <1>2, <1>4, ColumnNames, NamesLie, Zenon
<1>10. PICK n \in Nat \ {0} : n = Len(tree.columns)
  BY <1>9, Zenon
<1>11. PICK m \in Nat : m = Len(d)
  BY <1>8, Zenon
<1>12. /\ Statement(tree) \in Seq(AnyWord) /\ Lies(Statement(tree), words, 0)
       /\ Len(words) \in Nat /\ Len(words) >= Len(Statement(tree))
  BY <1>1, StatementHead
<1>13. /\ Len(Statement(tree)) = Len(a) + Len(b) + Len(c) + Len(d) + Len(e)
       /\ Lies(a, words, 0) /\ Lies(b, words, Len(a)) /\ Lies(c, words, Len(a) + Len(b))
       /\ Lies(d, words, Len(a) + Len(b) + Len(c)) /\ Lies(e, words, Len(a) + Len(b) + Len(c) + Len(d))
  <2>1. a \in Seq(AnyWord) /\ b \in Seq(AnyWord) /\ c \in Seq(AnyWord) /\ d \in Seq(AnyWord)
        /\ e \in Seq(AnyWord)
    BY <1>7, <1>8, <1>9, Zenon
  <2> QED
    BY <1>2, <1>5, <1>12, <2>1, BlocksLie
<1>14. /\ 1 + (2 * n - 1) = 2 * n /\ 2 * n + 2 = 2 + 2 * n /\ 2 * n + 1 = 1 + 2 * n
       /\ (2 + 2 * n + m) + 1 = 3 + 2 * n + m
       /\ 0 + 1 = 1 /\ 1 + 1 = 2
       /\ 0 \in Nat /\ 1 \in Nat /\ 2 * n \in Nat /\ 2 + 2 * n \in Nat /\ 2 + 2 * n + m \in Nat
  OBVIOUS
<1>15. /\ Len(Statement(tree)) = 3 + 2 * n + m
       /\ Lies(a, words, 0) /\ Lies(b, words, 1) /\ Lies(c, words, 2 * n) /\ Lies(d, words, 2 + 2 * n)
       /\ Lies(e, words, 2 + 2 * n + m)
  BY <1>7, <1>8, <1>9, <1>10, <1>11, <1>13, <1>14, Zenon
<1>16. Len(input) = Len(words)
  <2>1. Len(a) \in Nat
    BY <1>7
  <2> QED
    BY <1>2, <1>14, <1>15, <2>1, TokensLie
<1>17. /\ \A x \in Texts, o \in Nat : Lies(Words(<<x>>), words, o) => input[o + 1] = WordToken(x)
       /\ \A x, y \in Texts, o \in Nat : Lies(Words(<<x, y>>), words, o) =>
              input[o + 1] = WordToken(x) /\ input[o + 2] = WordToken(y)
       /\ \A x \in Texts, o \in Nat : Lies(Marked(x), words, o) => input[o + 1] = Mark(x)
  BY <1>2, WordsThere
<1>18. input[0 + 1] = Keyword("SELECT") /\ input[(2 + 2 * n + m) + 1] = Mark(";")
  BY <1>4, <1>6, <1>14, <1>15, <1>17, Zenon
<1>19. input[2 * n + 1] = Keyword("FROM") /\ input[2 * n + 2] = Identifier(tree.table_name)
  <2>1. Lies(Words(<<"FROM", tree.table_name>>), words, 2 * n)
    BY <1>4, <1>15, Zenon
  <2>2. input[2 * n + 1] = WordToken("FROM") /\ input[2 * n + 2] = WordToken(tree.table_name)
    <3>1. PICK q : q = <<"FROM", tree.table_name>>
      OBVIOUS
    <3>2. q \in Seq(Texts) /\ Len(q) = 2 /\ q[1] = "FROM" /\ q[2] = tree.table_name
      BY <1>6, <3>1, TextTuples, Zenon
    <3>3. \A texts \in Seq(Texts), o \in Nat : Lies(Words(texts), words, o) =>
            \A j \in 1 .. Len(texts) : input[o + j] = WordToken(texts[j])
      BY <1>2, WordsLie
    <3>4. \A j \in 1 .. 2 : input[2 * n + j] = WordToken(q[j])
      BY <1>14, <2>1, <3>1, <3>2, <3>3, Zenon
    <3>5. 1 \in 1 .. 2 /\ 2 \in 1 .. 2
      OBVIOUS
    <3> QED
      BY <3>2, <3>4, <3>5, Zenon
  <2> QED
    BY <1>6, <2>2, Zenon
<1>20. NameTokens(input, 2, tree.columns)
  BY <1>9, <1>14, <1>15, Zenon
<1>21. \A j \in 1 .. Len(d) : input[2 + 2 * n + j] = TokenOf(d[j])
  BY <1>2, <1>8, <1>14, <1>15, TokensLie
<1>22. Len(input) >= 3 + 2 * n + m
  BY <1>12, <1>15, <1>16
<1>23. SelectTokens(input, tree)
  BY <1>4, <1>10, <1>11, <1>14, <1>18, <1>19, <1>20, <1>21, <1>22, Zenon DEF SelectTokens
<1> QED
  BY <1>4, <1>9, <1>10, <1>11, <1>15, <1>23, Zenon

(* How statements of the four kinds begin.                                 *)
LEMMA Beginnings ==
  ASSUME NEW tree \in Trees, NEW behind \in Seq(AnyWord),
         NEW input, input = Tokenize(Statement(tree) \o behind), input # <<>>
  PROVE  /\ IsDatabase(tree) => input[1] = Keyword("CREATE") /\ input[2] = Keyword("DATABASE")
         /\ IsTable(tree) => input[1] = Keyword("CREATE") /\ input[2] = Keyword("TABLE")
         /\ IsInsert(tree) => input[1] = Keyword("INSERT")
         /\ IsSelect(tree) => input[1] = Keyword("SELECT")
<1>1. IsDatabase(tree) => DatabaseTokens(input, tree)
  BY DatabaseLies
<1>2. IsTable(tree) => TableTokens(input, tree)
  BY TableLies
<1>3. IsInsert(tree) => InsertTokens(input, tree)
  BY InsertLies
<1>4. IsSelect(tree) => SelectTokens(input, tree)
  BY SelectLies
<1> QED
  BY <1>1, <1>2, <1>3, <1>4, Zenon DEF DatabaseTokens, TableTokens, InsertTokens, SelectTokens

(* What a statement that begins as a pattern does is, if it is legal.      *)
LEMMA BeginningsTell ==
  ASSUME NEW tree \in Trees, NEW behind \in Seq(AnyWord),
         NEW input, input = Tokenize(Statement(tree) \o behind), input \in Seq(AnyToken),
         NEW k \in 1 .. 4, CertainCheck(FirstTokens(k), input, 0)
  PROVE  /\ input # <<>>
         /\ k = 1 => IsDatabase(tree)
         /\ k = 2 => IsTable(tree)
         /\ k = 3 => IsInsert(tree)
         /\ k = 4 => IsSelect(tree)
<1>1. /\ \A q \in Seq(AnyToken) : At(q, 1) = q[1] \/ At(q, 1) = NoToken
      /\ \A q \in Seq(AnyToken) : At(q, 2) = q[2] \/ At(q, 2) = NoToken
      /\ At(<<>>, 1) = NoToken
  BY DEF At
<1>2. \A a, t : Fits(Keyword(a), t) <=> t = Keyword(a)
  BY FitsWhat, Zenon
<1>3. \A a : Keyword(a) # NoToken
  BY DEF Keyword, Token, NoToken
<1>4. /\ k = 1 => At(input, 0 + 1) = Keyword("CREATE") /\ At(input, 0 + 2) = Keyword("DATABASE")
      /\ k = 2 => At(input, 0 + 1) = Keyword("CREATE") /\ At(input, 0 + 2) = Keyword("TABLE")
      /\ k = 3 => At(input, 0 + 1) = Keyword("INSERT")
      /\ k = 4 => At(input, 0 + 1) = Keyword("SELECT")
  <2>1. \A i \in DOMAIN FirstTokens(k) : Fits(FirstTokens(k)[i], At(input, 0 + i))
    BY Zenon DEF CertainCheck
  <2>2. /\ \A q, a, b, c, d : q = <<a, b, c, d>> =>
              1 \in DOMAIN q /\ 2 \in DOMAIN q /\ q[1] = a /\ q[2] = b
        /\ \A q, a, b, c, d, e : q = <<a, b, c, d, e>> =>
              1 \in DOMAIN q /\ 2 \in DOMAIN q /\ q[1] = a /\ q[2] = b
        /\ \A q, a : q = <<a>> => 1 \in DOMAIN q /\ q[1] = a
    OBVIOUS
  <2>3. /\ k = 1 => /\ 1 \in DOMAIN FirstTokens(k) /\ 2 \in DOMAIN FirstTokens(k)
                    /\ FirstTokens(k)[1] = Keyword("CREATE") /\ FirstTokens(k)[2] = Keyword("DATABASE")
        /\ k = 2 => /\ 1 \in DOMAIN FirstTokens(k) /\ 2 \in DOMAIN FirstTokens(k)
                    /\ FirstTokens(k)[1] = Keyword("CREATE") /\ FirstTokens(k)[2] = Keyword("TABLE")
        /\ k = 3 => 1 \in DOMAIN FirstTokens(k) /\ FirstTokens(k)[1] = Keyword("INSERT")
        /\ k = 4 => 1 \in DOMAIN FirstTokens(k) /\ FirstTokens(k)[1] = Keyword("SELECT")
    <3>1. /\ 1 \in DOMAIN FirstTokens(1) /\ 2 \in DOMAIN FirstTokens(1)
          /\ FirstTokens(1)[1] = Keyword("CREATE") /\ FirstTokens(1)[2] = Keyword("DATABASE")
      <4>1. FirstTokens(1) = <<Keyword("CREATE"), Keyword("DATABASE"), AnyIdentifier, Mark(";")>>
        BY FirstTokensAre, Zenon
      <4> QED
        <5>1. PICK a, b, c, d : /\ a = Keyword("CREATE") /\ b = Keyword("DATABASE")
                                /\ c = AnyIdentifier /\ d = Mark(";")
          BY Zenon
        <5>2. FirstTokens(1) = <<a, b, c, d>>
          BY <4>1, <5>1, Zenon
        <5>3. PICK q : q = FirstTokens(1)
          OBVIOUS
        <5>4. 1 \in DOMAIN q /\ 2 \in DOMAIN q /\ q[1] = a /\ q[2] = b
          BY <5>2, <5>3
        <5> QED
          BY <5>1, <5>3, <5>4, Zenon
    <3>2. /\ 1 \in DOMAIN FirstTokens(2) /\ 2 \in DOMAIN FirstTokens(2)
          /\ FirstTokens(2)[1] = Keyword("CREATE") /\ FirstTokens(2)[2] = Keyword("TABLE")
      <4>1. FirstTokens(2) = <<Keyword("CREATE"), Keyword("TABLE"), AnyIdentifier, Mark("("), AnyIdentifier>>
        BY FirstTokensAre, Zenon
      <4> QED
        BY <4>1
    <3>3. 1 \in DOMAIN FirstTokens(3) /\ FirstTokens(3)[1] = Keyword("INSERT")
      <4>1. FirstTokens(3) = <<Keyword("INSERT"), Keyword("INTO"), AnyIdentifier, Mark("("), AnyIdentifier>>
        BY FirstTokensAre, Zenon
      <4> QED
        BY <4>1
    <3>4. 1 \in DOMAIN FirstTokens(4) /\ FirstTokens(4)[1] = Keyword("SELECT")
      BY <2>2, FirstTokensAre, Zenon
    <3> QED
      BY <3>1, <3>2, <3>3, <3>4, Zenon
  <2> QED
    BY <1>2, <2>1, <2>3, Zenon
<1>5. 0 + 1 = 1 /\ 0 + 2 = 2
  OBVIOUS
<1>6. k = 1 \/ k = 2 \/ k = 3 \/ k = 4
  OBVIOUS
<1>7. input # <<>>
  BY <1>1, <1>3, <1>4, <1>5, <1>6, Zenon
<1>8. /\ k = 1 => input[1] = Keyword("CREATE") /\ input[2] = Keyword("DATABASE")
      /\ k = 2 => input[1] = Keyword("CREATE") /\ input[2] = Keyword("TABLE")
      /\ k = 3 => input[1] = Keyword("INSERT")
      /\ k = 4 => input[1] = Keyword("SELECT")
  BY <1>1, <1>3, <1>4, <1>5, Zenon
<1>9. /\ IsDatabase(tree) => input[1] = Keyword("CREATE") /\ input[2] = Keyword("DATABASE")
      /\ IsTable(tree) => input[1] = Keyword("CREATE") /\ input[2] = Keyword("TABLE")
      /\ IsInsert(tree) => input[1] = Keyword("INSERT")
      /\ IsSelect(tree) => input[1] = Keyword("SELECT")
  BY <1>7, Beginnings
<1>10. "CREATE" # "INSERT" /\ "CREATE" # "SELECT" /\ "INSERT" # "SELECT" /\ "DATABASE" # "TABLE"
  OBVIOUS
<1>11. \A a, b : Keyword(a) = Keyword(b) => a = b
  BY KindsOfTokens, Zenon
<1>12. IsDatabase(tree) \/ IsTable(tree) \/ IsInsert(tree) \/ IsSelect(tree)
  BY TreesAre
<1> QED
  BY <1>7, <1>8, <1>9, <1>10, <1>11, <1>12, Zenon

(* The nodes of trees.                                                     *)
LEMMA NodesBuilt ==
  ASSUME NEW input
  PROVE  /\ BuildNode(input, "CREATE_DATABASE_NODE") = CreateDatabaseSql(input)
         /\ BuildNode(input, "CREATE_TABLE_NODE") = CreateTableSql(input)
         /\ BuildNode(input, "INSERT_INTO_TABLE_NODE") = InsertIntoTableSql(input)
         /\ BuildNode(input, "SELECT_FROM_ONE_TABLE_NODE") = SelectFromOneTableSql(input)
         /\ BuildNode(input, "UNSUPPORT_NODE") = NoTree
BY Zenon DEF BuildNode

LEMMA NodesAre ==
  ASSUME NEW input
  PROVE  /\ CreateDatabaseSql(input).node = "CREATE_DATABASE_NODE"
         /\ CreateTableSql(input) = Thrown \/ CreateTableSql(input).node = "CREATE_TABLE_NODE"
         /\ InsertIntoTableSql(input).node = "INSERT_INTO_TABLE_NODE"
         /\ SelectFromOneTableSql(input) = Thrown
              \/ SelectFromOneTableSql(input).node = "SELECT_FROM_ONE_TABLE_NODE"
         /\ NoTree.node = "UNSUPPORT_NODE" /\ Thrown.node = "THROWN"
<1>1. CreateDatabaseSql(input).node = "CREATE_DATABASE_NODE"
  BY DEF CreateDatabaseSql
<1>2. \A a, b : [node |-> "CREATE_TABLE_NODE", table_name |-> a, columns |-> b].node = "CREATE_TABLE_NODE"
  OBVIOUS
<1>3. CreateTableSql(input) = Thrown \/ CreateTableSql(input).node = "CREATE_TABLE_NODE"
  BY <1>2, Zenon DEF CreateTableSql
<1>4. \A a, b, c : [node |-> "INSERT_INTO_TABLE_NODE", table_name |-> a, columns |-> b, values |-> c].node
                     = "INSERT_INTO_TABLE_NODE"
  OBVIOUS
<1>5. InsertIntoTableSql(input).node = "INSERT_INTO_TABLE_NODE"
  BY <1>4, Zenon DEF InsertIntoTableSql
<1>6. \A a, b, c, d : [node |-> "SELECT_FROM_ONE_TABLE_NODE", table_name |-> a, columns |-> b,
                       compare_vector |-> c, operators |-> d].node = "SELECT_FROM_ONE_TABLE_NODE"
  OBVIOUS
<1>7. SelectFromOneTableSql(input) = Thrown
        \/ SelectFromOneTableSql(input).node = "SELECT_FROM_ONE_TABLE_NODE"
  BY <1>6, Zenon DEF SelectFromOneTableSql
<1>8. NoTree.node = "UNSUPPORT_NODE" /\ Thrown.node = "THROWN"
  BY DEF NoTree, Thrown
<1> QED
  BY <1>1, <1>3, <1>5, <1>7, <1>8, Zenon

LEMMA NodeTypes ==
  ASSUME NEW p, p.pattern \in 1 .. 5
  PROVE  /\ p.pattern = 1 => NodeType(p) = "CREATE_DATABASE_NODE"
         /\ p.pattern = 2 => NodeType(p) = "CREATE_TABLE_NODE"
         /\ p.pattern = 3 => NodeType(p) = "INSERT_INTO_TABLE_NODE"
         /\ p.pattern = 4 => NodeType(p) = "SELECT_FROM_ONE_TABLE_NODE"
         /\ p.pattern = 5 => NodeType(p) = "UNSUPPORT_NODE"
         /\ p.pattern = 1 \/ p.pattern = 2 \/ p.pattern = 3 \/ p.pattern = 4 \/ p.pattern = 5
<1>1. Len(ALL_PATTERNS) = 4
  BY PatternsAre, Zenon
<1>2. /\ ALL_PATTERNS_NODE_TYPE[1] = "CREATE_DATABASE_NODE"
      /\ ALL_PATTERNS_NODE_TYPE[2] = "CREATE_TABLE_NODE"
      /\ ALL_PATTERNS_NODE_TYPE[3] = "INSERT_INTO_TABLE_NODE"
      /\ ALL_PATTERNS_NODE_TYPE[4] = "SELECT_FROM_ONE_TABLE_NODE"
  BY DEF ALL_PATTERNS_NODE_TYPE
<1>3. \A k \in 1 .. 5 : /\ k = 1 \/ k = 2 \/ k = 3 \/ k = 4 \/ k = 5
                        /\ (k = 1 => k <= 4) /\ (k = 2 => k <= 4) /\ (k = 3 => k <= 4) /\ (k = 4 => k <= 4)
                        /\ (k = 5 => ~(k <= 4))
  OBVIOUS
<1>4. p.pattern \in 1 .. 5
  OBVIOUS
<1> QED
  BY <1>1, <1>2, <1>3, <1>4, Zenon DEF NodeType

-----------------------------------------------------------------------------
(* A function by a recursion that goes down in rank: F maps a function to  *)
(* one that depends, at x, on its values at what has a lower rank only.    *)
GoesDown(F, D, V, rank) ==
  \A f, g \in [D -> V] : \A x \in D :
    (\A y \in D : rank[y] < rank[x] => f[y] = g[y]) => F[f][x] = F[g][x]

Ranked(F, D, V, rank, top) ==
  /\ V # {} /\ F \in [[D -> V] -> [D -> V]] /\ rank \in [D -> Nat] /\ top \in Nat
  /\ \A x \in D : rank[x] < top
  /\ GoesDown(F, D, V, rank)

LEMMA FixpointExists ==
  ASSUME NEW D, NEW V, NEW F, NEW rank, NEW top, Ranked(F, D, V, rank, top)
  PROVE  \E f \in [D -> V] : f = F[f]
<1>0. /\ V # {} /\ F \in [[D -> V] -> [D -> V]] /\ rank \in [D -> Nat] /\ top \in Nat
      /\ \A x \in D : rank[x] < top
      /\ GoesDown(F, D, V, rank)
  BY Zenon DEF Ranked
<1> USE <1>0
<1> DEFINE W == [D -> V]
           step == [pair \in Nat \X W |-> F[pair[2]]]
<1>1. PICK v \in V : TRUE
  OBVIOUS
<1>2. PICK a \in W : TRUE
  <2>1. [x \in D |-> v] \in W
    OBVIOUS
  <2> QED
    BY <2>1
<1>3. step \in [Nat \X W -> W]
  OBVIOUS
<1>4. \A n \in Nat : \A f \in W : step[<<n, f>>] = F[f]
  OBVIOUS
<1>5. top + 1 \in Nat
  OBVIOUS
<1> HIDE DEF step, W
<1>6. PICK h \in [0 .. top + 1 -> W] : IsRecursion(h, top + 1, a, step)
  BY <1>2, <1>3, <1>5, RecursionExists
<1>7. \A n \in Nat : n < top + 1 => h[n] \in W /\ h[n + 1] \in W /\ h[n + 1] = F[h[n]]
  <2> SUFFICES ASSUME NEW n \in Nat, n < top + 1
               PROVE  h[n] \in W /\ h[n + 1] \in W /\ h[n + 1] = F[h[n]]
    OBVIOUS
  <2>1. n \in 0 .. top + 1 /\ n + 1 \in 0 .. top + 1 /\ n + 1 # 0 /\ (n + 1) - 1 = n /\ n + 1 \in Nat
    OBVIOUS
  <2>2. h[n + 1] = step[<<n + 1, h[n]>>]
    BY <1>6, <2>1, Zenon DEF IsRecursion
  <2> QED
    BY <1>4, <2>1, <2>2
<1>8. \A f, g \in W : \A x \in D :
        (\A y \in D : rank[y] < rank[x] => f[y] = g[y]) => F[f][x] = F[g][x]
  BY DEF GoesDown, W
<1> DEFINE Same(n) == \A x \in D : rank[x] < n => h[n][x] = h[n + 1][x]
           T == {n \in Nat : n <= top => Same(n)}
<1>9. 0 \in T
  OBVIOUS
<1>10. ASSUME NEW n \in Nat, n \in T PROVE n + 1 \in T
  <2> SUFFICES ASSUME n + 1 <= top, NEW x \in D, rank[x] < n + 1
               PROVE  h[n + 1][x] = h[(n + 1) + 1][x]
    OBVIOUS
  <2>1. n < top + 1 /\ n + 1 < top + 1 /\ n + 1 \in Nat /\ n <= top
    OBVIOUS
  <2>2. Same(n)
    BY <1>10, <2>1
  <2>3. \A y \in D : rank[y] < rank[x] => h[n][y] = h[n + 1][y]
    BY <2>2
  <2>4. /\ h[n] \in W /\ h[n + 1] \in W
        /\ h[n + 1] = F[h[n]] /\ h[(n + 1) + 1] = F[h[n + 1]]
    BY <1>7, <2>1
  <2>5. F[h[n]][x] = F[h[n + 1]][x]
    BY <1>8, <2>3, <2>4, Zenon
  <2> QED
    BY <2>4, <2>5, Zenon
<1>11. Same(top)
  <2> HIDE DEF Same
  <2>1. Nat \subseteq T
    <3> HIDE DEF T
    <3> QED
      BY <1>9, <1>10, NatInd, Zenon
  <2> QED
    BY <2>1
<1>12. h[top] \in W /\ h[top + 1] \in W /\ h[top + 1] = F[h[top]]
  <2>1. top < top + 1
    OBVIOUS
  <2> QED
    BY <1>7, <2>1
<1>13. \A x \in D : h[top][x] = h[top + 1][x]
  BY <1>11
<1>14. h[top] = h[top + 1]
  BY <1>12, <1>13 DEF W
<1> QED
  BY <1>12, <1>14 DEF W

-----------------------------------------------------------------------------
(* How many tokens an element of a pattern takes at an offset; 0 is none.  *)
ColumnLength(input, o) ==
  IF /\ At(input, o + 1) = Mark(",") /\ At(input, o + 2).type = "IDENTIFIER_T"
     /\ IsType(At(input, o + 3))
  THEN 3 ELSE 0

WhereBegins(input, o) ==
  At(input, o + 1) = Keyword("WHERE") /\ At(input, o + 2).type = "IDENTIFIER_T"

NextBegins(input, o) ==
  IsConnective(At(input, o + 1)) /\ At(input, o + 2).type = "IDENTIFIER_T"

Compares(input, o) ==
  CompareLength(input, o + 2) # 0 /\ IsValue(At(input, o + 3 + CompareLength(input, o + 2)))

ComparisonLength(input, o) ==
  IF Compares(input, o) THEN 3 + CompareLength(input, o + 2) ELSE 0

ChoiceLength(part, input, o) ==
  IF part.range = "VALUE_TYPE" THEN (IF IsType(At(input, o + 1)) THEN 1 ELSE 0)
  ELSE IF IsColumn(At(input, o + 1)) THEN 1 ELSE 0

TokensLength(part, input, o) ==
  IF CertainCheck(part.templates, input, o) THEN Len(part.templates) ELSE 0

ElementLength(parts, input, o) ==
  IF Len(parts) = 1
  THEN IF parts[1].range = Empty THEN TokensLength(parts[1], input, o)
       ELSE ChoiceLength(parts[1], input, o)
  ELSE IF Len(parts) = 2 THEN ColumnLength(input, o)
  ELSE IF Len(parts) = 3
  THEN IF WhereBegins(input, o) THEN ComparisonLength(input, o) ELSE 0
  ELSE IF NextBegins(input, o) THEN ComparisonLength(input, o) ELSE 0

-----------------------------------------------------------------------------
(* What the grammar lets a part take.                                      *)
TakesNext(part, input, o) == {n \in {Len(part.next)} \ {0} : CertainCheck(part.next, input, o)}

LEMMA RangeTakes ==
  ASSUME NEW part, part.range # Empty, NEW input, NEW o
  PROVE  /\ (\E i \in DOMAIN part.templates : FitsInRange(part.templates[i], At(input, o + 1)))
              => Takes(part, input, o) = {1} \cup TakesNext(part, input, o)
         /\ ~(\E i \in DOMAIN part.templates : FitsInRange(part.templates[i], At(input, o + 1)))
              => Takes(part, input, o) = TakesNext(part, input, o)
<1> DEFINE fit == {t \in Range(part.templates) : FitsInRange(t, At(input, o + 1))}
           more == TakesNext(part, input, o)
<1>1. fit # {} <=>
        \E i \in DOMAIN part.templates : FitsInRange(part.templates[i], At(input, o + 1))
  BY DEF Range
<1>2. Takes(part, input, o) = {1 : t \in fit} \cup more
  BY Zenon DEF Takes, TakesNext
<1> HIDE DEF fit, more
<1>3. /\ fit # {} => {1 : t \in fit} \cup more = {1} \cup more
      /\ fit = {} => {1 : t \in fit} \cup more = more
  OBVIOUS
<1> QED
  BY <1>1, <1>2, <1>3, Zenon DEF more

LEMMA TakesWhat ==
  ASSUME NEW input \in Seq(AnyToken), NEW o \in Nat, NEW part
  PROVE  /\ part.range = Empty
              => Takes(part, input, o) = IF CertainCheck(part.templates, input, o)
                                         THEN {Len(part.templates)} ELSE {}
         /\ \A range \in RangeName :
              /\ IsRange(part, range, TypeKeywords, <<>>)
                   => Takes(part, input, o) = IF IsType(At(input, o + 1)) THEN {1} ELSE {}
              /\ IsRange(part, range, <<Keyword("AND"), Keyword("OR")>>, <<>>)
                   => Takes(part, input, o) = IF IsConnective(At(input, o + 1)) THEN {1} ELSE {}
              /\ IsRange(part, range, <<Mark("*")>>, <<AnyIdentifier>>)
                   => Takes(part, input, o) = IF IsColumn(At(input, o + 1)) THEN {1} ELSE {}
              /\ IsRange(part, range, Comparer, Unequal)
                   => Takes(part, input, o) = IF CompareLength(input, o) # 0
                                              THEN {CompareLength(input, o)} ELSE {}
<1> DEFINE token == At(input, o + 1)
<1>0. \A r \in RangeName : r # Empty
  BY RangesNamed
<1>1. ASSUME part.range = Empty
      PROVE  Takes(part, input, o) = IF CertainCheck(part.templates, input, o)
                                     THEN {Len(part.templates)} ELSE {}
  <2>1. Takes(part, input, o) = {n \in {Len(part.templates)} : CertainCheck(part.templates, input, o)}
    BY <1>1, Zenon DEF Takes
  <2> QED
    BY <2>1
<1>2. \A S : {n \in {Len(<<>>)} \ {0} : CertainCheck(<<>>, input, o)} = {}
  OBVIOUS
<1>8. {1} \cup {} = {1}
  OBVIOUS
<1>7. \A templates, next, range :
           IsRange(part, range, templates, next) <=>
             part.range = range /\ part.templates = templates /\ part.next = next
  BY Zenon DEF IsRange
<1>3. ASSUME NEW range \in RangeName, IsRange(part, range, TypeKeywords, <<>>)
      PROVE  Takes(part, input, o) = IF IsType(token) THEN {1} ELSE {}
  <2>1. part.range # Empty /\ part.templates = TypeKeywords /\ part.next = <<>>
    BY <1>0, <1>3, <1>7, Zenon
  <2>2. (\E i \in DOMAIN part.templates : FitsInRange(part.templates[i], token)) <=> IsType(token)
    BY <2>1, InRange, Zenon
  <2>3. TakesNext(part, input, o) = {}
    BY <1>2, <2>1, Zenon DEF TakesNext
  <2>4. /\ IsType(token) => Takes(part, input, o) = {1}
        /\ ~IsType(token) => Takes(part, input, o) = {}
    BY <1>8, <2>1, <2>2, <2>3, RangeTakes, Zenon
  <2> QED
    BY <2>4, Zenon
<1>4. ASSUME NEW range \in RangeName, IsRange(part, range, <<Keyword("AND"), Keyword("OR")>>, <<>>)
      PROVE  Takes(part, input, o) = IF IsConnective(token) THEN {1} ELSE {}
  <2>1. part.range # Empty /\ part.templates = <<Keyword("AND"), Keyword("OR")>> /\ part.next = <<>>
    BY <1>0, <1>4, <1>7, Zenon
  <2>2. (\E i \in DOMAIN part.templates : FitsInRange(part.templates[i], token))
          <=> IsConnective(token)
    BY <2>1, InRange, Zenon
  <2>3. TakesNext(part, input, o) = {}
    BY <1>2, <2>1, Zenon DEF TakesNext
  <2>4. /\ IsConnective(token) => Takes(part, input, o) = {1}
        /\ ~IsConnective(token) => Takes(part, input, o) = {}
    BY <1>8, <2>1, <2>2, <2>3, RangeTakes, Zenon
  <2> QED
    BY <2>4, Zenon
<1>5. ASSUME NEW range \in RangeName, IsRange(part, range, <<Mark("*")>>, <<AnyIdentifier>>)
      PROVE  Takes(part, input, o) = IF IsColumn(token) THEN {1} ELSE {}
  <2>1. part.range # Empty /\ part.templates = <<Mark("*")>> /\ part.next = <<AnyIdentifier>>
    BY <1>0, <1>5, <1>7, Zenon
  <2>2. (\E i \in DOMAIN part.templates : FitsInRange(part.templates[i], token))
          <=> token = Mark("*")
    BY <2>1, InRange, Zenon
  <2>3. CertainCheck(part.next, input, o) <=> token.type = "IDENTIFIER_T"
    <3>1. CertainCheck(<<AnyIdentifier>>, input, o) <=> Fits(AnyIdentifier, token)
      BY Check1, Zenon
    <3> QED
      BY <2>1, <3>1, FitsWhat, Zenon
  <2>4. Len(part.next) = 1
    BY <2>1, Lengths1, Zenon
  <2>5. /\ token.type = "IDENTIFIER_T" =>
             TakesNext(part, input, o) = {1}
        /\ token.type # "IDENTIFIER_T" =>
             TakesNext(part, input, o) = {}
    BY <2>3, <2>4 DEF TakesNext
  <2>6. {1} \cup {1} = {1} /\ {1} \cup {} = {1}
    OBVIOUS
  <2>7. /\ IsColumn(token) => Takes(part, input, o) = {1}
        /\ ~IsColumn(token) => Takes(part, input, o) = {}
    BY <2>1, <2>2, <2>5, <2>6, RangeTakes, Zenon DEF IsColumn
  <2> QED
    BY <2>7, Zenon
<1>6. ASSUME NEW range \in RangeName, IsRange(part, range, Comparer, Unequal)
      PROVE  Takes(part, input, o) = IF CompareLength(input, o) # 0
                                     THEN {CompareLength(input, o)} ELSE {}
  <2>1. part.range # Empty /\ part.templates = Comparer /\ part.next = Unequal
    BY <1>0, <1>6, <1>7, Zenon
  <2>2. (\E i \in DOMAIN part.templates : FitsInRange(part.templates[i], token))
          <=> token \in {Mark(">"), Mark("<"), Mark("=")}
    BY <2>1, InRange, Zenon
  <2>3. CertainCheck(part.next, input, o) <=> token = Mark("!") /\ At(input, o + 2) = Mark("=")
    <3>1. CertainCheck(<<Mark("!"), Mark("=")>>, input, o)
            <=> Fits(Mark("!"), At(input, o + 1)) /\ Fits(Mark("="), At(input, o + 2))
      BY Check2, Zenon
    <3> QED
      BY <2>1, <3>1, FitsWhat, Zenon DEF Unequal
  <2>4. Len(part.next) = 2
    BY <2>1, Lengths2, Zenon DEF Unequal
  <2>5. /\ CertainCheck(part.next, input, o) =>
             TakesNext(part, input, o) = {2}
        /\ ~CertainCheck(part.next, input, o) =>
             TakesNext(part, input, o) = {}
    BY <2>4 DEF TakesNext
  <2>6. Mark("!") \notin {Mark(">"), Mark("<"), Mark("=")}
    BY DEF Mark, Token
  <2>7. 1 # 0 /\ 2 # 0
    OBVIOUS
  <2>8. CASE token \in {Mark(">"), Mark("<"), Mark("=")}
    <3>1. ~CertainCheck(part.next, input, o)
      BY <2>3, <2>6, <2>8, Zenon
    <3>2. CompareLength(input, o) = 1
      BY <2>8, Zenon DEF CompareLength
    <3>3. Takes(part, input, o) = {1}
      BY <1>8, <2>1, <2>2, <2>5, <2>8, <3>1, RangeTakes, Zenon
    <3> QED
      BY <2>7, <3>2, <3>3, Zenon
  <2>9. CASE token \notin {Mark(">"), Mark("<"), Mark("=")} /\ CertainCheck(part.next, input, o)
    <3>1. CompareLength(input, o) = 2
      BY <2>3, <2>9, Zenon DEF CompareLength
    <3>2. Takes(part, input, o) = {2}
      BY <1>8, <2>1, <2>2, <2>5, <2>9, RangeTakes, Zenon
    <3> QED
      BY <2>7, <3>1, <3>2, Zenon
  <2>10. CASE token \notin {Mark(">"), Mark("<"), Mark("=")} /\ ~CertainCheck(part.next, input, o)
    <3>1. CompareLength(input, o) = 0
      BY <2>3, <2>10, Zenon DEF CompareLength
    <3>2. Takes(part, input, o) = {}
      BY <1>8, <2>1, <2>2, <2>5, <2>10, RangeTakes, Zenon
    <3> QED
      BY <3>1, <3>2, Zenon
  <2> QED
    BY <2>8, <2>9, <2>10
<1> QED
  BY <1>1, <1>3, <1>4, <1>5, <1>6, Zenon

-----------------------------------------------------------------------------
(* Where a match of parts ends.                                            *)
TakesNumbers(part, input) == \A m \in Nat : Takes(part, input, m) \in SUBSET Nat

IsEnding(f, parts, n, input, o) ==
  /\ f[0] = {o}
  /\ \A i \in 1 .. n : f[i] = EndsBehind(f[i - 1], parts[i], input)
  /\ Ends(parts, input, o) = f[n]

LEMMA EndsRecursion ==
  ASSUME NEW parts, NEW n \in Nat, Len(parts) = n, NEW input, NEW o \in Nat,
         \A i \in 1 .. n : TakesNumbers(parts[i], input)
  PROVE  \E f : IsEnding(f, parts, n, input, o)
<1> DEFINE V == SUBSET Nat
           step == [q \in Nat \X V |->
                      IF q[1] \in 1 .. n THEN EndsBehind(q[2], parts[q[1]], input) ELSE q[2]]
           IsEnds(f) == f = [i \in 0 .. n |->
                               IF i = 0 THEN {o} ELSE EndsBehind(f[i - 1], parts[i], input)]
<1>1. \A S \in V, i \in 1 .. n : EndsBehind(S, parts[i], input) \in V
  BY DEF EndsBehind, TakesNumbers
<1>2. step \in [Nat \X V -> V]
  <2>1. ASSUME NEW q \in Nat \X V
        PROVE  (IF q[1] \in 1 .. n THEN EndsBehind(q[2], parts[q[1]], input) ELSE q[2]) \in V
    <3>1. q[2] \in V
      OBVIOUS
    <3> HIDE DEF V
    <3> QED
      BY <1>1, <3>1, Zenon
  <2> QED
    BY <2>1
<1>3. {o} \in V
  OBVIOUS
<1>4. PICK f \in [0 .. n -> V] : IsRecursion(f, n, {o}, step)
  <2> HIDE DEF V, step
  <2> QED
    BY <1>2, <1>3, RecursionExists
<1>5. \A i \in 0 .. n : f[i] = IF i = 0 THEN {o} ELSE step[<<i, f[i - 1]>>]
  BY <1>4, Zenon DEF IsRecursion
<1>6. \A i \in 0 .. n : i # 0 =>
        step[<<i, f[i - 1]>>] = EndsBehind(f[i - 1], parts[i], input)
  <2> TAKE i \in 0 .. n
  <2> HAVE i # 0
  <2>1. i \in Nat /\ i - 1 \in 0 .. n /\ i \in 1 .. n
    OBVIOUS
  <2>2. f[i - 1] \in V
    BY <2>1
  <2>3. <<i, f[i - 1]>> \in Nat \X V
    BY <2>1, <2>2
  <2> HIDE DEF V
  <2>4. PICK q : q = <<i, f[i - 1]>>
    OBVIOUS
  <2>5. q \in Nat \X V /\ q[1] = i /\ q[2] = f[i - 1]
    BY <2>3, <2>4
  <2>6. step[q] = IF q[1] \in 1 .. n THEN EndsBehind(q[2], parts[q[1]], input) ELSE q[2]
    BY <2>5
  <2> HIDE DEF step
  <2> QED
    BY <2>1, <2>4, <2>5, <2>6, Zenon
<1>7. \A i \in 0 .. n : f[i] = IF i = 0 THEN {o} ELSE EndsBehind(f[i - 1], parts[i], input)
  <2> HIDE DEF step, V
  <2> QED
    BY <1>5, <1>6, Zenon
<1>8. IsEnds(f)
  <2>1. f = [i \in 0 .. n |-> f[i]]
    OBVIOUS
  <2> QED
    BY <1>7, <2>1, Zenon
<1> DEFINE k == CHOOSE g : IsEnds(g)
<1>9. IsEnds(k)
  BY <1>8, Zenon
<1>10. Ends(parts, input, o) = k[n]
  BY Zenon DEF Ends
<1> HIDE DEF k
<1>11. \A i \in 0 .. n : k[i] = IF i = 0 THEN {o} ELSE EndsBehind(k[i - 1], parts[i], input)
  BY <1>9
<1>12. 0 \in 0 .. n /\ \A i \in 1 .. n : i \in 0 .. n /\ i # 0
  OBVIOUS
<1> QED
  BY <1>10, <1>11, <1>12, Zenon DEF IsEnding

LEMMA EndsOne ==
  ASSUME NEW part, NEW input, NEW o
  PROVE  /\ EndsBehind({o}, part, input) = {o + n : n \in Takes(part, input, o)}
         /\ EndsBehind({}, part, input) = {}
BY DEF EndsBehind

(* A part that takes n tokens, or does not match.                          *)
TakesOne(part, input, o, n) ==
  n \in Nat /\ Takes(part, input, o) = IF n # 0 THEN {n} ELSE {}

LEMMA EndsOneIs ==
  ASSUME NEW part, NEW input, NEW o \in Nat, NEW n, TakesOne(part, input, o, n)
  PROVE  EndsBehind({o}, part, input) = IF n # 0 THEN {o + n} ELSE {}
<1>1. EndsBehind({o}, part, input) = {o + m : m \in Takes(part, input, o)}
  BY EndsOne, Zenon
<1>2. CASE n # 0
  <2>1. Takes(part, input, o) = {n}
    BY <1>2 DEF TakesOne
  <2> QED
    BY <1>1, <1>2, <2>1
<1>3. CASE n = 0
  <2>1. Takes(part, input, o) = {}
    BY <1>3 DEF TakesOne
  <2> QED
    BY <1>1, <1>3, <2>1
<1> QED
  BY <1>2, <1>3

LEMMA OneToFour ==
  /\ \A i \in 1 .. 1 : i = 1
  /\ \A i \in 1 .. 2 : i = 1 \/ i = 2
  /\ \A i \in 1 .. 3 : i = 1 \/ i = 2 \/ i = 3
  /\ \A i \in 1 .. 4 : i = 1 \/ i = 2 \/ i = 3 \/ i = 4
  /\ 1 \in 1 .. 1
  /\ 1 \in 1 .. 2 /\ 2 \in 1 .. 2
  /\ 1 \in 1 .. 3 /\ 2 \in 1 .. 3 /\ 3 \in 1 .. 3
  /\ 1 \in 1 .. 4 /\ 2 \in 1 .. 4 /\ 3 \in 1 .. 4 /\ 4 \in 1 .. 4
  /\ 1 - 1 = 0 /\ 2 - 1 = 1 /\ 3 - 1 = 2 /\ 4 - 1 = 3
OBVIOUS

LEMMA EndsOfParts ==
  ASSUME NEW parts, NEW input, NEW o \in Nat
  PROVE  /\ Len(parts) = 1 /\ TakesNumbers(parts[1], input)
              => Ends(parts, input, o) = EndsBehind({o}, parts[1], input)
         /\ Len(parts) = 2 /\ TakesNumbers(parts[1], input) /\ TakesNumbers(parts[2], input)
              => Ends(parts, input, o)
                   = EndsBehind(EndsBehind({o}, parts[1], input), parts[2], input)
         /\ Len(parts) = 3 /\ TakesNumbers(parts[1], input) /\ TakesNumbers(parts[2], input)
                /\ TakesNumbers(parts[3], input)
              => Ends(parts, input, o)
                   = EndsBehind(EndsBehind(EndsBehind({o}, parts[1], input), parts[2], input),
                                parts[3], input)
         /\ Len(parts) = 4 /\ TakesNumbers(parts[1], input) /\ TakesNumbers(parts[2], input)
                /\ TakesNumbers(parts[3], input) /\ TakesNumbers(parts[4], input)
              => Ends(parts, input, o)
                   = EndsBehind(EndsBehind(EndsBehind(EndsBehind({o}, parts[1], input), parts[2], input),
                                           parts[3], input),
                                parts[4], input)
<1>2. 1 \in Nat /\ 2 \in Nat /\ 3 \in Nat /\ 4 \in Nat
  OBVIOUS
<1>3. ASSUME Len(parts) = 1, TakesNumbers(parts[1], input)
      PROVE  Ends(parts, input, o) = EndsBehind({o}, parts[1], input)
  <2>1. \A i \in 1 .. 1 : TakesNumbers(parts[i], input)
    BY <1>3, OneToFour, Zenon
  <2>0. PICK f : IsEnding(f, parts, 1, input, o)
    BY <1>2, <1>3, <2>1, EndsRecursion, Zenon
  <2>2. /\ f[0] = {o}
        /\ \A i \in 1 .. 1 : f[i] = EndsBehind(f[i - 1], parts[i], input)
        /\ Ends(parts, input, o) = f[1]
    BY <2>0, Zenon DEF IsEnding
  <2> QED
    BY <2>2, OneToFour, Zenon
<1>4. ASSUME Len(parts) = 2, TakesNumbers(parts[1], input), TakesNumbers(parts[2], input)
      PROVE  Ends(parts, input, o) = EndsBehind(EndsBehind({o}, parts[1], input), parts[2], input)
  <2>1. \A i \in 1 .. 2 : TakesNumbers(parts[i], input)
    BY <1>4, OneToFour, Zenon
  <2>0. PICK f : IsEnding(f, parts, 2, input, o)
    BY <1>2, <1>4, <2>1, EndsRecursion, Zenon
  <2>2. /\ f[0] = {o}
        /\ \A i \in 1 .. 2 : f[i] = EndsBehind(f[i - 1], parts[i], input)
        /\ Ends(parts, input, o) = f[2]
    BY <2>0, Zenon DEF IsEnding
  <2> QED
    BY <2>2, OneToFour, Zenon
<1>5. ASSUME Len(parts) = 3, TakesNumbers(parts[1], input), TakesNumbers(parts[2], input),
             TakesNumbers(parts[3], input)
      PROVE  Ends(parts, input, o)
               = EndsBehind(EndsBehind(EndsBehind({o}, parts[1], input), parts[2], input),
                            parts[3], input)
  <2>1. \A i \in 1 .. 3 : TakesNumbers(parts[i], input)
    BY <1>5, OneToFour, Zenon
  <2>0. PICK f : IsEnding(f, parts, 3, input, o)
    BY <1>2, <1>5, <2>1, EndsRecursion, Zenon
  <2>2. /\ f[0] = {o}
        /\ \A i \in 1 .. 3 : f[i] = EndsBehind(f[i - 1], parts[i], input)
        /\ Ends(parts, input, o) = f[3]
    BY <2>0, Zenon DEF IsEnding
  <2>3. f[1] = EndsBehind(f[0], parts[1], input)
    BY <2>2, OneToFour, Zenon
  <2>4. f[2] = EndsBehind(f[1], parts[2], input)
    BY <2>2, OneToFour, Zenon
  <2>5. f[3] = EndsBehind(f[2], parts[3], input)
    BY <2>2, OneToFour, Zenon
  <2> QED
    BY <2>2, <2>3, <2>4, <2>5, Zenon
<1>6. ASSUME Len(parts) = 4, TakesNumbers(parts[1], input), TakesNumbers(parts[2], input),
             TakesNumbers(parts[3], input), TakesNumbers(parts[4], input)
      PROVE  Ends(parts, input, o)
               = EndsBehind(EndsBehind(EndsBehind(EndsBehind({o}, parts[1], input), parts[2], input),
                                       parts[3], input),
                            parts[4], input)
  <2>1. \A i \in 1 .. 4 : TakesNumbers(parts[i], input)
    BY <1>6, OneToFour, Zenon
  <2>0. PICK f : IsEnding(f, parts, 4, input, o)
    BY <1>2, <1>6, <2>1, EndsRecursion, Zenon
  <2>2. /\ f[0] = {o}
        /\ \A i \in 1 .. 4 : f[i] = EndsBehind(f[i - 1], parts[i], input)
        /\ Ends(parts, input, o) = f[4]
    BY <2>0, Zenon DEF IsEnding
  <2>3. f[1] = EndsBehind(f[0], parts[1], input)
    BY <2>2, OneToFour, Zenon
  <2>4. f[2] = EndsBehind(f[1], parts[2], input)
    BY <2>2, OneToFour, Zenon
  <2>5. f[3] = EndsBehind(f[2], parts[3], input)
    BY <2>2, OneToFour, Zenon
  <2>6. f[4] = EndsBehind(f[3], parts[4], input)
    BY <2>2, OneToFour, Zenon
  <2> QED
    BY <2>2, <2>3, <2>4, <2>5, <2>6, Zenon
<1> QED
  BY <1>3, <1>4, <1>5, <1>6, Zenon

-----------------------------------------------------------------------------
(* What the parts take, in numbers.                                        *)
LEMMA TakesFixed ==
  ASSUME NEW input \in Seq(AnyToken), NEW o \in Nat, NEW part, part.range = Empty,
         Len(part.templates) \in Nat \ {0}
  PROVE  TakesOne(part, input, o, TokensLength(part, input, o))
<1>1. Takes(part, input, o) = IF CertainCheck(part.templates, input, o)
                              THEN {Len(part.templates)} ELSE {}
  BY TakesWhat, Zenon
<1>2. 0 \in Nat /\ Len(part.templates) # 0 /\ Len(part.templates) \in Nat
  OBVIOUS
<1> QED
  BY <1>1, <1>2, Zenon DEF TakesOne, TokensLength

OneIf(b) == IF b THEN 1 ELSE 0

LEMMA TakesRange ==
  ASSUME NEW input \in Seq(AnyToken), NEW o \in Nat, NEW part, NEW range \in RangeName
  PROVE  /\ IsRange(part, range, TypeKeywords, <<>>)
              => TakesOne(part, input, o, OneIf(IsType(At(input, o + 1))))
         /\ IsRange(part, range, <<Keyword("AND"), Keyword("OR")>>, <<>>)
              => TakesOne(part, input, o, OneIf(IsConnective(At(input, o + 1))))
         /\ IsRange(part, range, <<Mark("*")>>, <<AnyIdentifier>>)
              => TakesOne(part, input, o, OneIf(IsColumn(At(input, o + 1))))
         /\ IsRange(part, range, Comparer, Unequal)
              => TakesOne(part, input, o, CompareLength(input, o))
<1>0. 0 \in Nat /\ 1 \in Nat /\ 2 \in Nat /\ 1 # 0
  OBVIOUS
<1>1. CompareLength(input, o) \in Nat
  BY <1>0, Zenon DEF CompareLength
<1>2. \A S, T, n : n # 0 => (IF n # 0 THEN S ELSE T) = S
  BY Zenon
<1>3. ASSUME IsRange(part, range, TypeKeywords, <<>>)
      PROVE  TakesOne(part, input, o, OneIf(IsType(At(input, o + 1))))
  <2>1. Takes(part, input, o) = IF IsType(At(input, o + 1)) THEN {1} ELSE {}
    BY <1>3, TakesWhat, Zenon
  <2> QED
    BY <1>0, <2>1, Zenon DEF TakesOne, OneIf
<1>4. ASSUME IsRange(part, range, <<Keyword("AND"), Keyword("OR")>>, <<>>)
      PROVE  TakesOne(part, input, o, OneIf(IsConnective(At(input, o + 1))))
  <2>1. Takes(part, input, o) = IF IsConnective(At(input, o + 1)) THEN {1} ELSE {}
    BY <1>4, TakesWhat, Zenon
  <2> QED
    BY <1>0, <2>1, Zenon DEF TakesOne, OneIf
<1>5. ASSUME IsRange(part, range, <<Mark("*")>>, <<AnyIdentifier>>)
      PROVE  TakesOne(part, input, o, OneIf(IsColumn(At(input, o + 1))))
  <2>1. Takes(part, input, o) = IF IsColumn(At(input, o + 1)) THEN {1} ELSE {}
    BY <1>5, TakesWhat, Zenon
  <2> QED
    BY <1>0, <2>1, Zenon DEF TakesOne, OneIf
<1>6. ASSUME IsRange(part, range, Comparer, Unequal)
      PROVE  TakesOne(part, input, o, CompareLength(input, o))
  <2>1. Takes(part, input, o) = IF CompareLength(input, o) # 0
                                THEN {CompareLength(input, o)} ELSE {}
    BY <1>6, TakesWhat, Zenon
  <2> QED
    BY <1>1, <2>1, Zenon DEF TakesOne
<1> QED
  BY <1>3, <1>4, <1>5, <1>6, Zenon

LEMMA OneIsNumbers ==
  ASSUME NEW part, NEW input, \A o \in Nat : \E n : TakesOne(part, input, o, n)
  PROVE  TakesNumbers(part, input)
<1> SUFFICES ASSUME NEW o \in Nat PROVE Takes(part, input, o) \in SUBSET Nat
  BY DEF TakesNumbers
<1>1. PICK n : TakesOne(part, input, o, n)
  OBVIOUS
<1> QED
  BY <1>1 DEF TakesOne

LEMMA FixedNumbers ==
  ASSUME NEW input \in Seq(AnyToken), NEW part, part.range = Empty,
         Len(part.templates) \in Nat \ {0}
  PROVE  TakesNumbers(part, input)
BY TakesFixed, OneIsNumbers, Zenon

LEMMA RangeNumbers ==
  ASSUME NEW input \in Seq(AnyToken), NEW part, NEW range \in RangeName
  PROVE  /\ IsRange(part, range, TypeKeywords, <<>>) => TakesNumbers(part, input)
         /\ IsRange(part, range, <<Keyword("AND"), Keyword("OR")>>, <<>>)
              => TakesNumbers(part, input)
         /\ IsRange(part, range, <<Mark("*")>>, <<AnyIdentifier>>) => TakesNumbers(part, input)
         /\ IsRange(part, range, Comparer, Unequal) => TakesNumbers(part, input)
<1>1. IsRange(part, range, TypeKeywords, <<>>) => TakesNumbers(part, input)
  BY TakesRange, OneIsNumbers, Zenon
<1>2. IsRange(part, range, <<Keyword("AND"), Keyword("OR")>>, <<>>) => TakesNumbers(part, input)
  BY TakesRange, OneIsNumbers, Zenon
<1>3. IsRange(part, range, <<Mark("*")>>, <<AnyIdentifier>>) => TakesNumbers(part, input)
  BY TakesRange, OneIsNumbers, Zenon
<1>4. IsRange(part, range, Comparer, Unequal) => TakesNumbers(part, input)
  BY TakesRange, OneIsNumbers, Zenon
<1> QED
  BY <1>1, <1>2, <1>3, <1>4

-----------------------------------------------------------------------------
(* A match of an element ends behind the tokens that the element takes, if *)
(* it takes any.                                                           *)
EndsAs(S, o, n) == n \in Nat /\ S = IF n # 0 THEN {o + n} ELSE {}

LEMMA EndsAsOne ==
  ASSUME NEW part, NEW input, NEW o \in Nat, NEW n, TakesOne(part, input, o, n)
  PROVE  EndsAs(EndsBehind({o}, part, input), o, n)
BY EndsOneIs, Zenon DEF EndsAs, TakesOne

LEMMA EndsAsNext ==
  ASSUME NEW S, NEW o \in Nat, NEW m, EndsAs(S, o, m), NEW part, NEW input,
         NEW n, m # 0 => TakesOne(part, input, o + m, n)
  PROVE  EndsAs(EndsBehind(S, part, input), o, IF m # 0 /\ n # 0 THEN m + n ELSE 0)
<1>1. CASE m = 0
  <2>1. S = {} /\ 0 \in Nat
    BY <1>1 DEF EndsAs
  <2>2. EndsBehind(S, part, input) = {}
    BY <2>1, EndsOne, Zenon
  <2> QED
    BY <1>1, <2>1, <2>2, Zenon DEF EndsAs
<1>2. CASE m # 0
  <2>1. S = {o + m} /\ m \in Nat /\ o + m \in Nat
    BY <1>2 DEF EndsAs
  <2>2. EndsBehind(S, part, input) = IF n # 0 THEN {(o + m) + n} ELSE {}
    BY <1>2, <2>1, EndsOneIs, Zenon
  <2>3. n \in Nat
    BY <1>2, Zenon DEF TakesOne
  <2>4. (o + m) + n = o + (m + n) /\ m + n \in Nat /\ m + n # 0 /\ 0 \in Nat
    BY <1>2, <2>1, <2>3
  <2> QED
    BY <1>2, <2>2, <2>4, Zenon DEF EndsAs
<1> QED
  BY <1>1, <1>2

-----------------------------------------------------------------------------
(* So for each kind of elements.                                           *)
ElementEnds(parts, input, o) ==
  EndsAs(Ends(parts, input, o), o, ElementLength(parts, input, o))

LEMMA CertainOf ==
  ASSUME NEW part, NEW t, IsCertain(part, t)
  PROVE  part.range = Empty /\ part.templates = t
BY Zenon DEF IsCertain

LEMMA TokensEnd ==
  ASSUME NEW input \in Seq(AnyToken), NEW o \in Nat, NEW parts, TokensKind(parts)
  PROVE  ElementEnds(parts, input, o)
<1>1. Len(parts) = 1 /\ parts[1].range = Empty /\ Len(parts[1].templates) \in Nat \ {0}
  BY Zenon DEF TokensKind
<1>2. Ends(parts, input, o) = EndsBehind({o}, parts[1], input)
  BY <1>1, FixedNumbers, EndsOfParts, Zenon
<1>3. TakesOne(parts[1], input, o, TokensLength(parts[1], input, o))
  BY <1>1, TakesFixed, Zenon
<1>4. ElementLength(parts, input, o) = TokensLength(parts[1], input, o)
  BY <1>1, Zenon DEF ElementLength
<1> QED
  BY <1>2, <1>3, <1>4, EndsAsOne, Zenon DEF ElementEnds

LEMMA RangeNames ==
  /\ "VALUE_TYPE" \in RangeName /\ "NEXT_VALUE_TYPE" \in RangeName /\ "FIRST_COL" \in RangeName
  /\ "COMPARER" \in RangeName /\ "OPERATOR" \in RangeName /\ "NEXT_COMPARER" \in RangeName
  /\ "FIRST_COL" # "VALUE_TYPE"
BY DEF RangeName

LEMMA ChoiceEnd ==
  ASSUME NEW input \in Seq(AnyToken), NEW o \in Nat, NEW parts, ChoiceKind(parts)
  PROVE  ElementEnds(parts, input, o)
<1>1. Len(parts) = 1
  BY Zenon DEF ChoiceKind
<1>2. TakesNumbers(parts[1], input)
  BY RangeNames, RangeNumbers, Zenon DEF ChoiceKind
<1>3. Ends(parts, input, o) = EndsBehind({o}, parts[1], input)
  BY <1>1, <1>2, EndsOfParts, Zenon
<1>4. parts[1].range \in {"VALUE_TYPE", "FIRST_COL"}
  BY Zenon DEF ChoiceKind, IsRange
<1>5. parts[1].range # Empty
  BY <1>4, RangeNames, RangesNamed, Zenon
<1>6. ElementLength(parts, input, o) = ChoiceLength(parts[1], input, o)
  BY <1>1, <1>5, Zenon DEF ElementLength
<1>7. CASE IsRange(parts[1], "VALUE_TYPE", TypeKeywords, <<>>)
  <2>1. TakesOne(parts[1], input, o, OneIf(IsType(At(input, o + 1))))
    BY <1>7, RangeNames, TakesRange, Zenon
  <2>2. parts[1].range = "VALUE_TYPE"
    BY <1>7, Zenon DEF IsRange
  <2>3. ChoiceLength(parts[1], input, o) = OneIf(IsType(At(input, o + 1)))
    BY <2>2, Zenon DEF ChoiceLength, OneIf
  <2> QED
    BY <1>3, <1>6, <2>1, <2>3, EndsAsOne, Zenon DEF ElementEnds
<1>8. CASE IsRange(parts[1], "FIRST_COL", <<Mark("*")>>, <<AnyIdentifier>>)
  <2>1. TakesOne(parts[1], input, o, OneIf(IsColumn(At(input, o + 1))))
    BY <1>8, RangeNames, TakesRange, Zenon
  <2>2. parts[1].range # "VALUE_TYPE"
    BY <1>8, RangeNames, Zenon DEF IsRange
  <2>3. ChoiceLength(parts[1], input, o) = OneIf(IsColumn(At(input, o + 1)))
    BY <2>2, Zenon DEF ChoiceLength, OneIf
  <2> QED
    BY <1>3, <1>6, <2>1, <2>3, EndsAsOne, Zenon DEF ElementEnds
<1> QED
  BY <1>7, <1>8, Zenon DEF ChoiceKind

LEMMA ColumnEnd ==
  ASSUME NEW input \in Seq(AnyToken), NEW o \in Nat, NEW parts, ColumnKind(parts)
  PROVE  ElementEnds(parts, input, o)
<1> DEFINE t == <<Mark(","), AnyIdentifier>>
           m == TokensLength(parts[1], input, o)
           n == OneIf(IsType(At(input, o + 3)))
           begins == At(input, o + 1) = Mark(",") /\ At(input, o + 2).type = "IDENTIFIER_T"
<1>1. Len(parts) = 2 /\ parts[1].range = Empty /\ parts[1].templates = t
      /\ IsRange(parts[2], "NEXT_VALUE_TYPE", TypeKeywords, <<>>)
  BY CertainOf, Zenon DEF ColumnKind
<1>2. Len(t) = 2 /\ 2 \in Nat \ {0} /\ 2 # 0 /\ 1 # 0 /\ 2 # 1 /\ 2 + 1 = 3 /\ 3 # 0
  OBVIOUS
<1>3. TakesNumbers(parts[1], input) /\ TakesNumbers(parts[2], input)
  BY <1>1, <1>2, FixedNumbers, RangeNumbers, RangeNames, Zenon
<1>4. Ends(parts, input, o) = EndsBehind(EndsBehind({o}, parts[1], input), parts[2], input)
  BY <1>1, <1>3, EndsOfParts, Zenon
<1>5. CertainCheck(parts[1].templates, input, o) <=> begins
  <2>1. CertainCheck(<<Mark(","), AnyIdentifier>>, input, o)
          <=> Fits(Mark(","), At(input, o + 1)) /\ Fits(AnyIdentifier, At(input, o + 2))
    BY Check2, Zenon
  <2>2. Fits(Mark(","), At(input, o + 1)) <=> At(input, o + 1) = Mark(",")
    BY FitsWhat, Zenon
  <2>3. Fits(AnyIdentifier, At(input, o + 2)) <=> At(input, o + 2).type = "IDENTIFIER_T"
    BY FitsWhat, Zenon
  <2> QED
    BY <1>1, <2>1, <2>2, <2>3, Zenon
<1>6. m = IF begins THEN 2 ELSE 0
  BY <1>1, <1>2, <1>5, Zenon DEF TokensLength
<1>7. TakesOne(parts[1], input, o, m)
  BY <1>1, <1>2, TakesFixed, Zenon
<1>8. EndsAs(EndsBehind({o}, parts[1], input), o, m)
  BY <1>7, EndsAsOne, Zenon
<1>9. o + 2 \in Nat /\ (o + 2) + 1 = o + 3
  OBVIOUS
<1>10. TakesOne(parts[2], input, o + 2, n)
  BY <1>1, <1>9, RangeNames, TakesRange, Zenon
<1>11. m # 0 => m = 2
  BY <1>6, Zenon
<1>12. m # 0 => TakesOne(parts[2], input, o + m, n)
  BY <1>10, <1>11, Zenon
<1> HIDE DEF m, n, t
<1>13. EndsAs(Ends(parts, input, o), o, IF m # 0 /\ n # 0 THEN m + n ELSE 0)
  BY <1>4, <1>8, <1>12, EndsAsNext, Zenon
<1>14. ElementLength(parts, input, o) = ColumnLength(input, o)
  BY <1>1, <1>2, Zenon DEF ElementLength
<1>15. ColumnLength(input, o) = IF begins /\ IsType(At(input, o + 3)) THEN 3 ELSE 0
  BY Zenon DEF ColumnLength
<1>16. n = IF IsType(At(input, o + 3)) THEN 1 ELSE 0
  BY Zenon DEF n, OneIf
<1>17. (IF m # 0 /\ n # 0 THEN m + n ELSE 0) = ColumnLength(input, o)
  <2> HIDE DEF begins
  <2>1. CASE begins /\ IsType(At(input, o + 3))
    <3>1. m = 2 /\ n = 1
      BY <2>1, <1>6, <1>16, Zenon
    <3> QED
      BY <1>2, <1>15, <2>1, <3>1, Zenon
  <2>2. CASE ~(begins /\ IsType(At(input, o + 3)))
    <3>1. m = 0 \/ n = 0
      BY <2>2, <1>6, <1>16, Zenon
    <3> QED
      BY <1>15, <2>2, <3>1, Zenon
  <2> QED
    BY <2>1, <2>2, Zenon
<1> QED
  BY <1>13, <1>14, <1>17, Zenon DEF ElementEnds

-----------------------------------------------------------------------------
(* An operator and a value, two tokens behind where a condition begins.    *)
LEMMA ComparisonEnd ==
  ASSUME NEW input \in Seq(AnyToken), NEW o \in Nat, NEW S, NEW m, EndsAs(S, o, m),
         m = 0 \/ m = 2, NEW part, NEW range \in RangeName, IsRange(part, range, Comparer, Unequal),
         NEW value, IsCertain(value, <<AnyValue>>)
  PROVE  EndsAs(EndsBehind(EndsBehind(S, part, input), value, input), o,
                IF m # 0 THEN ComparisonLength(input, o) ELSE 0)
<1> DEFINE c == CompareLength(input, o + 2)
           v == TokensLength(value, input, o + (2 + c))
<1>1. o + 2 \in Nat /\ 2 # 0 /\ 1 # 0 /\ 2 \in Nat
  OBVIOUS
<1>2. TakesOne(part, input, o + 2, c)
  BY <1>1, TakesRange, Zenon
<1>3. c \in Nat
  BY <1>2, Zenon DEF TakesOne
<1>4. c \in Nat => /\ 2 + c \in Nat /\ 2 + c # 0 /\ o + (2 + c) \in Nat
                   /\ (o + (2 + c)) + 1 = (o + 3) + c /\ (2 + c) + 1 = 3 + c
  OBVIOUS
<1>5. value.range = Empty /\ value.templates = <<AnyValue>>
  BY CertainOf, Zenon
<1>6. Len(<<AnyValue>>) = 1 /\ 1 \in Nat \ {0}
  OBVIOUS
<1>7. TakesOne(value, input, o + (2 + c), v)
  BY <1>3, <1>4, <1>5, <1>6, TakesFixed, Zenon
<1>8. CertainCheck(<<AnyValue>>, input, o + (2 + c)) <=> IsValue(At(input, (o + 3) + c))
  <2>1. CertainCheck(<<AnyValue>>, input, o + (2 + c)) <=> Fits(AnyValue, At(input, (o + (2 + c)) + 1))
    BY Check1, Zenon
  <2>2. Fits(AnyValue, At(input, (o + (2 + c)) + 1)) <=> IsValue(At(input, (o + (2 + c)) + 1))
    BY FitsWhat, Zenon
  <2> QED
    BY <1>3, <1>4, <2>1, <2>2, Zenon
<1>9. v = IF IsValue(At(input, (o + 3) + c)) THEN 1 ELSE 0
  BY <1>5, <1>6, <1>8, Zenon DEF TokensLength
<1>10. Compares(input, o) <=> c # 0 /\ IsValue(At(input, (o + 3) + c))
  BY Zenon DEF Compares
<1>11. ComparisonLength(input, o) = IF Compares(input, o) THEN 3 + c ELSE 0
  BY Zenon DEF ComparisonLength
<1> HIDE DEF c, v
<1> DEFINE n == IF m # 0 /\ c # 0 THEN m + c ELSE 0
<1>12. m # 0 => TakesOne(part, input, o + m, c)
  BY <1>2, Zenon
<1>13. EndsAs(EndsBehind(S, part, input), o, n)
  BY <1>12, EndsAsNext, Zenon
<1>14. n # 0 => n = 2 + c /\ m # 0 /\ c # 0
  BY Zenon
<1>15. m # 0 /\ c # 0 => n = 2 + c
  BY Zenon
<1> HIDE DEF n
<1>16. n # 0 => TakesOne(value, input, o + n, v)
  BY <1>7, <1>14, Zenon
<1>17. EndsAs(EndsBehind(EndsBehind(S, part, input), value, input), o,
              IF n # 0 /\ v # 0 THEN n + v ELSE 0)
  BY <1>13, <1>16, EndsAsNext, Zenon
<1>18. (IF n # 0 /\ v # 0 THEN n + v ELSE 0) = IF m # 0 THEN ComparisonLength(input, o) ELSE 0
  <2>1. CASE m # 0 /\ Compares(input, o)
    <3>1. n = 2 + c /\ n # 0 /\ v = 1 /\ v # 0
      BY <1>1, <1>3, <1>4, <1>9, <1>10, <1>15, <2>1, Zenon
    <3>2. n + v = 3 + c
      BY <1>3, <1>4, <3>1, Zenon
    <3> QED
      BY <1>11, <2>1, <3>1, <3>2, Zenon
  <2>2. CASE m # 0 /\ ~Compares(input, o)
    <3>1. n = 0 \/ v = 0
      BY <1>9, <1>10, <1>14, <2>2, Zenon
    <3> QED
      BY <1>11, <2>2, <3>1, Zenon
  <2>3. CASE m = 0
    <3>1. n = 0
      BY <1>14, <2>3, Zenon
    <3> QED
      BY <2>3, <3>1, Zenon
  <2> QED
    BY <2>1, <2>2, <2>3, Zenon
<1> QED
  BY <1>17, <1>18, Zenon

LEMMA WhereEnd ==
  ASSUME NEW input \in Seq(AnyToken), NEW o \in Nat, NEW parts, WhereKind(parts)
  PROVE  ElementEnds(parts, input, o)
<1> DEFINE m == TokensLength(parts[1], input, o)
           t == <<Keyword("WHERE"), AnyIdentifier>>
<1>1. /\ Len(parts) = 3 /\ parts[1].range = Empty /\ parts[1].templates = t
      /\ IsRange(parts[2], "COMPARER", Comparer, Unequal)
      /\ IsCertain(parts[3], <<AnyValue>>) /\ parts[3].range = Empty
      /\ parts[3].templates = <<AnyValue>>
  BY CertainOf, Zenon DEF WhereKind
<1>2. /\ Len(t) = 2 /\ 2 \in Nat \ {0} /\ 2 # 0 /\ 3 # 1 /\ 3 # 2 /\ Len(<<AnyValue>>) = 1
      /\ 1 \in Nat \ {0}
  OBVIOUS
<1>3. TakesNumbers(parts[1], input)
  BY <1>1, <1>2, FixedNumbers, Zenon
<1>4. TakesNumbers(parts[2], input)
  BY <1>1, RangeNumbers, RangeNames, Zenon
<1>5. TakesNumbers(parts[3], input)
  BY <1>1, <1>2, FixedNumbers, Zenon
<1>6. Ends(parts, input, o)
        = EndsBehind(EndsBehind(EndsBehind({o}, parts[1], input), parts[2], input), parts[3], input)
  BY <1>1, <1>3, <1>4, <1>5, EndsOfParts, Zenon
<1>7. CertainCheck(t, input, o) <=> WhereBegins(input, o)
  <2>1. CertainCheck(<<Keyword("WHERE"), AnyIdentifier>>, input, o)
          <=> Fits(Keyword("WHERE"), At(input, o + 1)) /\ Fits(AnyIdentifier, At(input, o + 2))
    BY Check2, Zenon
  <2>2. Fits(Keyword("WHERE"), At(input, o + 1)) <=> At(input, o + 1) = Keyword("WHERE")
    BY FitsWhat, Zenon
  <2>3. Fits(AnyIdentifier, At(input, o + 2)) <=> At(input, o + 2).type = "IDENTIFIER_T"
    BY FitsWhat, Zenon
  <2> QED
    BY <2>1, <2>2, <2>3, Zenon DEF WhereBegins
<1>8. m = IF WhereBegins(input, o) THEN 2 ELSE 0
  BY <1>1, <1>2, <1>7, Zenon DEF TokensLength
<1>9. TakesOne(parts[1], input, o, m)
  BY <1>1, <1>2, TakesFixed, Zenon
<1>10. EndsAs(EndsBehind({o}, parts[1], input), o, m)
  BY <1>9, EndsAsOne, Zenon
<1>11. ElementLength(parts, input, o)
         = IF WhereBegins(input, o) THEN ComparisonLength(input, o) ELSE 0
  BY <1>1, <1>2, Zenon DEF ElementLength
<1> HIDE DEF m
<1>12. m = 0 \/ m = 2
  BY <1>8, Zenon
<1>13. EndsAs(Ends(parts, input, o), o, IF m # 0 THEN ComparisonLength(input, o) ELSE 0)
  BY <1>1, <1>6, <1>10, <1>12, ComparisonEnd, RangeNames, Zenon
<1>14. m # 0 <=> WhereBegins(input, o)
  BY <1>2, <1>8, Zenon
<1> QED
  BY <1>11, <1>13, <1>14, Zenon DEF ElementEnds

LEMMA NextEnd ==
  ASSUME NEW input \in Seq(AnyToken), NEW o \in Nat, NEW parts, NextKind(parts)
  PROVE  ElementEnds(parts, input, o)
<1> DEFINE c == OneIf(IsConnective(At(input, o + 1)))
           i == TokensLength(parts[2], input, o + 1)
           m == IF c # 0 /\ i # 0 THEN c + i ELSE 0
<1>1. /\ Len(parts) = 4
      /\ IsRange(parts[1], "OPERATOR", <<Keyword("AND"), Keyword("OR")>>, <<>>)
      /\ parts[2].range = Empty /\ parts[2].templates = <<AnyIdentifier>>
      /\ IsRange(parts[3], "NEXT_COMPARER", Comparer, Unequal)
      /\ IsCertain(parts[4], <<AnyValue>>) /\ parts[4].range = Empty
      /\ parts[4].templates = <<AnyValue>>
  BY CertainOf, ZenonT(60) DEF NextKind
<1>2. /\ Len(<<AnyIdentifier>>) = 1 /\ 1 \in Nat \ {0} /\ 1 # 0 /\ 1 + 1 = 2 /\ 2 # 0
      /\ Len(<<AnyValue>>) = 1 /\ o + 1 \in Nat /\ (o + 1) + 1 = o + 2 /\ 4 # 1 /\ 4 # 2 /\ 4 # 3
  OBVIOUS
<1>3. TakesNumbers(parts[1], input)
  BY <1>1, RangeNumbers, RangeNames, Zenon
<1>4. TakesNumbers(parts[2], input)
  BY <1>1, <1>2, FixedNumbers, Zenon
<1>5. TakesNumbers(parts[3], input)
  BY <1>1, RangeNumbers, RangeNames, Zenon
<1>51. TakesNumbers(parts[4], input)
  BY <1>1, <1>2, FixedNumbers, Zenon
<1>6. Ends(parts, input, o)
        = EndsBehind(EndsBehind(EndsBehind(EndsBehind({o}, parts[1], input), parts[2], input),
                                parts[3], input), parts[4], input)
  BY <1>1, <1>3, <1>4, <1>5, <1>51, EndsOfParts, Zenon
<1>7. CertainCheck(<<AnyIdentifier>>, input, o + 1) <=> At(input, o + 2).type = "IDENTIFIER_T"
  <2>1. CertainCheck(<<AnyIdentifier>>, input, o + 1) <=> Fits(AnyIdentifier, At(input, (o + 1) + 1))
    BY Check1, Zenon
  <2>2. Fits(AnyIdentifier, At(input, (o + 1) + 1)) <=> At(input, (o + 1) + 1).type = "IDENTIFIER_T"
    BY FitsWhat, Zenon
  <2> QED
    BY <1>2, <2>1, <2>2, Zenon
<1>8. /\ c = IF IsConnective(At(input, o + 1)) THEN 1 ELSE 0
      /\ i = IF At(input, o + 2).type = "IDENTIFIER_T" THEN 1 ELSE 0
  BY <1>1, <1>2, <1>7, Zenon DEF TokensLength, OneIf
<1>9. TakesOne(parts[1], input, o, c)
  BY <1>1, TakesRange, RangeNames, Zenon
<1>91. TakesOne(parts[2], input, o + 1, i)
  BY <1>1, <1>2, TakesFixed, Zenon
<1>10. ElementLength(parts, input, o)
         = IF NextBegins(input, o) THEN ComparisonLength(input, o) ELSE 0
  BY <1>1, <1>2, Zenon DEF ElementLength
<1> HIDE DEF c, i
<1>11. c # 0 => TakesOne(parts[2], input, o + c, i)
  BY <1>8, <1>91, Zenon
<1>12. EndsAs(EndsBehind({o}, parts[1], input), o, c)
  BY <1>9, EndsAsOne, Zenon
<1>13. EndsAs(EndsBehind(EndsBehind({o}, parts[1], input), parts[2], input), o, m)
  BY <1>11, <1>12, EndsAsNext, ZenonT(60)
<1>14. m = 0 \/ m = 2
  BY <1>2, <1>8, Zenon
<1>15. m # 0 <=> NextBegins(input, o)
  BY <1>2, <1>8, Zenon DEF NextBegins
<1> HIDE DEF m
<1>16. EndsAs(Ends(parts, input, o), o, IF m # 0 THEN ComparisonLength(input, o) ELSE 0)
  BY <1>1, <1>6, <1>13, <1>14, ComparisonEnd, RangeNames, Zenon
<1> QED
  BY <1>10, <1>15, <1>16, Zenon DEF ElementEnds

-----------------------------------------------------------------------------
(* No element takes tokens that are not there.                             *)
LEMMA NothingTaken ==
  ~IsType(NoToken) /\ ~IsConnective(NoToken) /\ ~IsColumn(NoToken)
<1>1. NoToken.value \notin {"INT", "FLOAT", "VCHAR", "VECTOR"} /\ NoToken.value \notin {"AND", "OR"}
  <2>1. NoToken.value = Empty
    BY DEF NoToken, Token
  <2>2. Empty \notin {"INT", "FLOAT", "VCHAR", "VECTOR"} /\ Empty \notin {"AND", "OR"}
    BY Zenon DEF Empty
  <2> QED
    BY <2>1, <2>2
<1>2. NoToken.type \notin {"KEYWORD_T", "IDENTIFIER_T"}
  BY DEF NoToken, Token
<1> QED
  BY <1>1, <1>2, NothingFits DEF IsType, IsConnective, IsColumn

LEMMA SomeToken ==
  ASSUME NEW input \in Seq(AnyToken), NEW i \in Nat, i # 0, At(input, i) # NoToken
  PROVE  i <= Len(input) /\ Len(input) \in Nat
BY AtWhat, LenProperties

LEMMA ComparisonInside ==
  ASSUME NEW input \in Seq(AnyToken), NEW o \in Nat, ComparisonLength(input, o) # 0
  PROVE  ComparisonLength(input, o) \in 4 .. 5 /\ o + ComparisonLength(input, o) <= Len(input)
<1> DEFINE c == CompareLength(input, o + 2)
<1>1. Compares(input, o) /\ ComparisonLength(input, o) = 3 + c
  BY Zenon DEF ComparisonLength
<1>2. c # 0 /\ IsValue(At(input, (o + 3) + c))
  BY <1>1, Zenon DEF Compares
<1>3. c \in {0, 1, 2}
  BY Zenon DEF CompareLength
<1> HIDE DEF c
<1>4. (o + 3) + c \in Nat /\ (o + 3) + c # 0
  BY <1>3
<1>5. (o + 3) + c <= Len(input) /\ Len(input) \in Nat
  BY <1>2, <1>4, SomeToken, NothingFits, Zenon
<1> QED
  BY <1>1, <1>2, <1>3, <1>5

LEMMA ElementInside ==
  ASSUME NEW input \in Seq(AnyToken), NEW o \in Nat, NEW parts,
         \/ TokensKind(parts) \/ ChoiceKind(parts) \/ ColumnKind(parts)
         \/ WhereKind(parts) \/ NextKind(parts),
         ElementLength(parts, input, o) # 0
  PROVE  o + ElementLength(parts, input, o) <= Len(input) /\ ElementLength(parts, input, o) \in Nat
<1>0. Len(input) \in Nat /\ o + 1 \in Nat /\ o + 1 # 0 /\ o + 3 \in Nat /\ o + 3 # 0
  BY LenProperties
<1>1. CASE TokensKind(parts)
  <2>1. Len(parts) = 1 /\ parts[1].range = Empty
    BY <1>1, Zenon DEF TokensKind
  <2>2. ElementLength(parts, input, o) = TokensLength(parts[1], input, o)
    BY <2>1, Zenon DEF ElementLength
  <2>3. /\ CertainCheck(parts[1].templates, input, o)
        /\ TokensLength(parts[1], input, o) = Len(parts[1].templates)
    BY <2>2, Zenon DEF TokensLength
  <2>4. o + Len(parts[1].templates) <= Len(input)
    BY <1>1, <2>3, CheckedInside DEF TokensKind
  <2> QED
    BY <1>1, <2>2, <2>3, <2>4 DEF TokensKind
<1>2. CASE ChoiceKind(parts)
  <2>1. Len(parts) = 1
    BY <1>2, Zenon DEF ChoiceKind
  <2>2. parts[1].range # Empty
    BY <1>2, RangeNames, RangesNamed, Zenon DEF ChoiceKind, IsRange
  <2>3. ElementLength(parts, input, o) = ChoiceLength(parts[1], input, o)
    BY <2>1, <2>2, Zenon DEF ElementLength
  <2>4. /\ IsType(At(input, o + 1)) \/ IsColumn(At(input, o + 1))
        /\ ChoiceLength(parts[1], input, o) = 1
    BY <2>3, Zenon DEF ChoiceLength
  <2>5. o + 1 <= Len(input)
    BY <1>0, <2>4, SomeToken, NothingTaken, Zenon
  <2> QED
    BY <2>3, <2>4, <2>5
<1>3. CASE ColumnKind(parts)
  <2>1. Len(parts) = 2
    BY <1>3, Zenon DEF ColumnKind
  <2>2. ElementLength(parts, input, o) = ColumnLength(input, o)
    BY <2>1 DEF ElementLength
  <2>3. IsType(At(input, o + 3)) /\ ColumnLength(input, o) = 3
    BY <2>2, Zenon DEF ColumnLength
  <2>4. o + 3 <= Len(input)
    BY <1>0, <2>3, SomeToken, NothingTaken, Zenon
  <2> QED
    BY <2>2, <2>3, <2>4
<1>4. CASE WhereKind(parts) \/ NextKind(parts)
  <2>1. Len(parts) \in {3, 4}
    BY <1>4, Zenon DEF WhereKind, NextKind
  <2>2. ElementLength(parts, input, o) = ComparisonLength(input, o)
    <3>1. 3 # 1 /\ 3 # 2 /\ 4 # 1 /\ 4 # 2 /\ 4 # 3
      OBVIOUS
    <3>2. CASE Len(parts) = 3
      BY <3>1, <3>2, Zenon DEF ElementLength
    <3>3. CASE Len(parts) = 4
      BY <3>1, <3>3, Zenon DEF ElementLength
    <3> QED
      BY <2>1, <3>2, <3>3, Zenon
  <2> QED
    BY <1>0, <2>2, ComparisonInside
<1> QED
  BY <1>1, <1>2, <1>3, <1>4

LEMMA ElementEnd ==
  ASSUME NEW input \in Seq(AnyToken), NEW o \in Nat, NEW parts,
         \/ TokensKind(parts) \/ ChoiceKind(parts) \/ ColumnKind(parts)
         \/ WhereKind(parts) \/ NextKind(parts)
  PROVE  ElementEnds(parts, input, o)
BY TokensEnd, ChoiceEnd, ColumnEnd, WhereEnd, NextEnd, Zenon

-----------------------------------------------------------------------------
(* Where a sentence may end: the function that the grammar is defined by.  *)
EndsAt(pattern, input) ==
  LET ends[place \in (1 .. Len(pattern) + 1) \X (0 .. Len(input))] ==
        LET e == place[1]
            offset == place[2]
            behind == Ends(pattern[e].parts, input, offset)
        IN  IF e > Len(pattern) THEN {offset}
            ELSE IF pattern[e].necessary THEN UNION {ends[<<e + 1, end>>] : end \in behind}
            ELSE ends[<<e + 1, offset>>] \cup UNION {ends[<<e, end>>] : end \in behind}
  IN  ends

Reaches(f, pattern, input, e, o) ==
  IF e > Len(pattern) THEN {o}
  ELSE IF pattern[e].necessary
  THEN UNION {f[<<e + 1, end>>] : end \in Ends(pattern[e].parts, input, o)}
  ELSE f[<<e + 1, o>>] \cup UNION {f[<<e, end>>] : end \in Ends(pattern[e].parts, input, o)}

(* Every match of an element takes tokens, and those of the input only.    *)
Proceeds(pattern, input) ==
  \A e \in 1 .. Len(pattern) : \A o \in 0 .. Len(input) :
    \A end \in Ends(pattern[e].parts, input, o) : end \in o + 1 .. Len(input)

PlacesOf(pattern, input) == (1 .. Len(pattern) + 1) \X (0 .. Len(input))

EndSets(input) == SUBSET (0 .. Len(input))

RankOf(pattern, input, e, o) == (Len(pattern) + 1 - e) * (Len(input) + 1) + (Len(input) - o)

LEMMA RankGoesDown ==
  ASSUME NEW n \in Nat, NEW l \in Nat, NEW e \in 1 .. n + 1, NEW o \in 0 .. l
  PROVE  /\ (n + 1 - e) * (l + 1) + (l - o) \in Nat
         /\ (n + 1 - e) * (l + 1) + (l - o) < (n + 1) * (l + 1) + 1
         /\ (n + 1) * (l + 1) + 1 \in Nat
         /\ \A end \in 0 .. l : e <= n =>
              (n + 1 - (e + 1)) * (l + 1) + (l - end) < (n + 1 - e) * (l + 1) + (l - o)
         /\ \A end \in o + 1 .. l :
              (n + 1 - e) * (l + 1) + (l - end) < (n + 1 - e) * (l + 1) + (l - o)
<1>1. PICK k \in Nat : k = n + 1 - e
  OBVIOUS
<1>2. PICK m \in Nat : m = l + 1
  OBVIOUS
<1>3. k * m \in Nat /\ (k + 1) * m = k * m + m
  BY <1>1, <1>2, SMT
<1>4. e <= n => k # 0
  BY <1>1
<1>5. k # 0 => k - 1 \in Nat /\ (k - 1) * m \in Nat /\ k * m = (k - 1) * m + m
  BY <1>1, <1>2, SMT
<1>6. e * m \in Nat /\ (k + e) * m = k * m + e * m /\ e * m >= m
  <2>1. e \in Nat /\ e >= 1
    OBVIOUS
  <2>2. e - 1 \in Nat /\ (e - 1) * m \in Nat /\ e * m = (e - 1) * m + m
    BY <1>2, <2>1, SMT
  <2>3. (k + e) * m = k * m + e * m
    BY <1>2, <1>1, <2>1, SMT
  <2> QED
    BY <1>2, <2>2, <2>3
<1>7. k + e = n + 1 /\ n + 1 - (e + 1) = k - 1 /\ l - o \in 0 .. l
  BY <1>1
<1>8. PICK km \in Nat : km = k * m
  BY <1>3
<1>9. PICK em \in Nat : em = e * m
  BY <1>6
<1>10. (n + 1) * m = km + em /\ em >= m
  BY <1>6, <1>7, <1>8, <1>9, Zenon
<1>11. /\ km + (l - o) \in Nat
       /\ km + (l - o) < (km + em) + 1
       /\ (km + em) + 1 \in Nat
       /\ \A end \in o + 1 .. l : km + (l - end) < km + (l - o)
  BY <1>2, <1>8, <1>9, <1>10
<1>12. ASSUME e <= n, NEW end \in 0 .. l
       PROVE  (k - 1) * m + (l - end) < km + (l - o)
  <2>1. PICK jm \in Nat : jm = (k - 1) * m
    BY <1>4, <1>5, <1>12
  <2>2. km = jm + m
    BY <1>4, <1>5, <1>8, <1>12, <2>1, Zenon
  <2>3. jm + (l - end) < km + (l - o)
    BY <1>2, <2>1, <2>2
  <2> QED
    BY <2>1, <2>3, Zenon
<1> QED
  BY <1>1, <1>2, <1>7, <1>8, <1>10, <1>11, <1>12, Zenon

LEMMA ReachesIn ==
  ASSUME NEW pattern, Len(pattern) \in Nat, NEW input, Len(input) \in Nat,
         Proceeds(pattern, input),
         NEW f \in [PlacesOf(pattern, input) -> EndSets(input)],
         NEW e \in 1 .. Len(pattern) + 1, NEW o \in 0 .. Len(input)
  PROVE  Reaches(f, pattern, input, e, o) \in EndSets(input)
<1>1. CASE e > Len(pattern)
  BY <1>1 DEF Reaches, EndSets
<1>2. CASE e <= Len(pattern)
  <2> DEFINE behind == Ends(pattern[e].parts, input, o)
  <2>1. e \in 1 .. Len(pattern) /\ e + 1 \in 1 .. Len(pattern) + 1 /\ ~(e > Len(pattern))
    BY <1>2
  <2>2. \A end \in behind : end \in o + 1 .. Len(input)
    BY <2>1, Zenon DEF Proceeds
  <2>3. \A end \in behind : end \in 0 .. Len(input)
    BY <2>2
  <2> HIDE DEF behind
  <2>4. \A end \in behind : f[<<e + 1, end>>] \in EndSets(input) /\ f[<<e, end>>] \in EndSets(input)
    BY <2>1, <2>3 DEF PlacesOf
  <2>5. f[<<e + 1, o>>] \in EndSets(input)
    BY <2>1 DEF PlacesOf
  <2>6. /\ UNION {f[<<e + 1, end>>] : end \in behind} \in EndSets(input)
        /\ f[<<e + 1, o>>] \cup UNION {f[<<e, end>>] : end \in behind} \in EndSets(input)
    BY <2>4, <2>5 DEF EndSets
  <2>7. Reaches(f, pattern, input, e, o)
          = IF pattern[e].necessary THEN UNION {f[<<e + 1, end>>] : end \in behind}
            ELSE f[<<e + 1, o>>] \cup UNION {f[<<e, end>>] : end \in behind}
    BY <2>1, Zenon DEF Reaches, behind
  <2> QED
    BY <2>6, <2>7, Zenon
<1> QED
  BY <1>1, <1>2

AgreeBelow(f, g, pattern, input, e, o) ==
  \A i \in 1 .. Len(pattern) + 1, end \in 0 .. Len(input) :
    RankOf(pattern, input, i, end) < RankOf(pattern, input, e, o)
      => f[<<i, end>>] = g[<<i, end>>]

LEMMA ReachesSame ==
  ASSUME NEW pattern, Len(pattern) \in Nat, NEW input, Len(input) \in Nat,
         Proceeds(pattern, input), NEW f, NEW g,
         NEW e \in 1 .. Len(pattern) + 1, NEW o \in 0 .. Len(input),
         AgreeBelow(f, g, pattern, input, e, o)
  PROVE  Reaches(f, pattern, input, e, o) = Reaches(g, pattern, input, e, o)
<1>1. CASE e > Len(pattern)
  BY <1>1, Zenon DEF Reaches
<1>2. CASE e <= Len(pattern)
  <2> DEFINE behind == Ends(pattern[e].parts, input, o)
  <2>1. e \in 1 .. Len(pattern) /\ e + 1 \in 1 .. Len(pattern) + 1 /\ ~(e > Len(pattern))
    BY <1>2
  <2>2. \A end \in behind : end \in o + 1 .. Len(input)
    BY <2>1, Zenon DEF Proceeds
  <2>3. \A end \in behind : end \in 0 .. Len(input)
    BY <2>2
  <2>4. /\ \A end \in 0 .. Len(input) :
             RankOf(pattern, input, e + 1, end) < RankOf(pattern, input, e, o)
        /\ \A end \in o + 1 .. Len(input) :
             RankOf(pattern, input, e, end) < RankOf(pattern, input, e, o)
    BY <1>2, RankGoesDown, Zenon DEF RankOf
  <2> HIDE DEF behind
  <2>5. \A end \in behind : f[<<e + 1, end>>] = g[<<e + 1, end>>] /\ f[<<e, end>>] = g[<<e, end>>]
    BY <2>1, <2>2, <2>3, <2>4, Zenon DEF AgreeBelow
  <2>6. f[<<e + 1, o>>] = g[<<e + 1, o>>]
    BY <2>1, <2>4, Zenon DEF AgreeBelow
  <2>7. /\ {f[<<e + 1, end>>] : end \in behind} = {g[<<e + 1, end>>] : end \in behind}
        /\ {f[<<e, end>>] : end \in behind} = {g[<<e, end>>] : end \in behind}
    BY <2>5
  <2> QED
    BY <2>1, <2>6, <2>7, Zenon DEF Reaches, behind
<1> QED
  BY <1>1, <1>2

-----------------------------------------------------------------------------
IsGrammar(f, pattern, input) ==
  f = [place \in PlacesOf(pattern, input) |->
         Reaches(f, pattern, input, place[1], place[2])]

LEMMA PlacesAre ==
  ASSUME NEW pattern, NEW input, NEW place \in PlacesOf(pattern, input)
  PROVE  /\ place[1] \in 1 .. Len(pattern) + 1 /\ place[2] \in 0 .. Len(input)
         /\ place = <<place[1], place[2]>>
BY DEF PlacesOf

LEMMA GrammarExists ==
  ASSUME NEW pattern, Len(pattern) \in Nat, NEW input, Len(input) \in Nat,
         Proceeds(pattern, input)
  PROVE  \E f : IsGrammar(f, pattern, input)
<1> DEFINE D == PlacesOf(pattern, input)
           V == EndSets(input)
           F == [f \in [D -> V] |-> [place \in D |-> Reaches(f, pattern, input, place[1], place[2])]]
           rank == [place \in D |-> RankOf(pattern, input, place[1], place[2])]
           top == (Len(pattern) + 1) * (Len(input) + 1) + 1
<1>1. V # {}
  BY DEF EndSets
<1>2. \A f \in [D -> V] : \A place \in D : Reaches(f, pattern, input, place[1], place[2]) \in V
  BY PlacesAre, ReachesIn, Zenon
<1>3. F \in [[D -> V] -> [D -> V]]
  <2>1. \A f \in [D -> V] : [place \in D |-> Reaches(f, pattern, input, place[1], place[2])] \in [D -> V]
    <3> HIDE DEF D, V
    <3> QED
      BY <1>2
  <2> QED
    BY <2>1
<1>4. \A place \in D : /\ rank[place] \in Nat /\ rank[place] < top
                       /\ rank[place] = RankOf(pattern, input, place[1], place[2])
  <2> TAKE place \in D
  <2>1. place[1] \in 1 .. Len(pattern) + 1 /\ place[2] \in 0 .. Len(input)
    BY PlacesAre, Zenon
  <2>2. /\ RankOf(pattern, input, place[1], place[2]) \in Nat
        /\ RankOf(pattern, input, place[1], place[2]) < top
    BY <2>1, RankGoesDown, Zenon DEF RankOf
  <2>3. rank[place] = RankOf(pattern, input, place[1], place[2])
    OBVIOUS
  <2> HIDE DEF rank, top, D
  <2> QED
    BY <2>2, <2>3, Zenon
<1>5. top \in Nat
  <2>1. 1 \in 1 .. Len(pattern) + 1 /\ 0 \in 0 .. Len(input)
    OBVIOUS
  <2> QED
    BY <2>1, RankGoesDown, Zenon
<1>6. rank \in [D -> Nat]
  <2>1. \A place \in D : RankOf(pattern, input, place[1], place[2]) \in Nat
    BY <1>4, Zenon
  <2> HIDE DEF D
  <2> QED
    BY <2>1
<1>7. \A f \in [D -> V] : \A place \in D :
        F[f][place] = Reaches(f, pattern, input, place[1], place[2])
  BY Zenon
<1>8. GoesDown(F, D, V, rank)
  <2> SUFFICES ASSUME NEW f \in [D -> V], NEW g \in [D -> V], NEW x \in D,
                      \A y \in D : rank[y] < rank[x] => f[y] = g[y]
               PROVE  F[f][x] = F[g][x]
    BY Zenon DEF GoesDown
  <2>1. x[1] \in 1 .. Len(pattern) + 1 /\ x[2] \in 0 .. Len(input)
    BY PlacesAre, Zenon
  <2>2. ASSUME NEW i \in 1 .. Len(pattern) + 1, NEW end \in 0 .. Len(input),
               RankOf(pattern, input, i, end) < RankOf(pattern, input, x[1], x[2])
        PROVE  f[<<i, end>>] = g[<<i, end>>]
    <3>1. PICK y : y = <<i, end>>
      OBVIOUS
    <3>2. y \in D /\ y[1] = i /\ y[2] = end
      BY <3>1 DEF PlacesOf
    <3>3. rank[y] < rank[x]
      <4> HIDE DEF rank, D
      <4> QED
        BY <1>4, <2>2, <3>2, Zenon
    <3> QED
      BY <3>1, <3>2, <3>3, Zenon
  <2>3. PICK e \in 1 .. Len(pattern) + 1 : e = x[1]
    BY <2>1
  <2>4. PICK o \in 0 .. Len(input) : o = x[2]
    BY <2>1
  <2>5. AgreeBelow(f, g, pattern, input, e, o)
    BY <2>2, <2>3, <2>4, Zenon DEF AgreeBelow
  <2>6. Reaches(f, pattern, input, e, o) = Reaches(g, pattern, input, e, o)
    BY <2>5, ReachesSame, SMT
  <2>7. Reaches(f, pattern, input, x[1], x[2]) = Reaches(g, pattern, input, x[1], x[2])
    BY <2>3, <2>4, <2>6, Zenon
  <2> HIDE DEF F, D, V
  <2> QED
    BY <1>7, <2>7, Zenon
<1>9. PICK f \in [D -> V] : f = F[f]
  <2> HIDE DEF F, D, V, rank, top
  <2>1. \A x \in D : rank[x] < top
    BY <1>4, Zenon
  <2> QED
    <3>1. Ranked(F, D, V, rank, top)
      BY <1>1, <1>3, <1>5, <1>6, <1>8, <2>1, Zenon DEF Ranked
    <3> QED
      BY <3>1, FixpointExists, SMT
<1>10. F[f] = [place \in D |-> Reaches(f, pattern, input, place[1], place[2])]
  BY Zenon
<1> QED
  BY <1>9, <1>10, Zenon DEF IsGrammar

LEMMA EndsAtIs ==
  ASSUME NEW pattern, NEW input
  PROVE  /\ EndsAt(pattern, input) = CHOOSE f : IsGrammar(f, pattern, input)
         /\ SentenceEnds(pattern, input) = EndsAt(pattern, input)[<<1, 0>>]
<1>1. SentenceEnds(pattern, input) = EndsAt(pattern, input)[<<1, 0>>]
  BY Zenon DEF SentenceEnds, EndsAt
<1>2. EndsAt(pattern, input) = CHOOSE f : IsGrammar(f, pattern, input)
  BY Zenon DEF EndsAt, IsGrammar, Reaches, PlacesOf
<1> QED
  BY <1>1, <1>2

LEMMA EndsAtSteps ==
  ASSUME NEW pattern, Len(pattern) \in Nat, NEW input, Len(input) \in Nat,
         Proceeds(pattern, input),
         NEW e \in 1 .. Len(pattern) + 1, NEW o \in 0 .. Len(input)
  PROVE  EndsAt(pattern, input)[<<e, o>>] = Reaches(EndsAt(pattern, input), pattern, input, e, o)
<1>1. PICK f : f = EndsAt(pattern, input)
  OBVIOUS
<1>2. IsGrammar(f, pattern, input)
  BY <1>1, EndsAtIs, GrammarExists, Zenon
<1>3. PICK place : place = <<e, o>>
  OBVIOUS
<1>4. place \in PlacesOf(pattern, input) /\ place[1] = e /\ place[2] = o
  BY <1>3 DEF PlacesOf
<1>5. f[place] = Reaches(f, pattern, input, place[1], place[2])
  BY <1>2, <1>4, Zenon DEF IsGrammar
<1> QED
  BY <1>1, <1>3, <1>4, <1>5, Zenon

-----------------------------------------------------------------------------
(* Whether a sentence of a pattern can go on from an element at an offset. *)
Continues(k, input, e, o) == EndsAt(ALL_PATTERNS[k], input)[<<e, o>>] # {}

LengthAt(k, input, e, o) == ElementLength(ALL_PATTERNS[k][e].parts, input, o)

LEMMA KindAt ==
  ASSUME NEW k \in 1 .. 4, NEW e \in 1 .. Len(ALL_PATTERNS[k])
  PROVE  LET parts == ALL_PATTERNS[k][e].parts
         IN  \/ TokensKind(parts) \/ ChoiceKind(parts) \/ ColumnKind(parts)
             \/ WhereKind(parts) \/ NextKind(parts)
<1>1. IsElement(ALL_PATTERNS[k][e])
  BY PatternElements, Zenon DEF IsPattern
<1> QED
  BY <1>1, Kinds, Zenon

LEMMA EndsHere ==
  ASSUME NEW k \in 1 .. 4, NEW e \in 1 .. Len(ALL_PATTERNS[k]), NEW input \in Seq(AnyToken),
         NEW o \in 0 .. Len(input)
  PROVE  /\ Ends(ALL_PATTERNS[k][e].parts, input, o)
              = IF LengthAt(k, input, e, o) # 0 THEN {o + LengthAt(k, input, e, o)} ELSE {}
         /\ LengthAt(k, input, e, o) # 0 => o + LengthAt(k, input, e, o) \in o + 1 .. Len(input)
<1>1. o \in Nat /\ Len(input) \in Nat
  BY LenProperties
<1>2. PICK parts : parts = ALL_PATTERNS[k][e].parts
  OBVIOUS
<1>3. \/ TokensKind(parts) \/ ChoiceKind(parts) \/ ColumnKind(parts)
      \/ WhereKind(parts) \/ NextKind(parts)
  BY <1>2, KindAt, Zenon
<1>4. ElementEnds(parts, input, o)
  BY <1>1, <1>3, ElementEnd, Zenon
<1>5. LengthAt(k, input, e, o) = ElementLength(parts, input, o)
  BY <1>2, Zenon DEF LengthAt
<1>6. ElementLength(parts, input, o) # 0 =>
        o + ElementLength(parts, input, o) <= Len(input) /\ ElementLength(parts, input, o) \in Nat
  BY <1>1, <1>3, ElementInside, Zenon
<1>7. Ends(parts, input, o) = IF ElementLength(parts, input, o) # 0
                              THEN {o + ElementLength(parts, input, o)} ELSE {}
  BY <1>4, Zenon DEF ElementEnds, EndsAs
<1>8. LengthAt(k, input, e, o) # 0 => o + LengthAt(k, input, e, o) \in o + 1 .. Len(input)
  BY <1>1, <1>5, <1>6
<1> QED
  BY <1>2, <1>5, <1>7, <1>8, Zenon

LEMMA PatternProceeds ==
  ASSUME NEW k \in 1 .. 4, NEW input \in Seq(AnyToken)
  PROVE  Proceeds(ALL_PATTERNS[k], input)
<1> SUFFICES ASSUME NEW e \in 1 .. Len(ALL_PATTERNS[k]), NEW o \in 0 .. Len(input),
                    NEW end \in Ends(ALL_PATTERNS[k][e].parts, input, o)
             PROVE  end \in o + 1 .. Len(input)
  BY Zenon DEF Proceeds
<1> DEFINE n == LengthAt(k, input, e, o)
<1>1. Ends(ALL_PATTERNS[k][e].parts, input, o) = IF n # 0 THEN {o + n} ELSE {}
  BY EndsHere, Zenon
<1>2. n # 0 => o + n \in o + 1 .. Len(input)
  BY EndsHere, Zenon
<1> HIDE DEF n
<1>3. n # 0 /\ end = o + n
  BY <1>1
<1> QED
  BY <1>2, <1>3, Zenon

LEMMA Continuing ==
  ASSUME NEW k \in 1 .. 4, NEW input \in Seq(AnyToken),
         NEW e \in 1 .. Len(ALL_PATTERNS[k]) + 1, NEW o \in 0 .. Len(input)
  PROVE  /\ e > Len(ALL_PATTERNS[k]) => Continues(k, input, e, o)
         /\ e <= Len(ALL_PATTERNS[k]) /\ ALL_PATTERNS[k][e].necessary =>
              (Continues(k, input, e, o) <=>
                 /\ LengthAt(k, input, e, o) # 0
                 /\ Continues(k, input, e + 1, o + LengthAt(k, input, e, o)))
         /\ e <= Len(ALL_PATTERNS[k]) /\ ~ALL_PATTERNS[k][e].necessary =>
              (Continues(k, input, e, o) <=>
                 \/ Continues(k, input, e + 1, o)
                 \/ /\ LengthAt(k, input, e, o) # 0
                    /\ Continues(k, input, e, o + LengthAt(k, input, e, o)))
<1> DEFINE f == EndsAt(ALL_PATTERNS[k], input)
           n == LengthAt(k, input, e, o)
<1>1. Len(ALL_PATTERNS[k]) \in Nat /\ Len(input) \in Nat
  BY PatternLengths, LenProperties
<1>2. Proceeds(ALL_PATTERNS[k], input)
  BY PatternProceeds, Zenon
<1>3. f[<<e, o>>] = Reaches(f, ALL_PATTERNS[k], input, e, o)
  BY <1>1, <1>2, EndsAtSteps, SMT
<1>4. \A i, j : Continues(k, input, i, j) <=> f[<<i, j>>] # {}
  BY Zenon DEF Continues
<1> HIDE DEF f
<1>5. ASSUME e > Len(ALL_PATTERNS[k]) PROVE Continues(k, input, e, o)
  <2>1. f[<<e, o>>] = {o}
    BY <1>3, <1>5, Zenon DEF Reaches
  <2> QED
    BY <1>4, <2>1
<1>6. ASSUME e <= Len(ALL_PATTERNS[k])
      PROVE  /\ ~(e > Len(ALL_PATTERNS[k]))
             /\ Ends(ALL_PATTERNS[k][e].parts, input, o) = IF n # 0 THEN {o + n} ELSE {}
  <2>1. e \in 1 .. Len(ALL_PATTERNS[k]) /\ ~(e > Len(ALL_PATTERNS[k]))
    BY <1>1, <1>6
  <2> QED
    BY <2>1, EndsHere, Zenon
<1> HIDE DEF n
<1> DEFINE behind == Ends(ALL_PATTERNS[k][e].parts, input, o)
<1>7. ASSUME e <= Len(ALL_PATTERNS[k]), ALL_PATTERNS[k][e].necessary
      PROVE  Continues(k, input, e, o) <=> n # 0 /\ Continues(k, input, e + 1, o + n)
  <2>1. f[<<e, o>>] = UNION {f[<<e + 1, end>>] : end \in behind}
    BY <1>3, <1>6, <1>7, Zenon DEF Reaches
  <2>2. behind = IF n # 0 THEN {o + n} ELSE {}
    BY <1>6, <1>7, Zenon
  <2> HIDE DEF behind
  <2>3. CASE n # 0
    <3>1. f[<<e, o>>] = f[<<e + 1, o + n>>]
      BY <2>1, <2>2, <2>3
    <3> QED
      BY <1>4, <2>3, <3>1
  <2>4. CASE n = 0
    <3>1. f[<<e, o>>] = {}
      BY <2>1, <2>2, <2>4
    <3> QED
      BY <1>4, <2>4, <3>1
  <2> QED
    BY <2>3, <2>4
<1>8. ASSUME e <= Len(ALL_PATTERNS[k]), ~ALL_PATTERNS[k][e].necessary
      PROVE  Continues(k, input, e, o) <=>
               Continues(k, input, e + 1, o) \/ (n # 0 /\ Continues(k, input, e, o + n))
  <2>1. f[<<e, o>>] = f[<<e + 1, o>>] \cup UNION {f[<<e, end>>] : end \in behind}
    BY <1>3, <1>6, <1>8, Zenon DEF Reaches
  <2>2. behind = IF n # 0 THEN {o + n} ELSE {}
    BY <1>6, <1>8, Zenon
  <2> HIDE DEF behind
  <2>3. CASE n # 0
    <3>1. f[<<e, o>>] = f[<<e + 1, o>>] \cup f[<<e, o + n>>]
      BY <2>1, <2>2, <2>3
    <3> QED
      BY <1>4, <2>3, <3>1
  <2>4. CASE n = 0
    <3>1. f[<<e, o>>] = f[<<e + 1, o>>]
      BY <2>1, <2>2, <2>4
    <3> QED
      BY <1>4, <2>4, <3>1
  <2> QED
    BY <2>3, <2>4
<1> QED
  BY <1>5, <1>7, <1>8, Zenon DEF n

LEMMA DerivesIs ==
  ASSUME NEW k, NEW input
  PROVE  Derives(ALL_PATTERNS[k], input) <=> Continues(k, input, 1, 0)
BY EndsAtIs, Zenon DEF Derives, Continues

-----------------------------------------------------------------------------
(* The elements that there may be any number of, and what follows each.    *)
LEMMA Optionals ==
  ASSUME NEW k \in 1 .. 4, NEW e \in 1 .. Len(ALL_PATTERNS[k]), ~ALL_PATTERNS[k][e].necessary
  PROVE  \/ k = 2 /\ e = 3
         \/ k = 3 /\ e \in {2, 4}
         \/ k = 4 /\ e \in {3, 5, 6}
<1>0. \A t : Tokens(t).necessary
  BY TokensParts, Zenon
<1>1. VALUE_TYPE.necessary /\ FIRST_COL.necessary
  BY TypeParts, FirstColParts, Zenon
<1>2. k = 1 \/ k = 2 \/ k = 3 \/ k = 4
  OBVIOUS
<1>3. CASE k = 1
  <2>1. e \in 1 .. 1
    BY <1>3, PatternsAre, Pattern1, Zenon
  <2>2. e = 1
    BY <2>1
  <2> QED
    BY <1>0, <1>3, <2>2, PatternsAre, Pattern1, Zenon
<1>4. CASE k = 2
  <2>1. e \in 1 .. 4
    BY <1>4, PatternsAre, Pattern2, Zenon
  <2>2. e = 1 \/ e = 2 \/ e = 3 \/ e = 4
    BY <2>1
  <2>3. ALL_PATTERNS[2][1].necessary /\ ALL_PATTERNS[2][2].necessary /\ ALL_PATTERNS[2][4].necessary
    BY <1>0, <1>1, PatternsAre, Pattern2, Zenon
  <2> QED
    BY <1>4, <2>2, <2>3
<1>5. CASE k = 3
  <2>1. e \in 1 .. 5
    BY <1>5, PatternsAre, Pattern3, Zenon
  <2>2. e = 1 \/ e = 2 \/ e = 3 \/ e = 4 \/ e = 5
    BY <2>1
  <2>3. ALL_PATTERNS[3][1].necessary /\ ALL_PATTERNS[3][3].necessary /\ ALL_PATTERNS[3][5].necessary
    BY <1>0, <1>1, PatternsAre, Pattern3, Zenon
  <2> QED
    BY <1>5, <2>2, <2>3
<1>6. CASE k = 4
  <2>1. e \in 1 .. 7
    BY <1>6, PatternsAre, Pattern4, Zenon
  <2>2. e = 1 \/ e = 2 \/ e = 3 \/ e = 4 \/ e = 5 \/ e = 6 \/ e = 7
    BY <2>1
  <2>3. ALL_PATTERNS[4][1].necessary /\ ALL_PATTERNS[4][2].necessary /\ ALL_PATTERNS[4][4].necessary /\ ALL_PATTERNS[4][7].necessary
    BY <1>0, <1>1, PatternsAre, Pattern4, Zenon
  <2> QED
    BY <1>6, <2>2, <2>3
<1> QED
  BY <1>2, <1>3, <1>4, <1>5, <1>6

LEMMA TokensAt ==
  ASSUME NEW t, NEW input, NEW o, NEW parts, parts = Tokens(t).parts,
         ElementLength(parts, input, o) # 0
  PROVE  CertainCheck(t, input, o)
<1>1. Len(parts) = 1 /\ parts[1].range = Empty /\ parts[1].templates = t
  BY TokensParts, CertainOf, Zenon
<1>2. ElementLength(parts, input, o) = TokensLength(parts[1], input, o)
  BY <1>1, Zenon DEF ElementLength
<1> QED
  BY <1>1, <1>2, Zenon DEF TokensLength

LEMMA Follows ==
  ASSUME NEW input, NEW o
  PROVE  /\ LengthAt(2, input, 4, o) # 0 => At(input, o + 1) = Mark(")")
         /\ LengthAt(3, input, 3, o) # 0 => At(input, o + 1) = Mark(")")
         /\ LengthAt(3, input, 5, o) # 0 => At(input, o + 1) = Mark(")")
         /\ LengthAt(4, input, 4, o) # 0 => At(input, o + 1) = Keyword("FROM")
         /\ LengthAt(4, input, 7, o) # 0 => At(input, o + 1) = Mark(";")
<1>1. /\ ALL_PATTERNS[2][4] = Tokens(<<Mark(")"), Mark(";")>>)
      /\ ALL_PATTERNS[3][3] = Tokens(<<Mark(")"), Keyword("VALUES"), Mark("("), AnyValue>>)
      /\ ALL_PATTERNS[3][5] = Tokens(<<Mark(")"), Mark(";")>>)
      /\ ALL_PATTERNS[4][4] = Tokens(<<Keyword("FROM"), AnyIdentifier>>)
      /\ ALL_PATTERNS[4][7] = Tokens(<<Mark(";")>>)
  BY PatternsAre, Pattern2, Pattern3, Pattern4, Zenon
<1>2. ASSUME CertainCheck(<<Mark(")"), Mark(";")>>, input, o) PROVE At(input, o + 1) = Mark(")")
  <2>1. Fits(Mark(")"), At(input, o + 1))
    BY <1>2, Check2, Zenon
  <2> QED
    BY <2>1, FitsWhat, Zenon
<1>3. ASSUME CertainCheck(<<Mark(")"), Keyword("VALUES"), Mark("("), AnyValue>>, input, o)
      PROVE  At(input, o + 1) = Mark(")")
  <2>1. Fits(Mark(")"), At(input, o + 1))
    BY <1>3, Check4, Zenon
  <2> QED
    BY <2>1, FitsWhat, Zenon
<1>4. ASSUME CertainCheck(<<Keyword("FROM"), AnyIdentifier>>, input, o)
      PROVE  At(input, o + 1) = Keyword("FROM")
  <2>1. Fits(Keyword("FROM"), At(input, o + 1))
    BY <1>4, Check2, Zenon
  <2> QED
    BY <2>1, FitsWhat, Zenon
<1>5. ASSUME CertainCheck(<<Mark(";")>>, input, o) PROVE At(input, o + 1) = Mark(";")
  <2>1. Fits(Mark(";"), At(input, o + 1))
    BY <1>5, Check1, Zenon
  <2> QED
    BY <2>1, FitsWhat, Zenon
<1>6. LengthAt(2, input, 4, o) # 0 => At(input, o + 1) = Mark(")")
  BY <1>1, <1>2, TokensAt, Zenon DEF LengthAt
<1>7. LengthAt(3, input, 3, o) # 0 => At(input, o + 1) = Mark(")")
  BY <1>1, <1>3, TokensAt, Zenon DEF LengthAt
<1>8. LengthAt(3, input, 5, o) # 0 => At(input, o + 1) = Mark(")")
  BY <1>1, <1>2, TokensAt, Zenon DEF LengthAt
<1>9. LengthAt(4, input, 4, o) # 0 => At(input, o + 1) = Keyword("FROM")
  BY <1>1, <1>4, TokensAt, Zenon DEF LengthAt
<1>10. LengthAt(4, input, 7, o) # 0 => At(input, o + 1) = Mark(";")
  BY <1>1, <1>5, TokensAt, Zenon DEF LengthAt
<1> QED
  BY <1>6, <1>7, <1>8, <1>9, <1>10, Zenon

LEMMA Repeats ==
  ASSUME NEW input, NEW o
  PROVE  /\ LengthAt(2, input, 3, o) # 0 => At(input, o + 1) = Mark(",")
         /\ LengthAt(3, input, 2, o) # 0 => At(input, o + 1) = Mark(",")
         /\ LengthAt(3, input, 4, o) # 0 => At(input, o + 1) = Mark(",")
         /\ LengthAt(4, input, 3, o) # 0 => At(input, o + 1) = Mark(",")
         /\ LengthAt(4, input, 5, o)
              = IF WhereBegins(input, o) THEN ComparisonLength(input, o) ELSE 0
         /\ LengthAt(4, input, 6, o)
              = IF NextBegins(input, o) THEN ComparisonLength(input, o) ELSE 0
<1>1. /\ ALL_PATTERNS[2][3] = NEXT_COLUMN /\ ALL_PATTERNS[3][2] = NEXT_ID
      /\ ALL_PATTERNS[3][4] = NEXT_VALUE /\ ALL_PATTERNS[4][3] = NEXT_ID
      /\ ALL_PATTERNS[4][5] = CONDITION /\ ALL_PATTERNS[4][6] = NEXT_CONDITION
  BY PatternsAre, Pattern2, Pattern3, Pattern4, Zenon
<1>2. 2 # 1 /\ 3 # 1 /\ 3 # 2 /\ 4 # 1 /\ 4 # 2 /\ 4 # 3
  OBVIOUS
<1>3. ASSUME ElementLength(NEXT_COLUMN.parts, input, o) # 0 PROVE At(input, o + 1) = Mark(",")
  <2>1. ElementLength(NEXT_COLUMN.parts, input, o) = ColumnLength(input, o)
    BY <1>2, TypeParts, Zenon DEF ElementLength
  <2> QED
    BY <1>3, <2>1, Zenon DEF ColumnLength
<1>4. ASSUME NEW parts, NEW b, Len(parts) = 1, IsCertain(parts[1], <<Mark(","), b>>),
             ElementLength(parts, input, o) # 0
      PROVE  At(input, o + 1) = Mark(",")
  <2>1. parts[1].range = Empty /\ parts[1].templates = <<Mark(","), b>>
    BY <1>4, CertainOf, Zenon
  <2>2. ElementLength(parts, input, o) = TokensLength(parts[1], input, o)
    BY <1>4, <2>1, Zenon DEF ElementLength
  <2>3. CertainCheck(<<Mark(","), b>>, input, o)
    BY <1>4, <2>1, <2>2, Zenon DEF TokensLength
  <2>4. Fits(Mark(","), At(input, o + 1))
    BY <2>3, Check2, Zenon
  <2> QED
    BY <2>4, FitsWhat, Zenon
<1>5. ASSUME ElementLength(NEXT_ID.parts, input, o) # 0 PROVE At(input, o + 1) = Mark(",")
  BY <1>4, <1>5, ListParts, Zenon
<1>6. ASSUME ElementLength(NEXT_VALUE.parts, input, o) # 0 PROVE At(input, o + 1) = Mark(",")
  BY <1>4, <1>6, ListParts, Zenon
<1>7. ElementLength(CONDITION.parts, input, o)
        = IF WhereBegins(input, o) THEN ComparisonLength(input, o) ELSE 0
  BY <1>2, ConditionParts, Zenon DEF ElementLength
<1>8. ElementLength(NEXT_CONDITION.parts, input, o)
        = IF NextBegins(input, o) THEN ComparisonLength(input, o) ELSE 0
  BY <1>2, ConditionParts, Zenon DEF ElementLength
<1> QED
  BY <1>1, <1>3, <1>5, <1>6, <1>7, <1>8, Zenon DEF LengthAt

-----------------------------------------------------------------------------
(* Taking an optional element whenever it is there loses no sentence: what *)
(* may follow it begins with another token, and a first condition that is  *)
(* there can be read as a further one.                                     *)
LEMMA OtherTokens ==
  /\ Mark(",") # Mark(")") /\ Mark(",") # Keyword("FROM") /\ Keyword("WHERE") # Mark(";")
  /\ ~IsConnective(Mark(";")) /\ IsConnective(Keyword("WHERE"))
BY DEF Mark, Keyword, Token, IsConnective

LEMMA NeededHere ==
  /\ ALL_PATTERNS[2][4].necessary /\ ALL_PATTERNS[3][3].necessary /\ ALL_PATTERNS[3][5].necessary
  /\ ALL_PATTERNS[4][4].necessary /\ ALL_PATTERNS[4][7].necessary
  /\ ~ALL_PATTERNS[4][5].necessary /\ ~ALL_PATTERNS[4][6].necessary
<1>1. \A t : Tokens(t).necessary
  BY TokensParts, Zenon
<1>2. ~CONDITION.necessary /\ ~NEXT_CONDITION.necessary
  BY ConditionParts, Zenon
<1> QED
  BY <1>1, <1>2, PatternsAre, Pattern2, Pattern3, Pattern4, Zenon

LEMMA PatternSizes ==
  /\ Len(ALL_PATTERNS[1]) = 1 /\ Len(ALL_PATTERNS[2]) = 4
  /\ Len(ALL_PATTERNS[3]) = 5 /\ Len(ALL_PATTERNS[4]) = 7
BY PatternsAre, Pattern1, Pattern2, Pattern3, Pattern4, Zenon

LEMMA ElementsHere ==
  /\ 2 \in 1 .. 4 /\ 3 \in 1 .. 4 /\ 4 \in 1 .. 4
  /\ 4 \in 1 .. Len(ALL_PATTERNS[2])
  /\ 3 \in 1 .. Len(ALL_PATTERNS[3]) /\ 5 \in 1 .. Len(ALL_PATTERNS[3])
  /\ 4 \in 1 .. Len(ALL_PATTERNS[4]) /\ 5 \in 1 .. Len(ALL_PATTERNS[4])
  /\ 6 \in 1 .. Len(ALL_PATTERNS[4]) /\ 7 \in 1 .. Len(ALL_PATTERNS[4])
<1>1. /\ 2 \in 1 .. 4 /\ 3 \in 1 .. 4 /\ 4 \in 1 .. 4 /\ 3 \in 1 .. 5 /\ 5 \in 1 .. 5
      /\ 4 \in 1 .. 7 /\ 5 \in 1 .. 7 /\ 6 \in 1 .. 7 /\ 7 \in 1 .. 7
  OBVIOUS
<1> QED
  BY <1>1, PatternSizes, Zenon

LEMMA ContinuesNeeded ==
  ASSUME NEW k \in 1 .. 4, NEW e \in 1 .. Len(ALL_PATTERNS[k]), NEW input \in Seq(AnyToken),
         NEW o \in 0 .. Len(input), ALL_PATTERNS[k][e].necessary
  PROVE  Continues(k, input, e, o) <=>
           /\ LengthAt(k, input, e, o) # 0
           /\ Continues(k, input, e + 1, o + LengthAt(k, input, e, o))
<1>1. Len(ALL_PATTERNS[k]) \in Nat
  BY PatternLengths
<1>2. e \in 1 .. Len(ALL_PATTERNS[k]) + 1 /\ e <= Len(ALL_PATTERNS[k])
  BY <1>1
<1> QED
  BY <1>2, Continuing, Zenon

LEMMA ContinuesOptional ==
  ASSUME NEW k \in 1 .. 4, NEW e \in 1 .. Len(ALL_PATTERNS[k]), NEW input \in Seq(AnyToken),
         NEW o \in 0 .. Len(input), ~ALL_PATTERNS[k][e].necessary
  PROVE  Continues(k, input, e, o) <=>
           \/ Continues(k, input, e + 1, o)
           \/ /\ LengthAt(k, input, e, o) # 0
              /\ Continues(k, input, e, o + LengthAt(k, input, e, o))
<1>1. Len(ALL_PATTERNS[k]) \in Nat
  BY PatternLengths
<1>2. e \in 1 .. Len(ALL_PATTERNS[k]) + 1 /\ e <= Len(ALL_PATTERNS[k])
  BY <1>1
<1> QED
  BY <1>2, Continuing, Zenon

LEMMA ListGreedy ==
  ASSUME NEW input \in Seq(AnyToken), NEW o \in 0 .. Len(input)
  PROVE  /\ LengthAt(2, input, 3, o) # 0 => ~Continues(2, input, 4, o)
         /\ LengthAt(3, input, 2, o) # 0 => ~Continues(3, input, 3, o)
         /\ LengthAt(3, input, 4, o) # 0 => ~Continues(3, input, 5, o)
         /\ LengthAt(4, input, 3, o) # 0 => ~Continues(4, input, 4, o)
         /\ IsConnective(At(input, o + 1)) => ~Continues(4, input, 7, o)
<1>2. ASSUME Continues(2, input, 4, o) PROVE At(input, o + 1) = Mark(")")
  <2>1. LengthAt(2, input, 4, o) # 0
    BY <1>2, NeededHere, ElementsHere, ContinuesNeeded, Zenon
  <2> QED
    BY <2>1, Follows, Zenon
<1>3. ASSUME Continues(3, input, 3, o) PROVE At(input, o + 1) = Mark(")")
  <2>1. LengthAt(3, input, 3, o) # 0
    BY <1>3, NeededHere, ElementsHere, ContinuesNeeded, Zenon
  <2> QED
    BY <2>1, Follows, Zenon
<1>4. ASSUME Continues(3, input, 5, o) PROVE At(input, o + 1) = Mark(")")
  <2>1. LengthAt(3, input, 5, o) # 0
    BY <1>4, NeededHere, ElementsHere, ContinuesNeeded, Zenon
  <2> QED
    BY <2>1, Follows, Zenon
<1>5. ASSUME Continues(4, input, 4, o) PROVE At(input, o + 1) = Keyword("FROM")
  <2>1. LengthAt(4, input, 4, o) # 0
    BY <1>5, NeededHere, ElementsHere, ContinuesNeeded, Zenon
  <2> QED
    BY <2>1, Follows, Zenon
<1>6. ASSUME Continues(4, input, 7, o) PROVE At(input, o + 1) = Mark(";")
  <2>1. LengthAt(4, input, 7, o) # 0
    BY <1>6, NeededHere, ElementsHere, ContinuesNeeded, Zenon
  <2> QED
    BY <2>1, Follows, Zenon
<1>7. LengthAt(2, input, 3, o) # 0 => ~Continues(2, input, 4, o)
  BY <1>2, Repeats, OtherTokens, Zenon
<1>8. LengthAt(3, input, 2, o) # 0 => ~Continues(3, input, 3, o)
  BY <1>3, Repeats, OtherTokens, Zenon
<1>9. LengthAt(3, input, 4, o) # 0 => ~Continues(3, input, 5, o)
  BY <1>4, Repeats, OtherTokens, Zenon
<1>10. LengthAt(4, input, 3, o) # 0 => ~Continues(4, input, 4, o)
  BY <1>5, Repeats, OtherTokens, Zenon
<1>11. IsConnective(At(input, o + 1)) => ~Continues(4, input, 7, o)
  BY <1>6, OtherTokens, Zenon
<1> QED
  BY <1>7, <1>8, <1>9, <1>10, <1>11, Zenon

LEMMA WhereGreedy ==
  ASSUME NEW input \in Seq(AnyToken), NEW o \in 0 .. Len(input),
         LengthAt(4, input, 5, o) # 0, Continues(4, input, 6, o)
  PROVE  Continues(4, input, 5, o + LengthAt(4, input, 5, o))
<1> DEFINE n == LengthAt(4, input, 5, o)
<1>1. 6 + 1 = 7 /\ 5 + 1 = 6
  OBVIOUS
<1>2. WhereBegins(input, o) /\ n = ComparisonLength(input, o)
  BY Repeats, Zenon
<1>3. IsConnective(At(input, o + 1)) /\ NextBegins(input, o)
  BY <1>2, OtherTokens, Zenon DEF WhereBegins, NextBegins
<1>4. LengthAt(4, input, 6, o) = n
  BY <1>2, <1>3, Repeats, Zenon
<1>5. ~Continues(4, input, 7, o)
  BY <1>3, ListGreedy, Zenon
<1>6. Continues(4, input, 6, o) <=>
           \/ Continues(4, input, 6 + 1, o)
           \/ /\ LengthAt(4, input, 6, o) # 0
              /\ Continues(4, input, 6, o + LengthAt(4, input, 6, o))
  BY NeededHere, ElementsHere, ContinuesOptional, Zenon
<1>7. Continues(4, input, 6, o + n)
  BY <1>1, <1>4, <1>5, <1>6, Zenon
<1>8. n # 0 => o + n \in o + 1 .. Len(input)
  BY ElementsHere, EndsHere, Zenon
<1> HIDE DEF n
<1>9. PICK end \in 0 .. Len(input) : end = o + n
  <2>1. o + n \in 0 .. Len(input)
    BY <1>8 DEF n
  <2> QED
    BY <2>1
<1>10. Continues(4, input, 5, end) <=>
           \/ Continues(4, input, 5 + 1, end)
           \/ /\ LengthAt(4, input, 5, end) # 0
              /\ Continues(4, input, 5, end + LengthAt(4, input, 5, end))
  BY NeededHere, ElementsHere, ContinuesOptional, Zenon
<1>11. Continues(4, input, 5, end)
  BY <1>1, <1>7, <1>9, <1>10, Zenon
<1> QED
  BY <1>9, <1>11, Zenon DEF n

LEMMA Greedy ==
  ASSUME NEW k \in 1 .. 4, NEW e \in 1 .. Len(ALL_PATTERNS[k]), NEW input \in Seq(AnyToken),
         NEW o \in 0 .. Len(input), ~ALL_PATTERNS[k][e].necessary, LengthAt(k, input, e, o) # 0
  PROVE  Continues(k, input, e, o) <=> Continues(k, input, e, o + LengthAt(k, input, e, o))
<1>1. Continues(k, input, e, o) <=>
           \/ Continues(k, input, e + 1, o)
           \/ /\ LengthAt(k, input, e, o) # 0
              /\ Continues(k, input, e, o + LengthAt(k, input, e, o))
  BY ContinuesOptional, Zenon
<1>2. \/ k = 2 /\ e = 3
      \/ k = 3 /\ e \in {2, 4}
      \/ k = 4 /\ e \in {3, 5, 6}
  BY Optionals, Zenon
<1>3. 2 + 1 = 3 /\ 3 + 1 = 4 /\ 4 + 1 = 5 /\ 5 + 1 = 6 /\ 6 + 1 = 7
  OBVIOUS
<1>4. ASSUME Continues(k, input, e + 1, o)
      PROVE  Continues(k, input, e, o + LengthAt(k, input, e, o))
  <2>1. CASE k = 2 /\ e = 3
    BY <1>3, <1>4, <2>1, ListGreedy, Zenon
  <2>2. CASE k = 3 /\ e = 2
    BY <1>3, <1>4, <2>2, ListGreedy, Zenon
  <2>3. CASE k = 3 /\ e = 4
    BY <1>3, <1>4, <2>3, ListGreedy, Zenon
  <2>4. CASE k = 4 /\ e = 3
    BY <1>3, <1>4, <2>4, ListGreedy, Zenon
  <2>5. CASE k = 4 /\ e = 5
    BY <1>3, <1>4, <2>5, WhereGreedy, Zenon
  <2>6. CASE k = 4 /\ e = 6
    <3>1. IsConnective(At(input, o + 1))
      BY <2>6, Repeats, Zenon DEF NextBegins
    <3> QED
      BY <1>3, <1>4, <2>6, <3>1, ListGreedy, Zenon
  <2> QED
    BY <1>2, <2>1, <2>2, <2>3, <2>4, <2>5, <2>6, Zenon
<1> QED
  BY <1>1, <1>4, Zenon

-----------------------------------------------------------------------------
(* No input is a sentence of two patterns: their first words differ.       *)
FirstWords(k, input) ==
  /\ k = 1 => At(input, 1) = Keyword("CREATE") /\ At(input, 2) = Keyword("DATABASE")
  /\ k = 2 => At(input, 1) = Keyword("CREATE") /\ At(input, 2) = Keyword("TABLE")
  /\ k = 3 => At(input, 1) = Keyword("INSERT")
  /\ k = 4 => At(input, 1) = Keyword("SELECT")

LEMMA DerivesFirst ==
  ASSUME NEW k \in 1 .. 4, NEW input \in Seq(AnyToken), Derives(ALL_PATTERNS[k], input)
  PROVE  CertainCheck(FirstTokens(k), input, 0)
<1>1. 1 \in 1 .. Len(ALL_PATTERNS[k]) /\ 0 \in 0 .. Len(input)
  <2>1. 0 \in 0 .. Len(input)
    BY LenProperties
  <2> QED
    BY <2>1, LongEnough, Zenon
<1>2. ALL_PATTERNS[k][1].necessary /\ TokensKind(ALL_PATTERNS[k][1].parts)
  BY FirstTokensAre, Zenon
<1>3. LengthAt(k, input, 1, 0) # 0
  BY <1>1, <1>2, DerivesIs, ContinuesNeeded, Zenon
<1>4. PICK parts : parts = ALL_PATTERNS[k][1].parts
  OBVIOUS
<1>5. Len(parts) = 1 /\ parts[1].range = Empty
  BY <1>2, <1>4, Zenon DEF TokensKind
<1>6. ElementLength(parts, input, 0) = TokensLength(parts[1], input, 0)
  BY <1>5, Zenon DEF ElementLength
<1>7. CertainCheck(parts[1].templates, input, 0)
  BY <1>3, <1>4, <1>6, Zenon DEF LengthAt, TokensLength
<1> QED
  BY <1>4, <1>7, Zenon DEF FirstTokens

LEMMA FirstWordsAre ==
  ASSUME NEW k \in 1 .. 4, NEW input \in Seq(AnyToken), Derives(ALL_PATTERNS[k], input)
  PROVE  FirstWords(k, input)
<1>0. 0 + 1 = 1 /\ 0 + 2 = 2
  OBVIOUS
<1>1. CertainCheck(FirstTokens(k), input, 0)
  BY DerivesFirst, Zenon
<1>2. \A word, t : Fits(Keyword(word), t) => t = Keyword(word)
  BY FitsWhat, Zenon
<1>3. k = 1 => At(input, 1) = Keyword("CREATE") /\ At(input, 2) = Keyword("DATABASE")
  <2> HAVE k = 1
  <2>1. CertainCheck(<<Keyword("CREATE"), Keyword("DATABASE"), AnyIdentifier, Mark(";")>>, input, 0)
    BY <1>1, FirstTokensAre, Zenon
  <2>2. Fits(Keyword("CREATE"), At(input, 0 + 1)) /\ Fits(Keyword("DATABASE"), At(input, 0 + 2))
    BY <2>1, Check4, Zenon
  <2> QED
    BY <1>0, <1>2, <2>2, Zenon
<1>4. k = 2 => At(input, 1) = Keyword("CREATE") /\ At(input, 2) = Keyword("TABLE")
  <2> HAVE k = 2
  <2>1. CertainCheck(<<Keyword("CREATE"), Keyword("TABLE"), AnyIdentifier, Mark("("), AnyIdentifier>>,
                     input, 0)
    BY <1>1, FirstTokensAre, Zenon
  <2>2. Fits(Keyword("CREATE"), At(input, 0 + 1)) /\ Fits(Keyword("TABLE"), At(input, 0 + 2))
    BY <2>1, Check5, Zenon
  <2> QED
    BY <1>0, <1>2, <2>2, Zenon
<1>5. k = 3 => At(input, 1) = Keyword("INSERT")
  <2> HAVE k = 3
  <2>1. CertainCheck(<<Keyword("INSERT"), Keyword("INTO"), AnyIdentifier, Mark("("), AnyIdentifier>>,
                     input, 0)
    BY <1>1, FirstTokensAre, Zenon
  <2>2. Fits(Keyword("INSERT"), At(input, 0 + 1))
    BY <2>1, Check5, Zenon
  <2> QED
    BY <1>0, <1>2, <2>2, Zenon
<1>6. k = 4 => At(input, 1) = Keyword("SELECT")
  <2> HAVE k = 4
  <2>1. CertainCheck(<<Keyword("SELECT")>>, input, 0)
    BY <1>1, FirstTokensAre, Zenon
  <2>2. Fits(Keyword("SELECT"), At(input, 0 + 1))
    BY <2>1, Check1, Zenon
  <2> QED
    BY <1>0, <1>2, <2>2, Zenon
<1> QED
  BY <1>3, <1>4, <1>5, <1>6, Zenon DEF FirstWords

LEMMA OnePattern ==
  ASSUME NEW i \in 1 .. 4, NEW j \in 1 .. 4, NEW input \in Seq(AnyToken),
         Derives(ALL_PATTERNS[i], input), Derives(ALL_PATTERNS[j], input)
  PROVE  i = j
<1>1. FirstWords(i, input) /\ FirstWords(j, input)
  BY FirstWordsAre, Zenon
<1>2. /\ Keyword("CREATE") # Keyword("INSERT") /\ Keyword("CREATE") # Keyword("SELECT")
      /\ Keyword("INSERT") # Keyword("SELECT") /\ Keyword("DATABASE") # Keyword("TABLE")
  BY DEF Keyword, Token
<1>3. \A k \in 1 .. 4 : k = 1 \/ k = 2 \/ k = 3 \/ k = 4
  OBVIOUS
<1> QED
  BY <1>1, <1>2, <1>3, Zenon DEF FirstWords

-----------------------------------------------------------------------------
(* The trees of CREATE DATABASE and CREATE TABLE, read back.               *)
LEMMA DatabaseRead ==
  ASSUME NEW tree, IsDatabase(tree), NEW input, DatabaseTokens(input, tree)
  PROVE  CreateDatabaseSql(input) = tree
<1>1. input[3].value = tree.db_name
  BY KindsOfTokens, Zenon DEF DatabaseTokens
<1> QED
  BY <1>1, Zenon DEF IsDatabase, CreateDatabaseSql

(* ItemsAre, with its conditions as one.                                   *)
ItemsThere(input, n, k, from) ==
  /\ input \in Seq(AnyToken) /\ n \in Nat \ {0} /\ k \in {1, 2} /\ from \in Nat \ {0}
  /\ from + (k + 1) * n - 1 <= Len(input) + 1 /\ IsItems(input, from, n, k)

LEMMA ItemsFrom ==
  ASSUME NEW input, NEW n, NEW k, NEW from, ItemsThere(input, n, k, from),
         NEW items, items = Items(input, from, from + (k + 1) * n - 1)
  PROVE  /\ items \in Seq(AnyToken) /\ Len(items) = k * n
         /\ \A i \in 1 .. k * n : items[i] = input[from - 1 + ItemPlace(k, i)]
<1>1. /\ input \in Seq(AnyToken) /\ n \in Nat \ {0} /\ k \in {1, 2} /\ from \in Nat \ {0}
      /\ from + (k + 1) * n - 1 <= Len(input) + 1 /\ IsItems(input, from, n, k)
  BY Zenon DEF ItemsThere
<1>2. LET r == Items(input, from, from + (k + 1) * n - 1)
      IN  /\ r \in Seq(AnyToken) /\ Len(r) = k * n
          /\ \A i \in 1 .. k * n : r[i] = input[from - 1 + ItemPlace(k, i)]
  BY <1>1, ItemsAre, Zenon
<1> QED
  BY <1>2, Zenon

LEMMA ColumnPlaces ==
  ASSUME NEW n \in Nat \ {0}, NEW i \in 1 .. n
  PROVE  /\ ItemPlace(2, 2 * i - 1) = 3 * i - 2 /\ ItemPlace(2, 2 * i) = 3 * i - 1
         /\ 2 * i - 1 \in 1 .. 2 * n /\ 2 * i \in 1 .. 2 * n
         /\ (2 + 1) * (i - 1) + 1 = 3 * i - 2 /\ (2 + 1) * (i - 1) + 2 = 3 * i - 1
         /\ (2 + 1) * i = 3 * i
<1>1. ((2 * i - 1) - 1) \div 2 = i - 1 /\ ((2 * i) - 1) \div 2 = i - 1
  BY SMT
<1>2. ItemPlace(2, 2 * i - 1) = (2 * i - 1) + (i - 1) /\ ItemPlace(2, 2 * i) = 2 * i + (i - 1)
  BY <1>1, Zenon DEF ItemPlace
<1> HIDE DEF ItemPlace
<1> QED
  BY <1>2

LEMMA ColumnsRead ==
  ASSUME NEW input \in Seq(AnyToken), NEW columns \in Seq(AnyColumn),
         NEW n \in Nat \ {0}, n = Len(columns),
         ColumnTokens(input, 5, columns), 4 + 3 * n <= Len(input)
  PROVE  LET items == ValuesOf(Items(input, 5, 4 + 3 * n))
         IN  /\ Len(items) = 2 * n
             /\ \A i \in 1 .. n : items[2 * i - 1] = columns[i].col_name
                                  /\ items[2 * i] = columns[i].value_type
<1>1. Len(input) \in Nat
  BY LenProperties
<1>2. \A i \in 1 .. n : /\ input[5 - 1 + (3 * i - 2)] = Identifier(columns[i].col_name)
                        /\ input[5 - 1 + (3 * i - 1)] = Keyword(columns[i].value_type)
  BY Zenon DEF ColumnTokens
<1>3. \A i \in 1 .. n - 1 : input[5 - 1 + 3 * i] = Mark(",")
  BY Zenon DEF ColumnTokens
<1>4. IsItems(input, 5, n, 2)
  <2>1. ASSUME NEW i \in 1 .. n, NEW j \in 1 .. 2
        PROVE  input[5 - 1 + (2 + 1) * (i - 1) + j] # Mark(",")
    <3>1. j = 1 \/ j = 2
      OBVIOUS
    <3>2. \/ 5 - 1 + (2 + 1) * (i - 1) + j = 5 - 1 + (3 * i - 2)
          \/ 5 - 1 + (2 + 1) * (i - 1) + j = 5 - 1 + (3 * i - 1)
      BY <3>1
    <3>3. PICK x : x = 5 - 1 + (2 + 1) * (i - 1) + j
      OBVIOUS
    <3>4. (\E a : input[x] = Identifier(a)) \/ (\E a : input[x] = Keyword(a))
      BY <1>2, <3>2, <3>3, Zenon
    <3>5. input[x] # Mark(",")
      BY <3>4, KindsOfTokens, Zenon
    <3> QED
      BY <3>3, <3>5, Zenon
  <2>2. ASSUME NEW i \in 1 .. n - 1 PROVE input[5 - 1 + (2 + 1) * i] = Mark(",")
    <3>1. 5 - 1 + (2 + 1) * i = 5 - 1 + 3 * i
      OBVIOUS
    <3> QED
      BY <1>3, <3>1, Zenon
  <2> QED
    BY <2>1, <2>2, Zenon DEF IsItems
<1>5. 2 \in {1, 2} /\ 5 \in Nat \ {0} /\ 5 + (2 + 1) * n - 1 = 4 + 3 * n
  OBVIOUS
<1>6. 5 + (2 + 1) * n - 1 <= Len(input) + 1
  BY <1>1
<1>7. PICK k, from : k = 2 /\ from = 5
  OBVIOUS
<1>8. PICK items : items = Items(input, from, from + (k + 1) * n - 1)
  OBVIOUS
<1>9. ItemsThere(input, n, k, from)
  BY <1>4, <1>5, <1>6, <1>7, Zenon DEF ItemsThere
<1>10. /\ items \in Seq(AnyToken) /\ Len(items) = k * n
       /\ \A i \in 1 .. k * n : items[i] = input[from - 1 + ItemPlace(k, i)]
  BY <1>8, <1>9, ItemsFrom, SMT
<1>11. /\ items \in Seq(AnyToken) /\ Len(items) = 2 * n /\ items = Items(input, 5, 4 + 3 * n)
       /\ \A i \in 1 .. 2 * n : items[i] = input[5 - 1 + ItemPlace(2, i)]
  BY <1>5, <1>7, <1>8, <1>10, Zenon
<1>12. DOMAIN items = 1 .. 2 * n
  BY <1>11, LenProperties
<1>13. PICK values : values = ValuesOf(items)
  OBVIOUS
<1>14. values = [i \in 1 .. 2 * n |-> items[i].value]
  BY <1>12, <1>13, Zenon DEF ValuesOf
<1>15. Len(values) = 2 * n /\ \A i \in 1 .. 2 * n : values[i] = items[i].value
  <2>1. 2 * n \in Nat
    OBVIOUS
  <2> QED
    BY <1>14, <2>1
<1>16. \A i \in 1 .. n : values[2 * i - 1] = columns[i].col_name /\ values[2 * i] = columns[i].value_type
  <2> TAKE i \in 1 .. n
  <2>1. /\ ItemPlace(2, 2 * i - 1) = 3 * i - 2 /\ ItemPlace(2, 2 * i) = 3 * i - 1
        /\ 2 * i - 1 \in 1 .. 2 * n /\ 2 * i \in 1 .. 2 * n
    BY ColumnPlaces
  <2>2. /\ items[2 * i - 1] = input[5 - 1 + (3 * i - 2)]
        /\ items[2 * i] = input[5 - 1 + (3 * i - 1)]
    BY <1>11, <2>1, Zenon
  <2>3. items[2 * i - 1] = Identifier(columns[i].col_name) /\ items[2 * i] = Keyword(columns[i].value_type)
    BY <1>2, <2>2, Zenon
  <2>4. values[2 * i - 1] = items[2 * i - 1].value /\ values[2 * i] = items[2 * i].value
    BY <1>15, <2>1, Zenon
  <2>5. PICK a, b : a = columns[i].col_name /\ b = columns[i].value_type
    OBVIOUS
  <2>6. values[2 * i - 1] = Identifier(a).value /\ values[2 * i] = Keyword(b).value
    BY <2>3, <2>4, <2>5, Zenon
  <2> QED
    BY <2>5, <2>6, KindsOfTokens, Zenon
<1> QED
  BY <1>11, <1>13, <1>15, <1>16, Zenon

LEMMA BracketOfColumns ==
  ASSUME NEW input \in Seq(AnyToken), NEW columns \in Seq(AnyColumn),
         NEW n \in Nat \ {0}, n = Len(columns),
         ColumnTokens(input, 5, columns), 4 + 3 * n <= Len(input), input[4 + 3 * n] = Mark(")")
  PROVE  First(input, 5, Mark(")")) = 4 + 3 * n
<1>1. Len(input) \in Nat /\ "," # ")"
  BY LenProperties
<1>2. \A i \in 1 .. n : /\ input[5 - 1 + (3 * i - 2)] = Identifier(columns[i].col_name)
                        /\ input[5 - 1 + (3 * i - 1)] = Keyword(columns[i].value_type)
  BY Zenon DEF ColumnTokens
<1>3. \A i \in 1 .. n - 1 : input[5 - 1 + 3 * i] = Mark(",")
  BY Zenon DEF ColumnTokens
<1>4. ASSUME NEW j \in 5 .. (4 + 3 * n) - 1 PROVE input[j] # Mark(")")
  <2>1. \/ (j - 2) \div 3 \in 1 .. n /\ j = 5 - 1 + (3 * ((j - 2) \div 3) - 2)
        \/ (j - 3) \div 3 \in 1 .. n /\ j = 5 - 1 + (3 * ((j - 3) \div 3) - 1)
        \/ (j - 4) \div 3 \in 1 .. n - 1 /\ j = 5 - 1 + 3 * ((j - 4) \div 3)
    OBVIOUS
  <2>2. \/ \E a : input[j] = Identifier(a)
        \/ \E a : input[j] = Keyword(a)
        \/ input[j] = Mark(",")
    BY <1>2, <1>3, <2>1, Zenon
  <2> QED
    BY <1>1, <2>2, KindsOfTokens, Zenon
<1>5. 4 + 3 * n \in 5 .. Len(input) /\ 5 \in Nat
  BY <1>1
<1> QED
  BY <1>1, <1>4, <1>5, FirstIs, Zenon

LEMMA TableRead ==
  ASSUME NEW tree, IsTable(tree), NEW input \in Seq(AnyToken), TableTokens(input, tree),
         Len(tree.columns) \in Nat \ {0}
  PROVE  \/ CreateTableSql(input) = tree
         \/ /\ CreateTableSql(input) = Thrown
            /\ ~ \A c \in Range(tree.columns) : c.value_type \in ValueTypes
<1>1. PICK n \in Nat \ {0} : n = Len(tree.columns)
  OBVIOUS
<1>2. PICK columns : columns = tree.columns
  OBVIOUS
<1>3. /\ columns \in Seq(AnyColumn) /\ n = Len(columns) /\ Len(input) \in Nat
      /\ tree = [node |-> "CREATE_TABLE_NODE", table_name |-> tree.table_name, columns |-> columns]
  BY <1>1, <1>2, LenProperties, Zenon DEF IsTable, AnyColumn
<1>4. /\ Len(input) >= 5 + 3 * n /\ input[3] = Identifier(tree.table_name)
      /\ ColumnTokens(input, 5, columns) /\ input[4 + 3 * n] = Mark(")")
  BY <1>1, <1>2, Zenon DEF TableTokens
<1>5. 4 + 3 * n <= Len(input)
  BY <1>3, <1>4
<1>6. First(input, 5, Mark(")")) = 4 + 3 * n
  BY <1>3, <1>4, <1>5, BracketOfColumns
<1>7. PICK items : items = ValuesOf(Items(input, 5, 4 + 3 * n))
  OBVIOUS
<1>8. /\ Len(items) = 2 * n
      /\ \A i \in 1 .. n : items[2 * i - 1] = columns[i].col_name /\ items[2 * i] = columns[i].value_type
  <2>1. LET read == ValuesOf(Items(input, 5, 4 + 3 * n))
        IN  /\ Len(read) = 2 * n
            /\ \A i \in 1 .. n : read[2 * i - 1] = columns[i].col_name /\ read[2 * i] = columns[i].value_type
    BY <1>3, <1>4, <1>5, ColumnsRead, Zenon
  <2> QED
    BY <1>7, <2>1, Zenon
<1>9. Len(items) \div 2 = n
  BY <1>8, SMT
<1>10. PICK read : read = [i \in 1 .. Len(items) \div 2 |->
                            [col_name |-> items[2 * i - 1], value_type |-> items[2 * i]]]
  OBVIOUS
<1>11. read = columns
  <2>1. read = [i \in 1 .. n |-> [col_name |-> columns[i].col_name, value_type |-> columns[i].value_type]]
    <3>1. read = [i \in 1 .. n |-> [col_name |-> items[2 * i - 1], value_type |-> items[2 * i]]]
      BY <1>9, <1>10, Zenon
    <3>2. \A i \in 1 .. n : [col_name |-> items[2 * i - 1], value_type |-> items[2 * i]]
                             = [col_name |-> columns[i].col_name, value_type |-> columns[i].value_type]
      BY <1>8, Zenon
    <3> QED
      BY <3>1, <3>2
  <2>2. \A i \in 1 .. n : columns[i] = [col_name |-> columns[i].col_name, value_type |-> columns[i].value_type]
    <3>1. \A i \in 1 .. n : columns[i] \in AnyColumn
      BY <1>3, LenProperties
    <3> QED
      BY <3>1 DEF AnyColumn
  <2>3. columns = [i \in 1 .. n |-> columns[i]]
    BY <1>3, LenProperties
  <2> QED
    BY <2>1, <2>2, <2>3
<1>12. CreateTableSql(input)
         = IF \A i \in DOMAIN read : read[i].value_type \in ValueTypes
           THEN [node |-> "CREATE_TABLE_NODE", table_name |-> input[3].value, columns |-> read]
           ELSE Thrown
  BY <1>6, <1>7, <1>10, Zenon DEF CreateTableSql
<1>13. input[3].value = tree.table_name
  BY <1>4, KindsOfTokens, Zenon
<1>14. CASE \A i \in DOMAIN columns : columns[i].value_type \in ValueTypes
  BY <1>3, <1>11, <1>12, <1>13, <1>14, Zenon
<1>15. CASE ~ \A i \in DOMAIN columns : columns[i].value_type \in ValueTypes
  <2>1. CreateTableSql(input) = Thrown
    BY <1>11, <1>12, <1>15, Zenon
  <2>2. ~ \A c \in Range(columns) : c.value_type \in ValueTypes
    BY <1>15, Zenon DEF Range
  <2> QED
    BY <1>2, <2>1, <2>2, Zenon
<1> QED
  BY <1>14, <1>15

-----------------------------------------------------------------------------
(* The conditions of a SELECT: their words, their tokens, and the places   *)
(* behind which they stand.                                                *)
Opening(tree, i) == IF i = 1 THEN "WHERE" ELSE tree.operators[i - 1]

ConditionLength(k) == IF k.condition = "!=" THEN 5 ELSE 4

IsCondition(s, k, opening) ==
  /\ Len(s) = ConditionLength(k)
  /\ s[1] = Text("word", opening) /\ s[2] = Text("word", k.col)
  /\ k.condition = "!=" => s[3] = Text("mark", "!") /\ s[4] = Text("mark", "=")
  /\ k.condition # "!=" => s[3] = Text("mark", k.condition)
  /\ s[ConditionLength(k)] \in {Text("digits", k.compare_value), Text("quoted", k.compare_value)}

ConditionTokens(input, o, k, opening) ==
  /\ input[o + 1] = Keyword(opening) /\ input[o + 2] = Identifier(k.col)
  /\ k.condition = "!=" => input[o + 3] = Mark("!") /\ input[o + 4] = Mark("=")
  /\ k.condition # "!=" => input[o + 3] = Mark(k.condition)
  /\ IsValue(input[o + ConditionLength(k)]) /\ input[o + ConditionLength(k)].value = k.compare_value

LEMMA CompareWordsAre ==
  ASSUME NEW condition \in Texts
  PROVE  /\ CompareWords(condition) \in Seq(AnyWord)
         /\ condition = "!=" => /\ Len(CompareWords(condition)) = 2
                                /\ CompareWords(condition)[1] = Text("mark", "!")
                                /\ CompareWords(condition)[2] = Text("mark", "=")
         /\ condition # "!=" => /\ Len(CompareWords(condition)) = 1
                                /\ CompareWords(condition)[1] = Text("mark", condition)
<1>1. CASE condition # "!="
  <2>1. CompareWords(condition) = Marked(condition)
    BY <1>1, Zenon DEF CompareWords
  <2> QED
    BY <1>1, <2>1, TextsAre, Zenon
<1>2. CASE condition = "!="
  <2>1. PICK a, b : a = Marked("!") /\ b = Marked("=")
    OBVIOUS
  <2>2. "!" \in Texts /\ "=" \in Texts
    BY WordTokens, Zenon
  <2>3. /\ a \in Seq(AnyWord) /\ Len(a) = 1 /\ a[1] = Text("mark", "!")
        /\ b \in Seq(AnyWord) /\ Len(b) = 1 /\ b[1] = Text("mark", "=")
    BY <2>1, <2>2, TextsAre, Zenon
  <2>4. CompareWords(condition) = a \o b
    BY <1>2, <2>1, Zenon DEF CompareWords
  <2>5. PICK s : s = a \o b
    OBVIOUS
  <2>6. s \in Seq(AnyWord) /\ Len(s) = Len(a) + Len(b) /\ Lies(a, s, 0) /\ Lies(b, s, Len(a))
    BY <2>3, <2>5, ConcatLies
  <2>7. Len(s) = 2 /\ 1 \in 1 .. 1 /\ 0 + 1 = 1 /\ 1 + 1 = 2
    BY <2>3, <2>6
  <2>8. s[1] = a[1] /\ s[2] = b[1]
    BY <2>3, <2>6, <2>7, Zenon DEF Lies
  <2> QED
    BY <1>2, <2>3, <2>4, <2>5, <2>6, <2>7, <2>8, Zenon
<1> QED
  BY <1>1, <1>2

IsThree(s, a, b, c) == s = a \o b \o c

LEMMA ThreeLie ==
  ASSUME NEW S, NEW a \in Seq(S), NEW b \in Seq(S), NEW c \in Seq(S), NEW s, IsThree(s, a, b, c)
  PROVE  /\ s \in Seq(S) /\ Len(s) = Len(a) + Len(b) + Len(c)
         /\ Lies(a, s, 0) /\ Lies(b, s, Len(a)) /\ Lies(c, s, Len(a) + Len(b))
<1>1. PICK t : t = a \o b
  OBVIOUS
<1>2. t \in Seq(S) /\ Len(t) = Len(a) + Len(b) /\ Lies(a, t, 0) /\ Lies(b, t, Len(a))
  BY <1>1, ConcatLies
<1>3. s \in Seq(S) /\ Len(s) = Len(t) + Len(c) /\ Lies(t, s, 0) /\ Lies(c, s, Len(t))
  <2>1. s = t \o c
    BY <1>1, Zenon DEF IsThree
  <2> QED
    BY <1>2, <2>1, ConcatLies
<1>4. Len(a) \in Nat /\ Len(b) \in Nat /\ Len(t) \in Nat /\ Len(s) \in Nat /\ 0 \in Nat
  BY <1>2, <1>3, LenProperties
<1>5. Lies(a, s, 0) /\ Lies(b, s, Len(a))
  BY <1>2, <1>3, <1>4, LiesFirst
<1> QED
  BY <1>2, <1>3, <1>5, Zenon

LEMMA ConditionSpread ==
  ASSUME NEW tree, IsSelect(tree), NEW i \in 1 .. Len(tree.compare_vector)
  PROVE  IsCondition(ConditionWords(tree, i), tree.compare_vector[i], Opening(tree, i))
<1>1. PICK k, opening, s :
        k = tree.compare_vector[i] /\ opening = Opening(tree, i) /\ s = ConditionWords(tree, i)
  OBVIOUS
<1>2. /\ k \in [col : Name, condition : Comparators, compare_value : ValueText]
      /\ i > 1 => tree.operators[i - 1] \in {"AND", "OR"}
      /\ s = Words(<<opening, k.col>>) \o CompareWords(k.condition) \o Literal(k.compare_value)
  BY <1>1, ConditionIn, Zenon DEF Opening
<1>3. k.col \in Texts /\ k.condition \in Texts /\ k.compare_value \in Texts
  <2>1. k.col \in Name /\ k.condition \in Comparators /\ k.compare_value \in ValueText
    BY <1>2
  <2> QED
    BY <2>1, NamesTyped
<1>4. opening \in Texts
  <2>1. "WHERE" \in Texts /\ "AND" \in Texts /\ "OR" \in Texts
    BY WordTexts, Zenon
  <2>2. i = 1 \/ i > 1
    OBVIOUS
  <2> QED
    BY <1>1, <1>2, <2>1, <2>2, Zenon DEF Opening
<1>5. PICK q : q = <<opening, k.col>>
  OBVIOUS
<1>6. q \in Seq(Texts) /\ Len(q) = 2 /\ q[1] = opening /\ q[2] = k.col
  BY <1>3, <1>4, <1>5, TextTuples, Zenon
<1>7. PICK a, b, c : a = Words(q) /\ b = CompareWords(k.condition) /\ c = Literal(k.compare_value)
  OBVIOUS
<1>8. 1 \in 1 .. 2 /\ 2 \in 1 .. 2
  OBVIOUS
<1>9. a \in Seq(AnyWord) /\ Len(a) = 2 /\ a[1] = Text("word", opening) /\ a[2] = Text("word", k.col)
  BY <1>6, <1>7, <1>8, WordsAre, Zenon
<1>10. /\ b \in Seq(AnyWord)
       /\ k.condition = "!=" => Len(b) = 2 /\ b[1] = Text("mark", "!") /\ b[2] = Text("mark", "=")
       /\ k.condition # "!=" => Len(b) = 1 /\ b[1] = Text("mark", k.condition)
  BY <1>3, <1>7, CompareWordsAre, Zenon
<1>11. /\ c \in Seq(AnyWord) /\ Len(c) = 1
       /\ c[1] \in {Text("digits", k.compare_value), Text("quoted", k.compare_value)}
  BY <1>3, <1>7, TextsAre, Zenon
<1>12. /\ Len(s) = Len(a) + Len(b) + Len(c)
       /\ Lies(a, s, 0) /\ Lies(b, s, Len(a)) /\ Lies(c, s, Len(a) + Len(b))
  <2>1. IsThree(s, a, b, c)
    BY <1>2, <1>5, <1>7, Zenon DEF IsThree
  <2>2. a \in Seq(AnyWord) /\ b \in Seq(AnyWord) /\ c \in Seq(AnyWord)
    BY <1>9, <1>10, <1>11, Zenon
  <2> QED
    BY <2>1, <2>2, ThreeLie
<1>13. /\ 0 + 1 = 1 /\ 0 + 2 = 2 /\ 2 + 1 = 3 /\ 2 + 2 = 4 /\ 3 + 1 = 4 /\ 4 + 1 = 5
       /\ 1 \in 1 .. 1
  OBVIOUS
<1>14. s[1] = a[1] /\ s[2] = a[2]
  BY <1>8, <1>9, <1>12, <1>13, Zenon DEF Lies
<1>15. CASE k.condition = "!="
  <2>5. Len(b) = 2 /\ Len(a) = 2 /\ Len(c) = 1
    BY <1>9, <1>10, <1>11, <1>15
  <2>3. Len(a) + Len(b) = 4 /\ Len(s) = 5
    BY <1>12, <2>5
  <2>4. Lies(b, s, 2) /\ Lies(c, s, 4)
    BY <1>12, <2>5, <2>3, Zenon
  <2>1. s[3] = b[1] /\ s[4] = b[2] /\ s[5] = c[1] /\ Len(s) = 5
    BY <1>8, <1>13, <2>5, <2>3, <2>4, Zenon DEF Lies
  <2> QED
    BY <1>1, <1>9, <1>10, <1>11, <1>14, <1>15, <2>1, Zenon DEF IsCondition, ConditionLength
<1>16. CASE k.condition # "!="
  <2>5. Len(b) = 1 /\ Len(a) = 2 /\ Len(c) = 1
    BY <1>9, <1>10, <1>11, <1>16
  <2>3. Len(a) + Len(b) = 3 /\ Len(s) = 4
    BY <1>12, <2>5
  <2>4. Lies(b, s, 2) /\ Lies(c, s, 3)
    BY <1>12, <2>5, <2>3, Zenon
  <2>1. s[3] = b[1] /\ s[4] = c[1] /\ Len(s) = 4
    BY <1>13, <2>5, <2>3, <2>4, Zenon DEF Lies
  <2> QED
    BY <1>1, <1>9, <1>10, <1>11, <1>14, <1>16, <2>1, Zenon DEF IsCondition, ConditionLength
<1> QED
  BY <1>15, <1>16

SelectPlaces(place, input, tree) ==
  LET n == Len(tree.columns)
      c == Len(tree.compare_vector)
  IN  /\ place \in [0 .. c -> Nat] /\ place[0] = 2 + 2 * n
      /\ \A i \in 1 .. c :
           /\ place[i] = place[i - 1] + ConditionLength(tree.compare_vector[i])
           /\ ConditionTokens(input, place[i - 1], tree.compare_vector[i], Opening(tree, i))
      /\ \A i \in 0 .. c : place[i] <= place[c]
      /\ place[c] + 1 <= Len(input) /\ input[place[c] + 1] = Mark(";")
      /\ place[c] = 2 + 2 * n + Len(Where(tree))

LEMMA ConditionTokensAre ==
  ASSUME NEW tree, IsSelect(tree), NEW i \in 1 .. Len(tree.compare_vector), NEW input, NEW o \in Nat,
         \A j \in 1 .. Len(ConditionWords(tree, i)) : input[o + j] = TokenOf(ConditionWords(tree, i)[j])
  PROVE  ConditionTokens(input, o, tree.compare_vector[i], Opening(tree, i))
<1>1. PICK k, opening, s :
        k = tree.compare_vector[i] /\ opening = Opening(tree, i) /\ s = ConditionWords(tree, i)
  OBVIOUS
<1>2. k.col \in Name /\ k.condition \in Texts /\ k.compare_value \in Texts
  <2>1. k \in [col : Name, condition : Comparators, compare_value : ValueText]
    BY <1>1, ConditionIn, Zenon
  <2>2. k.col \in Name /\ k.condition \in Comparators /\ k.compare_value \in ValueText
    BY <2>1
  <2> QED
    BY <2>2, NamesTyped
<1>3. opening \in KEY_WORDS
  <2>1. i > 1 => tree.operators[i - 1] \in {"AND", "OR"}
    BY ConditionIn, Zenon
  <2>2. "WHERE" \in KEY_WORDS /\ "AND" \in KEY_WORDS /\ "OR" \in KEY_WORDS
    BY WordTexts, Zenon
  <2>3. i = 1 \/ i > 1
    OBVIOUS
  <2> QED
    BY <1>1, <2>1, <2>2, <2>3, Zenon DEF Opening
<1>4. IsCondition(s, k, opening)
  BY <1>1, ConditionSpread, Zenon
<1>5. \A j \in 1 .. Len(s) : input[o + j] = TokenOf(s[j])
  BY <1>1, Zenon
<1>6. /\ opening \in Texts /\ k.col \in Texts /\ k.col \notin KEY_WORDS
      /\ "!" \in Texts /\ "=" \in Texts
  BY <1>2, <1>3, NamesTyped, WordTokens, Zenon
<1>7. /\ TokenOf(Text("word", opening)) = Keyword(opening)
      /\ TokenOf(Text("word", k.col)) = Identifier(k.col)
      /\ TokenOf(Text("mark", "!")) = Mark("!") /\ TokenOf(Text("mark", "=")) = Mark("=")
      /\ TokenOf(Text("mark", k.condition)) = Mark(k.condition)
  BY <1>2, <1>3, <1>6, TokensOfWords, Zenon
<1>8. \A t \in {Text("digits", k.compare_value), Text("quoted", k.compare_value)} :
        IsValue(TokenOf(t)) /\ TokenOf(t).value = k.compare_value
  BY <1>2, TokensOfWords, Zenon
<1>9. Len(s) = ConditionLength(k) /\ (ConditionLength(k) = 4 \/ ConditionLength(k) = 5)
      /\ (k.condition = "!=" => ConditionLength(k) = 5)
  BY <1>4, Zenon DEF IsCondition, ConditionLength
<1>10. /\ 1 \in 1 .. Len(s) /\ 2 \in 1 .. Len(s) /\ 3 \in 1 .. Len(s) /\ 4 \in 1 .. Len(s)
       /\ ConditionLength(k) \in 1 .. Len(s)
  BY <1>9
<1>11. /\ input[o + 1] = TokenOf(s[1]) /\ input[o + 2] = TokenOf(s[2]) /\ input[o + 3] = TokenOf(s[3])
       /\ input[o + 4] = TokenOf(s[4]) /\ input[o + ConditionLength(k)] = TokenOf(s[ConditionLength(k)])
  BY <1>5, <1>10, Zenon
<1> QED
  BY <1>1, <1>4, <1>7, <1>8, <1>11, Zenon DEF IsCondition, ConditionTokens

LEMMA SelectPlacesExist ==
  ASSUME NEW tree, IsSelect(tree), NEW input, Len(input) \in Nat, SelectTokens(input, tree),
         Len(tree.columns) \in Nat \ {0}
  PROVE  \E place : SelectPlaces(place, input, tree)
<1>0. Len(tree.columns) \in Nat /\ Len(tree.compare_vector) \in Nat
  BY WhereIn
<1>1. PICK n \in Nat, c \in Nat : n = Len(tree.columns) /\ c = Len(tree.compare_vector)
  BY <1>0
<1>2. PICK list : list = [i \in 1 .. c |-> ConditionWords(tree, i)]
  OBVIOUS
<1>3. c \in Nat /\ list \in [1 .. c -> Seq(AnyWord)] /\ Where(tree) = FlattenSeq(list)
  BY <1>1, <1>2, WhereIn, Zenon DEF Where
<1>4. PICK start : IsStart(start, list, c) /\ IsFlat(Where(tree), start, list, c)
  BY <1>3, FlattenBlocks
<1>5. /\ start \in [0 .. c -> Nat] /\ start[0] = 0 /\ Len(Where(tree)) = start[c]
      /\ \A i \in 1 .. c : start[i] = start[i - 1] + Len(list[i])
  BY <1>4, Zenon DEF IsStart, IsFlat
<1>6. \A i \in 1 .. c : \A j \in 1 .. Len(list[i]) :
        start[i - 1] + j \in 1 .. start[c] /\ Where(tree)[start[i - 1] + j] = list[i][j]
  BY <1>4, Zenon DEF IsFlat
<1>7. PICK place : place = [i \in 0 .. c |-> 2 + 2 * n + start[i]]
  OBVIOUS
<1>8. \A i \in 0 .. c : start[i] \in Nat /\ place[i] = 2 + 2 * n + start[i] /\ place[i] \in Nat
  BY <1>5, <1>7
<1>9. place \in [0 .. c -> Nat]
  BY <1>7, <1>8
<1>10. 0 \in 0 .. c /\ c \in 0 .. c /\ \A i \in 1 .. c : i \in 0 .. c /\ i - 1 \in 0 .. c
  BY <1>3
<1>11. place[0] = 2 + 2 * n /\ place[c] = 2 + 2 * n + Len(Where(tree))
  BY <1>5, <1>8, <1>10
<1>12. ASSUME NEW i \in 1 .. c
       PROVE  /\ place[i] = place[i - 1] + ConditionLength(tree.compare_vector[i])
              /\ ConditionTokens(input, place[i - 1], tree.compare_vector[i], Opening(tree, i))
              /\ place[i] <= place[c]
  <2>1. list[i] = ConditionWords(tree, i)
    BY <1>2
  <2>2. IsCondition(ConditionWords(tree, i), tree.compare_vector[i], Opening(tree, i))
    BY <1>1, ConditionSpread, Zenon
  <2>3. /\ Len(list[i]) = ConditionLength(tree.compare_vector[i])
        /\ Len(list[i]) = 4 \/ Len(list[i]) = 5
    BY <2>1, <2>2, Zenon DEF IsCondition, ConditionLength
  <2>4. start[i] = start[i - 1] + Len(list[i]) /\ i \in 0 .. c /\ i - 1 \in 0 .. c
    BY <1>5, <1>10, Zenon
  <2>5. place[i] = place[i - 1] + ConditionLength(tree.compare_vector[i])
    BY <1>8, <2>3, <2>4
  <2>6. place[i] <= place[c]
    <3>1. Len(list[i]) \in 1 .. Len(list[i])
      BY <2>3
    <3>2. start[i] \in 1 .. start[c]
      BY <1>6, <2>4, <3>1
    <3> QED
      BY <1>8, <1>10, <2>4, <3>2
  <2>7. ASSUME NEW j \in 1 .. Len(list[i]) PROVE input[place[i - 1] + j] = TokenOf(list[i][j])
    <3>1. start[i - 1] + j \in 1 .. start[c] /\ Where(tree)[start[i - 1] + j] = list[i][j]
      BY <1>6
    <3>2. \A x \in 1 .. Len(Where(tree)) : input[2 + 2 * n + x] = TokenOf(Where(tree)[x])
      BY <1>1, Zenon DEF SelectTokens
    <3>3. input[2 + 2 * n + (start[i - 1] + j)] = TokenOf(list[i][j])
      BY <1>5, <3>1, <3>2, Zenon
    <3>4. 2 + 2 * n + (start[i - 1] + j) = place[i - 1] + j
      <4>1. j \in Nat
        BY <2>3
      <4> QED
        BY <1>8, <2>4, <4>1
    <3> QED
      BY <3>3, <3>4, Zenon
  <2>8. ConditionTokens(input, place[i - 1], tree.compare_vector[i], Opening(tree, i))
    <3>1. place[i - 1] \in Nat
      BY <1>8, <2>4
    <3> QED
      BY <1>1, <2>1, <2>7, <3>1, ConditionTokensAre
  <2> QED
    BY <2>5, <2>6, <2>8
<1>13. \A i \in 0 .. c : place[i] <= place[c]
  <2> TAKE i \in 0 .. c
  <2>1. i = 0 \/ i \in 1 .. c
    OBVIOUS
  <2>2. place[0] <= place[c]
    BY <1>5, <1>8, <1>10
  <2> QED
    BY <1>12, <2>1, <2>2
<1>14. place[c] + 1 <= Len(input) /\ input[place[c] + 1] = Mark(";")
  <2>1. /\ Len(input) >= 3 + 2 * n + Len(Where(tree))
        /\ input[3 + 2 * n + Len(Where(tree))] = Mark(";")
    BY <1>1, Zenon DEF SelectTokens
  <2>2. place[c] + 1 = 3 + 2 * n + Len(Where(tree))
    BY <1>5, <1>8, <1>10, <1>11
  <2> QED
    BY <1>8, <1>10, <2>1, <2>2
<1> QED
  BY <1>1, <1>9, <1>11, <1>12, <1>13, <1>14, Zenon DEF SelectPlaces

-----------------------------------------------------------------------------
(* The loop over conditions is a recursion on the places from one on.      *)
AnyCompare == [col : Texts, condition : Texts, compare_value : Texts]

LoopResults == [at : Nat, compares : Seq(AnyCompare), operators : Seq(Texts)]

LoopPlaces(input) == (1 .. Len(input) + 5) \X BOOLEAN

Loop(input) ==
  LET loop[place \in (1 .. Len(input) + 5) \X BOOLEAN] ==
        LET i == place[1]
            pre == place[2]
            token == At(input, i)
            pair == <<At(input, i + 2).value, At(input, i + 3).value>>
        IN  IF i > Len(input) \/ token = Mark(";") THEN Stop(i)
            ELSE IF Connective(token)
            THEN CASE pre /\ ShortComparison(input, i + 1) ->
                        Read(Compare(input, i + 1), <<token.value>>, loop[<<i + 4, TRUE>>])
                   [] pre /\ LongComparison(input, i + 1) /\ pair = <<"!", "=">> ->
                        Read([Compare(input, i + 1) EXCEPT !.condition = "!="],
                             <<token.value>>, loop[<<i + 5, TRUE>>])
                   [] OTHER -> Throw
            ELSE IF token.value = "WHERE" /\ ShortComparison(input, i + 1)
            THEN Read(Compare(input, i + 1), <<>>, loop[<<i + 4, TRUE>>])
            ELSE Stop(i)
  IN  loop

LoopStep(f, input, i, pre) ==
  LET token == At(input, i)
      pair == <<At(input, i + 2).value, At(input, i + 3).value>>
  IN  IF i > Len(input) \/ token = Mark(";") THEN Stop(i)
      ELSE IF Connective(token)
      THEN CASE pre /\ ShortComparison(input, i + 1) ->
                  Read(Compare(input, i + 1), <<token.value>>, f[<<i + 4, TRUE>>])
             [] pre /\ LongComparison(input, i + 1) /\ pair = <<"!", "=">> ->
                  Read([Compare(input, i + 1) EXCEPT !.condition = "!="],
                       <<token.value>>, f[<<i + 5, TRUE>>])
             [] OTHER -> Throw
      ELSE IF token.value = "WHERE" /\ ShortComparison(input, i + 1)
      THEN Read(Compare(input, i + 1), <<>>, f[<<i + 4, TRUE>>])
      ELSE Stop(i)

IsLoop(f, input) ==
  f = [place \in LoopPlaces(input) |-> LoopStep(f, input, place[1], place[2])]

LEMMA LoopIs ==
  ASSUME NEW input, NEW first
  PROVE  /\ Loop(input) = CHOOSE f : IsLoop(f, input)
         /\ Conditions(input, first) = Loop(input)[<<first, FALSE>>]
<1>1. Conditions(input, first) = Loop(input)[<<first, FALSE>>]
  BY Zenon DEF Conditions, Loop
<1>2. Loop(input) = CHOOSE f : IsLoop(f, input)
  BY Zenon DEF Loop, IsLoop, LoopStep, LoopPlaces
<1> QED
  BY <1>1, <1>2

LEMMA NotBoth ==
  ASSUME NEW input, NEW i
  PROVE  ~(ShortComparison(input, i) /\ LongComparison(input, i))
<1>1. "OPERATOR_T" # "NUMBER_T" /\ "OPERATOR_T" # "STRING_T"
  OBVIOUS
<1> QED
  BY <1>1, Zenon DEF ShortComparison, LongComparison, IsValue

UnequalPair(input, i) == <<At(input, i + 2).value, At(input, i + 3).value>> = <<"!", "=">>

ShortHere(input, i, pre) ==
  /\ ~(i > Len(input) \/ At(input, i) = Mark(";")) /\ Connective(At(input, i))
  /\ pre /\ ShortComparison(input, i + 1)

LongHere(input, i, pre) ==
  /\ ~(i > Len(input) \/ At(input, i) = Mark(";")) /\ Connective(At(input, i))
  /\ pre /\ LongComparison(input, i + 1) /\ UnequalPair(input, i)

FirstHere(input, i) ==
  /\ ~(i > Len(input) \/ At(input, i) = Mark(";")) /\ ~Connective(At(input, i))
  /\ At(input, i).value = "WHERE" /\ ShortComparison(input, i + 1)

LEMMA LoopShort ==
  ASSUME NEW f, NEW input, NEW i, NEW pre, ShortHere(input, i, pre)
  PROVE  LoopStep(f, input, i, pre)
           = Read(Compare(input, i + 1), <<At(input, i).value>>, f[<<i + 4, TRUE>>])
<1>1. ~LongComparison(input, i + 1)
  BY NotBoth, Zenon DEF ShortHere
<1> QED
  BY <1>1, Zenon DEF ShortHere, LoopStep

LEMMA LoopLong ==
  ASSUME NEW f, NEW input, NEW i, NEW pre, LongHere(input, i, pre)
  PROVE  LoopStep(f, input, i, pre)
           = Read([Compare(input, i + 1) EXCEPT !.condition = "!="],
                  <<At(input, i).value>>, f[<<i + 5, TRUE>>])
<1>1. ~ShortComparison(input, i + 1)
  BY NotBoth, Zenon DEF LongHere
<1> QED
  BY <1>1, Zenon DEF LongHere, UnequalPair, LoopStep

LEMMA LoopFirst ==
  ASSUME NEW f, NEW input, NEW i, NEW pre, FirstHere(input, i)
  PROVE  LoopStep(f, input, i, pre) = Read(Compare(input, i + 1), <<>>, f[<<i + 4, TRUE>>])
BY Zenon DEF FirstHere, LoopStep

LEMMA LoopStops ==
  ASSUME NEW f, NEW input, NEW i, NEW pre, i > Len(input) \/ At(input, i) = Mark(";")
  PROVE  LoopStep(f, input, i, pre) = Stop(i)
BY Zenon DEF LoopStep

LEMMA LoopElse ==
  ASSUME NEW input, NEW i, NEW pre,
         ~ShortHere(input, i, pre), ~LongHere(input, i, pre), ~FirstHere(input, i)
  PROVE  \/ \A f : LoopStep(f, input, i, pre) = Stop(i)
         \/ \A f : LoopStep(f, input, i, pre) = Throw
<1>1. CASE i > Len(input) \/ At(input, i) = Mark(";")
  BY <1>1, LoopStops, Zenon
<1>2. CASE ~(i > Len(input) \/ At(input, i) = Mark(";")) /\ ~Connective(At(input, i))
  BY <1>2, Zenon DEF FirstHere, LoopStep
<1>3. CASE ~(i > Len(input) \/ At(input, i) = Mark(";")) /\ Connective(At(input, i))
  BY <1>3, Zenon DEF ShortHere, LongHere, UnequalPair, LoopStep
<1> QED
  BY <1>1, <1>2, <1>3, Zenon

LEMMA ReadForm ==
  ASSUME NEW compare, compare.condition \in Comparators, NEW operators,
         NEW rest \in LoopResults
  PROVE  Read(compare, operators, rest)
           = [at |-> rest.at, compares |-> <<compare>> \o rest.compares,
              operators |-> operators \o rest.operators]
<1>1. Read(compare, operators, rest)
        = [rest EXCEPT !.compares = <<compare>> \o @, !.operators = operators \o @]
  BY Zenon DEF Read
<1> QED
  BY <1>1 DEF LoopResults

LEMMA ReadIn ==
  ASSUME NEW compare \in AnyCompare, NEW operators \in Seq(Texts), NEW rest \in LoopResults
  PROVE  Read(compare, operators, rest) \in LoopResults
<1>1. CASE compare.condition \notin Comparators
  <2>1. Read(compare, operators, rest) = Stop(0)
    BY <1>1, Zenon DEF Read, Throw
  <2> QED
    BY <2>1 DEF Stop, LoopResults
<1>2. CASE compare.condition \in Comparators
  <2>1. Read(compare, operators, rest)
           = [at |-> rest.at, compares |-> <<compare>> \o rest.compares,
              operators |-> operators \o rest.operators]
    BY <1>2, ReadForm
  <2>2. rest.at \in Nat /\ rest.compares \in Seq(AnyCompare) /\ rest.operators \in Seq(Texts)
    BY DEF LoopResults
  <2>3. <<compare>> \in Seq(AnyCompare)
    <3> HIDE DEF AnyCompare
    <3> QED
      OBVIOUS
  <2>4. <<compare>> \o rest.compares \in Seq(AnyCompare) /\ operators \o rest.operators \in Seq(Texts)
    BY <2>2, <2>3, ConcatIn
  <2>5. PICK x \in Nat, y \in Seq(AnyCompare), z \in Seq(Texts) :
          x = rest.at /\ y = <<compare>> \o rest.compares /\ z = operators \o rest.operators
    BY <2>2, <2>4
  <2>6. [at |-> x, compares |-> y, operators |-> z] \in LoopResults
    <3> HIDE DEF AnyCompare, Texts
    <3> QED
      BY DEF LoopResults
  <2> QED
    BY <2>1, <2>5, <2>6, Zenon
<1> QED
  BY <1>1, <1>2

LEMMA ComparesHere ==
  ASSUME NEW input \in Seq(AnyToken), NEW i \in Nat \ {0},
         ShortComparison(input, i) \/ LongComparison(input, i)
  PROVE  /\ i + 2 <= Len(input)
         /\ Compare(input, i) = [col |-> At(input, i).value, condition |-> At(input, i + 1).value,
                                  compare_value |-> At(input, i + 2).value]
         /\ Compare(input, i) \in AnyCompare
         /\ [Compare(input, i) EXCEPT !.condition = "!="] \in AnyCompare
<1>1. At(input, i) # NoToken /\ At(input, i + 1) # NoToken /\ At(input, i + 2) # NoToken
  <2>1. /\ At(input, i).type = "IDENTIFIER_T" /\ At(input, i + 1).type = "OPERATOR_T"
        /\ IsValue(At(input, i + 2)) \/ At(input, i + 2).type = "OPERATOR_T"
    BY Zenon DEF ShortComparison, LongComparison
  <2>2. NoToken.type # "IDENTIFIER_T" /\ NoToken.type # "OPERATOR_T" /\ ~IsValue(NoToken)
    <3>1. NoToken.type = "UNKNOWN_T"
      BY Zenon DEF NoToken, Token
    <3>2. "UNKNOWN_T" # "OPERATOR_T"
      OBVIOUS
    <3> QED
      BY <3>1, <3>2, NothingFits, Zenon
  <2> QED
    BY <2>1, <2>2, Zenon
<1>2. i + 2 <= Len(input) /\ Len(input) \in Nat
  <2>1. i + 2 \in Nat /\ i + 2 # 0
    OBVIOUS
  <2> QED
    BY <1>1, <2>1, SomeToken
<1>3. i \in 1 .. Len(input) /\ i + 1 \in 1 .. Len(input) /\ i + 2 \in 1 .. Len(input)
  BY <1>2
<1>4. /\ At(input, i) = input[i] /\ At(input, i + 1) = input[i + 1] /\ At(input, i + 2) = input[i + 2]
      /\ IsToken(input[i]) /\ IsToken(input[i + 1]) /\ IsToken(input[i + 2])
  BY <1>3, AtWhat
<1>5. input[i].value \in Texts /\ input[i + 1].value \in Texts /\ input[i + 2].value \in Texts
  BY <1>4 DEF IsToken
<1>6. Compare(input, i) = [col |-> At(input, i).value, condition |-> At(input, i + 1).value,
                            compare_value |-> At(input, i + 2).value]
  BY <1>4, Zenon DEF Compare
<1>7. Compare(input, i) \in AnyCompare
  <2>1. PICK a \in Texts, b \in Texts, c \in Texts :
          a = input[i].value /\ b = input[i + 1].value /\ c = input[i + 2].value
    BY <1>5
  <2>2. [col |-> a, condition |-> b, compare_value |-> c] \in AnyCompare
    <3> HIDE DEF Texts
    <3> QED
      BY DEF AnyCompare
  <2> QED
    BY <2>1, <2>2, Zenon DEF Compare
<1>8. "!=" \in Texts
  BY Zenon DEF Texts
<1>9. [Compare(input, i) EXCEPT !.condition = "!="] \in AnyCompare
  <2>1. PICK k : k = Compare(input, i)
    OBVIOUS
  <2>2. PICK u \in Texts : u = "!="
    BY <1>8
  <2>3. k \in [col : Texts, condition : Texts, compare_value : Texts]
    BY <1>7, <2>1 DEF AnyCompare
  <2>4. [k EXCEPT !.condition = u] \in [col : Texts, condition : Texts, compare_value : Texts]
    BY <2>3
  <2> QED
    BY <2>1, <2>2, <2>4, Zenon DEF AnyCompare
<1> QED
  BY <1>2, <1>6, <1>7, <1>9

LEMMA FormsIn ==
  ASSUME NEW input \in Seq(AnyToken), NEW i \in Nat \ {0}, NEW pre
  PROVE  /\ ShortHere(input, i, pre) \/ FirstHere(input, i) =>
              Compare(input, i + 1) \in AnyCompare /\ i + 4 \in 1 .. Len(input) + 5
         /\ LongHere(input, i, pre) =>
              /\ [Compare(input, i + 1) EXCEPT !.condition = "!="] \in AnyCompare
              /\ i + 5 \in 1 .. Len(input) + 5
         /\ ShortHere(input, i, pre) \/ LongHere(input, i, pre) =>
              <<At(input, i).value>> \in Seq(Texts)
         /\ <<>> \in Seq(Texts) /\ Stop(i) \in LoopResults /\ Throw \in LoopResults
<1>1. i + 1 \in Nat \ {0} /\ Len(input) \in Nat
  BY LenProperties
<1>2. ShortHere(input, i, pre) \/ FirstHere(input, i) => ShortComparison(input, i + 1)
  BY Zenon DEF ShortHere, FirstHere
<1>3. LongHere(input, i, pre) => LongComparison(input, i + 1)
  BY Zenon DEF LongHere
<1>4. /\ ShortHere(input, i, pre) \/ FirstHere(input, i) =>
           Compare(input, i + 1) \in AnyCompare /\ (i + 1) + 2 <= Len(input)
      /\ LongHere(input, i, pre) =>
           /\ [Compare(input, i + 1) EXCEPT !.condition = "!="] \in AnyCompare
           /\ (i + 1) + 2 <= Len(input)
  BY <1>1, <1>2, <1>3, ComparesHere, Zenon
<1>5. (i + 1) + 2 <= Len(input) => i + 4 \in 1 .. Len(input) + 5 /\ i + 5 \in 1 .. Len(input) + 5
  BY <1>1
<1>6. ShortHere(input, i, pre) \/ LongHere(input, i, pre) => <<At(input, i).value>> \in Seq(Texts)
  <2>1. ShortHere(input, i, pre) \/ LongHere(input, i, pre) => Connective(At(input, i))
    BY Zenon DEF ShortHere, LongHere
  <2>2. Connective(At(input, i)) => At(input, i).value \in {"AND", "OR"}
    BY KindsOfTokens, Zenon DEF Connective
  <2>3. "AND" \in Texts /\ "OR" \in Texts
    BY WordTexts, Zenon
  <2>4. \A t \in Texts : <<t>> \in Seq(Texts)
    OBVIOUS
  <2> QED
    BY <2>1, <2>2, <2>3, <2>4, Zenon
<1>7. <<>> \in Seq(Texts) /\ Stop(i) \in LoopResults /\ Throw \in LoopResults
  BY DEF Stop, Throw, LoopResults
<1> QED
  BY <1>4, <1>5, <1>6, <1>7, Zenon

LEMMA LoopIn ==
  ASSUME NEW input \in Seq(AnyToken), NEW f \in [LoopPlaces(input) -> LoopResults],
         NEW i \in 1 .. Len(input) + 5, NEW pre \in BOOLEAN
  PROVE  LoopStep(f, input, i, pre) \in LoopResults
<1>1. i \in Nat \ {0}
  BY LenProperties
<1>2. \A m \in 1 .. Len(input) + 5 : f[<<m, TRUE>>] \in LoopResults
  <2> TAKE m \in 1 .. Len(input) + 5
  <2>1. <<m, TRUE>> \in LoopPlaces(input)
    BY DEF LoopPlaces
  <2> QED
    BY <2>1, Zenon
<1>3. CASE ShortHere(input, i, pre)
  <2>1. LoopStep(f, input, i, pre) = Read(Compare(input, i + 1), <<At(input, i).value>>, f[<<i + 4, TRUE>>])
    BY <1>3, LoopShort, Zenon
  <2>2. Compare(input, i + 1) \in AnyCompare /\ <<At(input, i).value>> \in Seq(Texts)
        /\ i + 4 \in 1 .. Len(input) + 5
    BY <1>1, <1>3, FormsIn, Zenon
  <2>3. f[<<i + 4, TRUE>>] \in LoopResults
    BY <1>2, <2>2, Zenon
  <2> QED
    BY <2>1, <2>2, <2>3, ReadIn, Zenon
<1>4. CASE LongHere(input, i, pre)
  <2>1. LoopStep(f, input, i, pre) = Read([Compare(input, i + 1) EXCEPT !.condition = "!="], <<At(input, i).value>>, f[<<i + 5, TRUE>>])
    BY <1>4, LoopLong, Zenon
  <2>2. [Compare(input, i + 1) EXCEPT !.condition = "!="] \in AnyCompare /\ <<At(input, i).value>> \in Seq(Texts)
        /\ i + 5 \in 1 .. Len(input) + 5
    BY <1>1, <1>4, FormsIn, Zenon
  <2>3. f[<<i + 5, TRUE>>] \in LoopResults
    BY <1>2, <2>2, Zenon
  <2> QED
    BY <2>1, <2>2, <2>3, ReadIn, Zenon
<1>5. CASE FirstHere(input, i)
  <2>1. LoopStep(f, input, i, pre) = Read(Compare(input, i + 1), <<>>, f[<<i + 4, TRUE>>])
    BY <1>5, LoopFirst, Zenon
  <2>2. Compare(input, i + 1) \in AnyCompare /\ <<>> \in Seq(Texts)
        /\ i + 4 \in 1 .. Len(input) + 5
    BY <1>1, <1>5, FormsIn, Zenon
  <2>3. f[<<i + 4, TRUE>>] \in LoopResults
    BY <1>2, <2>2, Zenon
  <2> QED
    BY <2>1, <2>2, <2>3, ReadIn, Zenon
<1>6. Stop(i) \in LoopResults /\ Throw \in LoopResults
  BY <1>1, FormsIn, Zenon
<1>7. CASE \A g : LoopStep(g, input, i, pre) = Stop(i)
  BY <1>6, <1>7, Zenon
<1>8. CASE \A g : LoopStep(g, input, i, pre) = Throw
  BY <1>6, <1>8, Zenon
<1> QED
  BY <1>3, <1>4, <1>5, <1>7, <1>8, LoopElse, Zenon

LoopAgree(f, g, input, i) ==
  \A m \in 1 .. Len(input) + 5 : m > i => f[<<m, TRUE>>] = g[<<m, TRUE>>]

LEMMA LoopSame ==
  ASSUME NEW input \in Seq(AnyToken), NEW f, NEW g,
         NEW i \in 1 .. Len(input) + 5, NEW pre \in BOOLEAN, LoopAgree(f, g, input, i)
  PROVE  LoopStep(f, input, i, pre) = LoopStep(g, input, i, pre)
<1>1. i \in Nat \ {0} /\ i + 4 > i /\ i + 5 > i
  BY LenProperties
<1>2. \A m \in 1 .. Len(input) + 5 : m > i => f[<<m, TRUE>>] = g[<<m, TRUE>>]
  BY Zenon DEF LoopAgree
<1>3. CASE ShortHere(input, i, pre)
  <2>1. i + 4 \in 1 .. Len(input) + 5
    BY <1>1, <1>3, FormsIn, Zenon
  <2>2. f[<<i + 4, TRUE>>] = g[<<i + 4, TRUE>>]
    BY <1>1, <1>2, <2>1, Zenon
  <2>3. /\ LoopStep(f, input, i, pre) = Read(Compare(input, i + 1), <<At(input, i).value>>, f[<<i + 4, TRUE>>])
        /\ LoopStep(g, input, i, pre) = Read(Compare(input, i + 1), <<At(input, i).value>>, g[<<i + 4, TRUE>>])
    BY <1>3, LoopShort, Zenon
  <2> QED
    BY <2>2, <2>3, Zenon
<1>4. CASE LongHere(input, i, pre)
  <2>1. i + 5 \in 1 .. Len(input) + 5
    BY <1>1, <1>4, FormsIn, Zenon
  <2>2. f[<<i + 5, TRUE>>] = g[<<i + 5, TRUE>>]
    BY <1>1, <1>2, <2>1, Zenon
  <2>3. /\ LoopStep(f, input, i, pre) = Read([Compare(input, i + 1) EXCEPT !.condition = "!="], <<At(input, i).value>>, f[<<i + 5, TRUE>>])
        /\ LoopStep(g, input, i, pre) = Read([Compare(input, i + 1) EXCEPT !.condition = "!="], <<At(input, i).value>>, g[<<i + 5, TRUE>>])
    BY <1>4, LoopLong, Zenon
  <2> QED
    BY <2>2, <2>3, Zenon
<1>5. CASE FirstHere(input, i)
  <2>1. i + 4 \in 1 .. Len(input) + 5
    BY <1>1, <1>5, FormsIn, Zenon
  <2>2. f[<<i + 4, TRUE>>] = g[<<i + 4, TRUE>>]
    BY <1>1, <1>2, <2>1, Zenon
  <2>3. /\ LoopStep(f, input, i, pre) = Read(Compare(input, i + 1), <<>>, f[<<i + 4, TRUE>>])
        /\ LoopStep(g, input, i, pre) = Read(Compare(input, i + 1), <<>>, g[<<i + 4, TRUE>>])
    BY <1>5, LoopFirst, Zenon
  <2> QED
    BY <2>2, <2>3, Zenon
<1>7. CASE \A h : LoopStep(h, input, i, pre) = Stop(i)
  BY <1>7, Zenon
<1>8. CASE \A h : LoopStep(h, input, i, pre) = Throw
  BY <1>8, Zenon
<1> QED
  BY <1>3, <1>4, <1>5, <1>7, <1>8, LoopElse, Zenon

LEMMA LoopPlacesAre ==
  ASSUME NEW input, NEW place \in LoopPlaces(input)
  PROVE  place[1] \in 1 .. Len(input) + 5 /\ place[2] \in BOOLEAN /\ place = <<place[1], place[2]>>
BY DEF LoopPlaces

LEMMA LoopExists ==
  ASSUME NEW input \in Seq(AnyToken)
  PROVE  \E f : IsLoop(f, input)
<1> DEFINE D == LoopPlaces(input)
           V == LoopResults
           F == [f \in [D -> V] |-> [place \in D |-> LoopStep(f, input, place[1], place[2])]]
           rank == [place \in D |-> Len(input) + 5 - place[1]]
           top == Len(input) + 6
<1>0. Len(input) \in Nat
  BY LenProperties
<1>1. V # {}
  <2>1. 1 \in Nat \ {0}
    OBVIOUS
  <2> QED
    BY <2>1, FormsIn, Zenon
<1>2. \A f \in [D -> V] : \A place \in D : LoopStep(f, input, place[1], place[2]) \in V
  BY LoopPlacesAre, LoopIn, Zenon
<1>3. F \in [[D -> V] -> [D -> V]]
  <2>1. \A f \in [D -> V] : [place \in D |-> LoopStep(f, input, place[1], place[2])] \in [D -> V]
    <3> HIDE DEF D, V
    <3> QED
      BY <1>2
  <2> QED
    BY <2>1
<1>4. \A place \in D : /\ rank[place] \in Nat /\ rank[place] < top
                       /\ rank[place] = Len(input) + 5 - place[1]
  <2> TAKE place \in D
  <2>1. place[1] \in 1 .. Len(input) + 5
    BY LoopPlacesAre, Zenon
  <2>2. rank[place] = Len(input) + 5 - place[1]
    OBVIOUS
  <2> HIDE DEF rank, D
  <2> QED
    BY <1>0, <2>1, <2>2
<1>5. top \in Nat
  BY <1>0
<1>6. rank \in [D -> Nat]
  <2>1. \A place \in D : Len(input) + 5 - place[1] \in Nat
    BY <1>4, Zenon
  <2> HIDE DEF D
  <2> QED
    BY <2>1
<1>7. \A f \in [D -> V] : \A place \in D : F[f][place] = LoopStep(f, input, place[1], place[2])
  BY Zenon
<1>8. GoesDown(F, D, V, rank)
  <2> SUFFICES ASSUME NEW f \in [D -> V], NEW g \in [D -> V], NEW x \in D,
                      \A y \in D : rank[y] < rank[x] => f[y] = g[y]
               PROVE  F[f][x] = F[g][x]
    BY Zenon DEF GoesDown
  <2>1. x[1] \in 1 .. Len(input) + 5 /\ x[2] \in BOOLEAN
    BY LoopPlacesAre, Zenon
  <2>2. ASSUME NEW m \in 1 .. Len(input) + 5, m > x[1]
        PROVE  f[<<m, TRUE>>] = g[<<m, TRUE>>]
    <3>1. PICK y : y = <<m, TRUE>>
      OBVIOUS
    <3>2. y \in D /\ y[1] = m
      BY <3>1 DEF LoopPlaces
    <3>3. rank[y] < rank[x]
      <4>1. Len(input) + 5 - m < Len(input) + 5 - x[1]
        BY <1>0, <2>1, <2>2
      <4>2. rank[y] = Len(input) + 5 - m /\ rank[x] = Len(input) + 5 - x[1]
        BY <1>4, <3>2, Zenon
      <4> HIDE DEF rank, D
      <4> QED
        BY <4>1, <4>2
    <3> QED
      BY <3>1, <3>2, <3>3, Zenon
  <2>3. PICK i \in 1 .. Len(input) + 5 : i = x[1]
    BY <2>1
  <2>4. PICK pre \in BOOLEAN : pre = x[2]
    BY <2>1
  <2>5. LoopAgree(f, g, input, i)
    BY <2>2, <2>3, Zenon DEF LoopAgree
  <2>6. LoopStep(f, input, i, pre) = LoopStep(g, input, i, pre)
    BY <2>5, LoopSame, SMT
  <2>7. LoopStep(f, input, x[1], x[2]) = LoopStep(g, input, x[1], x[2])
    BY <2>3, <2>4, <2>6, Zenon
  <2> HIDE DEF F, D, V
  <2> QED
    BY <1>7, <2>7, Zenon
<1>9. PICK f \in [D -> V] : f = F[f]
  <2> HIDE DEF F, D, V, rank, top
  <2>1. \A x \in D : rank[x] < top
    BY <1>4, Zenon
  <2> QED
    <3>1. Ranked(F, D, V, rank, top)
      BY <1>1, <1>3, <1>5, <1>6, <1>8, <2>1, Zenon DEF Ranked
    <3> QED
      BY <3>1, FixpointExists, SMT
<1>10. F[f] = [place \in D |-> LoopStep(f, input, place[1], place[2])]
  BY Zenon
<1> QED
  BY <1>9, <1>10, Zenon DEF IsLoop

LEMMA LoopSteps ==
  ASSUME NEW input \in Seq(AnyToken), NEW i \in 1 .. Len(input) + 5, NEW pre \in BOOLEAN
  PROVE  Loop(input)[<<i, pre>>] = LoopStep(Loop(input), input, i, pre)
<1>1. PICK f : f = Loop(input)
  OBVIOUS
<1>2. IsLoop(f, input)
  BY <1>1, LoopIs, LoopExists, Zenon
<1>3. PICK place : place = <<i, pre>>
  OBVIOUS
<1>4. place \in LoopPlaces(input) /\ place[1] = i /\ place[2] = pre
  BY <1>3 DEF LoopPlaces
<1>5. f[place] = LoopStep(f, input, place[1], place[2])
  BY <1>2, <1>4, Zenon DEF IsLoop
<1> QED
  BY <1>1, <1>3, <1>4, <1>5, Zenon

-----------------------------------------------------------------------------
(* The conditions of a SELECT, read back by the loop.                      *)
Condition == [col : Name, condition : Comparators, compare_value : ValueText]

LEMMA ConditionAt ==
  ASSUME NEW input \in Seq(AnyToken), NEW o \in Nat, NEW k \in Condition, NEW opening,
         ConditionTokens(input, o, k, opening), o + ConditionLength(k) <= Len(input)
  PROVE  /\ At(input, o + 1) = Keyword(opening) /\ At(input, o + 2) = Identifier(k.col)
         /\ k.condition = "!=" =>
              /\ At(input, o + 3) = Mark("!") /\ At(input, o + 4) = Mark("=")
              /\ IsValue(At(input, o + 5)) /\ ConditionLength(k) = 5
         /\ k.condition # "!=" =>
              /\ At(input, o + 3) = Mark(k.condition) /\ k.condition \in {">", "<", "="}
              /\ IsValue(At(input, o + 4)) /\ At(input, o + 4).value = k.compare_value
              /\ ConditionLength(k) = 4
<1>1. Len(input) \in Nat /\ k.condition \in Comparators
  BY LenProperties DEF Condition
<1>2. ConditionLength(k) = 4 \/ ConditionLength(k) = 5
  BY Zenon DEF ConditionLength
<1>3. /\ o + 1 \in 1 .. Len(input) /\ o + 2 \in 1 .. Len(input) /\ o + 3 \in 1 .. Len(input)
      /\ o + 4 \in 1 .. Len(input)
      /\ ConditionLength(k) = 5 => o + 5 \in 1 .. Len(input)
  BY <1>1, <1>2
<1>4. /\ At(input, o + 1) = input[o + 1] /\ At(input, o + 2) = input[o + 2]
      /\ At(input, o + 3) = input[o + 3] /\ At(input, o + 4) = input[o + 4]
      /\ ConditionLength(k) = 5 => At(input, o + 5) = input[o + 5]
  <2>1. \A i \in 1 .. Len(input) : At(input, i) = input[i]
    BY LenProperties, Zenon DEF At
  <2> QED
    BY <1>3, <2>1, Zenon
<1>6. /\ input[o + 1] = Keyword(opening) /\ input[o + 2] = Identifier(k.col)
      /\ k.condition = "!=" => input[o + 3] = Mark("!") /\ input[o + 4] = Mark("=")
      /\ k.condition # "!=" => input[o + 3] = Mark(k.condition)
      /\ IsValue(input[o + ConditionLength(k)]) /\ input[o + ConditionLength(k)].value = k.compare_value
  BY Zenon DEF ConditionTokens
<1>7. CASE k.condition = "!="
  <2>1. ConditionLength(k) = 5
    BY <1>7, Zenon DEF ConditionLength
  <2> QED
    BY <1>4, <1>6, <1>7, <2>1, Zenon
<1>8. CASE k.condition # "!="
  <2>1. ConditionLength(k) = 4
    BY <1>8, Zenon DEF ConditionLength
  <2>2. k.condition \in {">", "<", "="}
    BY <1>1, <1>8, Zenon DEF Comparators
  <2> QED
    BY <1>4, <1>6, <1>8, <2>1, <2>2, Zenon
<1> QED
  BY <1>7, <1>8

LEMMA ConditionHere ==
  ASSUME NEW input \in Seq(AnyToken), NEW o \in Nat, NEW k \in Condition, NEW opening,
         ConditionTokens(input, o, k, opening), o + ConditionLength(k) <= Len(input)
  PROVE  /\ opening = "WHERE" /\ k.condition # "!=" =>
              FirstHere(input, o + 1) /\ Compare(input, (o + 1) + 1) = k
         /\ opening \in {"AND", "OR"} /\ k.condition # "!=" =>
              ShortHere(input, o + 1, TRUE) /\ Compare(input, (o + 1) + 1) = k
         /\ opening \in {"AND", "OR"} /\ k.condition = "!=" =>
              LongHere(input, o + 1, TRUE)
<1>1. /\ (o + 1) + 1 = o + 2 /\ (o + 2) + 1 = o + 3 /\ (o + 2) + 2 = o + 4 /\ (o + 2) + 3 = o + 5
      /\ (o + 1) + 2 = o + 3 /\ (o + 1) + 3 = o + 4
      /\ o + 2 \in Nat \ {0}
  OBVIOUS
<1>2. At(input, o + 1) = Keyword(opening) /\ At(input, o + 2) = Identifier(k.col)
  BY ConditionAt, Zenon
<1>3. ~(o + 1 > Len(input) \/ At(input, o + 1) = Mark(";"))
  <2>1. ~(o + 1 > Len(input))
    <3>1. ConditionLength(k) = 4 \/ ConditionLength(k) = 5
      BY Zenon DEF ConditionLength
    <3>2. Len(input) \in Nat
      BY LenProperties
    <3> QED
      BY <3>1, <3>2
  <2> QED
    BY <1>2, <2>1, KindsOfTokens, Zenon
<1>4. At(input, o + 2).type = "IDENTIFIER_T" /\ At(input, o + 2).value = k.col
  BY <1>2, KindsOfTokens, Zenon
<1>5. opening = "WHERE" => ~Connective(At(input, o + 1)) /\ At(input, o + 1).value = "WHERE"
  <2>1. "WHERE" # "AND" /\ "WHERE" # "OR"
    OBVIOUS
  <2> QED
    BY <1>2, <2>1, KindsOfTokens, Zenon DEF Connective
<1>6. opening \in {"AND", "OR"} => Connective(At(input, o + 1))
  BY <1>2, Zenon DEF Connective
<1>7. CASE k.condition # "!="
  <2>1. /\ At(input, o + 3) = Mark(k.condition)
        /\ IsValue(At(input, o + 4)) /\ At(input, o + 4).value = k.compare_value
    BY <1>7, ConditionAt, Zenon
  <2>2. At(input, o + 3).type = "OPERATOR_T" /\ At(input, o + 3).value = k.condition
    BY <2>1, KindsOfTokens, Zenon
  <2>3. ShortComparison(input, o + 2)
    BY <1>1, <1>4, <2>1, <2>2, Zenon DEF ShortComparison
  <2>4. Compare(input, o + 2) = k
    <3>1. Compare(input, o + 2)
            = [col |-> At(input, o + 2).value, condition |-> At(input, (o + 2) + 1).value,
               compare_value |-> At(input, (o + 2) + 2).value]
      BY <1>1, <2>3, ComparesHere, Zenon
    <3>2. Compare(input, o + 2)
            = [col |-> k.col, condition |-> k.condition, compare_value |-> k.compare_value]
      BY <1>1, <1>4, <2>1, <2>2, <3>1, Zenon
    <3> QED
      BY <3>2 DEF Condition
  <2> QED
    BY <1>1, <1>3, <1>5, <1>6, <1>7, <2>3, <2>4, Zenon DEF FirstHere, ShortHere
<1>8. CASE k.condition = "!="
  <2>1. At(input, o + 3) = Mark("!") /\ At(input, o + 4) = Mark("=") /\ IsValue(At(input, o + 5))
    BY <1>8, ConditionAt, Zenon
  <2>2. /\ At(input, o + 3).type = "OPERATOR_T" /\ At(input, o + 4).type = "OPERATOR_T"
        /\ At(input, o + 3).value = "!" /\ At(input, o + 4).value = "="
    BY <2>1, KindsOfTokens, Zenon
  <2>3. LongComparison(input, o + 2)
    BY <1>1, <1>4, <2>1, <2>2, Zenon DEF LongComparison
  <2>4. UnequalPair(input, o + 1)
    BY <1>1, <2>2, Zenon DEF UnequalPair
  <2> QED
    BY <1>1, <1>3, <1>6, <1>8, <2>3, <2>4, Zenon DEF LongHere
<1> QED
  BY <1>7, <1>8

RestAt(input, place, j) == Loop(input)[<<place[j] + 1, IF j = 0 THEN FALSE ELSE TRUE>>]

LEMMA SelectPlace ==
  ASSUME NEW tree, IsSelect(tree), NEW input \in Seq(AnyToken), NEW place,
         SelectPlaces(place, input, tree), NEW j \in Nat, j < Len(tree.compare_vector)
  PROVE  LET k == tree.compare_vector[j + 1]
         IN  /\ k \in Condition /\ place[j] \in Nat /\ place[j + 1] \in Nat
             /\ ConditionTokens(input, place[j], k, Opening(tree, j + 1))
             /\ place[j] + ConditionLength(k) <= Len(input)
             /\ place[j + 1] = place[j] + ConditionLength(k)
             /\ j = 0 => Opening(tree, j + 1) = "WHERE"
             /\ j # 0 => Opening(tree, j + 1) \in {"AND", "OR"} /\ Opening(tree, j + 1) = tree.operators[j]
<1>1. PICK c : c = Len(tree.compare_vector)
  OBVIOUS
<1>2. c \in Nat
  BY <1>1, WhereIn
<1>3. j + 1 \in 1 .. c /\ j \in 0 .. c /\ j + 1 \in 0 .. c /\ c \in 0 .. c /\ (j + 1) - 1 = j
  BY <1>1, <1>2
<1>4. /\ place \in [0 .. c -> Nat]
      /\ \A i \in 1 .. c :
           /\ place[i] = place[i - 1] + ConditionLength(tree.compare_vector[i])
           /\ ConditionTokens(input, place[i - 1], tree.compare_vector[i], Opening(tree, i))
      /\ \A i \in 0 .. c : place[i] <= place[c]
      /\ place[c] + 1 <= Len(input)
  BY <1>1, Zenon DEF SelectPlaces
<1>5. tree.compare_vector[j + 1] \in Condition
  BY <1>1, <1>3, ConditionIn, Zenon DEF Condition
<1>6. place[j] \in Nat /\ place[j + 1] \in Nat /\ place[c] \in Nat
  BY <1>3, <1>4, Zenon
<1>7. /\ place[j + 1] = place[j] + ConditionLength(tree.compare_vector[j + 1])
      /\ ConditionTokens(input, place[j], tree.compare_vector[j + 1], Opening(tree, j + 1))
      /\ place[j + 1] <= place[c]
  BY <1>3, <1>4, Zenon
<1>8. place[j + 1] <= Len(input)
  BY <1>4, <1>6, <1>7, LenProperties
<1>9. j = 0 => j + 1 = 1
  OBVIOUS
<1>10. j # 0 => j + 1 > 1 /\ j + 1 # 1
  OBVIOUS
<1>11. j # 0 => tree.operators[j] \in {"AND", "OR"}
  BY <1>1, <1>3, <1>10, ConditionIn, Zenon
<1> QED
  BY <1>3, <1>5, <1>6, <1>7, <1>8, <1>9, <1>10, <1>11, Zenon DEF Opening

LEMMA RestStep ==
  ASSUME NEW tree, IsSelect(tree), NEW input \in Seq(AnyToken), NEW place,
         SelectPlaces(place, input, tree), NEW j \in Nat, j < Len(tree.compare_vector),
         j # 0 \/ tree.compare_vector[j + 1].condition # "!="
  PROVE  \E k \in AnyCompare :
           /\ k.condition \in Comparators
           /\ tree.compare_vector[j + 1].condition # "!=" => k = tree.compare_vector[j + 1]
           /\ RestAt(input, place, j)
                = Read(k, IF j = 0 THEN <<>> ELSE <<tree.operators[j]>>, RestAt(input, place, j + 1))
<1>1. PICK k : k = tree.compare_vector[j + 1]
  OBVIOUS
<1>2. PICK opening : opening = Opening(tree, j + 1)
  OBVIOUS
<1>3. PICK o : o = place[j]
  OBVIOUS
<1>4. /\ k \in Condition /\ o \in Nat
      /\ ConditionTokens(input, o, k, opening)
      /\ o + ConditionLength(k) <= Len(input)
      /\ place[j + 1] = o + ConditionLength(k)
      /\ j = 0 => opening = "WHERE"
      /\ j # 0 => opening \in {"AND", "OR"} /\ opening = tree.operators[j]
  BY <1>1, <1>2, <1>3, SelectPlace, ZenonT(60)
<1>5. /\ opening = "WHERE" /\ k.condition # "!=" =>
           FirstHere(input, o + 1) /\ Compare(input, (o + 1) + 1) = k
      /\ opening \in {"AND", "OR"} /\ k.condition # "!=" =>
           ShortHere(input, o + 1, TRUE) /\ Compare(input, (o + 1) + 1) = k
      /\ opening \in {"AND", "OR"} /\ k.condition = "!=" => LongHere(input, o + 1, TRUE)
  BY <1>4, ConditionHere
<1>6. /\ k.condition = "!=" => ConditionLength(k) = 5 /\ At(input, o + 1) = Keyword(opening)
      /\ k.condition # "!=" => ConditionLength(k) = 4 /\ At(input, o + 1) = Keyword(opening)
  BY <1>4, ConditionAt, Zenon
<1>7. At(input, o + 1).value = opening
  BY <1>6, KindsOfTokens, Zenon
<1>8. o + 1 \in 1 .. Len(input) + 5 /\ o + 1 \in Nat \ {0}
  <2>1. ConditionLength(k) = 4 \/ ConditionLength(k) = 5
    BY Zenon DEF ConditionLength
  <2>2. Len(input) \in Nat
    BY LenProperties
  <2> QED
    BY <1>4, <2>1, <2>2
<1>9. /\ ConditionLength(k) = 4 => place[j + 1] + 1 = (o + 1) + 4
      /\ ConditionLength(k) = 5 => place[j + 1] + 1 = (o + 1) + 5
  BY <1>4
<1>10. j + 1 # 0
  OBVIOUS
<1>11. RestAt(input, place, j + 1) = Loop(input)[<<place[j + 1] + 1, TRUE>>]
  BY <1>10, Zenon DEF RestAt
<1>12. k \in AnyCompare /\ k.condition \in Comparators
  <2>1. k.col \in Name /\ k.condition \in Comparators /\ k.compare_value \in ValueText
    BY <1>4 DEF Condition
  <2>2. k.col \in Texts /\ k.condition \in Texts /\ k.compare_value \in Texts
    BY <2>1, NamesTyped
  <2>3. k = [col |-> k.col, condition |-> k.condition, compare_value |-> k.compare_value]
    BY <1>4 DEF Condition
  <2> QED
    BY <2>1, <2>2, <2>3 DEF AnyCompare
<1>13. CASE j = 0
  <2>1. RestAt(input, place, j) = Loop(input)[<<o + 1, FALSE>>]
    BY <1>3, <1>13, Zenon DEF RestAt
  <2>2. Loop(input)[<<o + 1, FALSE>>] = LoopStep(Loop(input), input, o + 1, FALSE)
    BY <1>8, LoopSteps, Zenon
  <2>3. k.condition # "!="
    BY <1>1, <1>13
  <2>4. LoopStep(Loop(input), input, o + 1, FALSE)
          = Read(Compare(input, (o + 1) + 1), <<>>, Loop(input)[<<(o + 1) + 4, TRUE>>])
    BY <1>4, <1>5, <1>13, <2>3, LoopFirst, Zenon
  <2>5. LoopStep(Loop(input), input, o + 1, FALSE) = Read(k, <<>>, RestAt(input, place, j + 1))
    BY <1>4, <1>5, <1>6, <1>9, <1>11, <1>13, <2>3, <2>4, Zenon
  <2> QED
    BY <1>1, <1>12, <1>13, <2>1, <2>2, <2>5, Zenon
<1>14. CASE j # 0 /\ k.condition # "!="
  <2>1. RestAt(input, place, j) = Loop(input)[<<o + 1, TRUE>>]
    BY <1>3, <1>14, Zenon DEF RestAt
  <2>2. Loop(input)[<<o + 1, TRUE>>] = LoopStep(Loop(input), input, o + 1, TRUE)
    BY <1>8, LoopSteps, Zenon
  <2>3. LoopStep(Loop(input), input, o + 1, TRUE)
          = Read(Compare(input, (o + 1) + 1), <<At(input, o + 1).value>>, Loop(input)[<<(o + 1) + 4, TRUE>>])
    BY <1>4, <1>5, <1>14, LoopShort, Zenon
  <2>4. LoopStep(Loop(input), input, o + 1, TRUE)
          = Read(k, <<tree.operators[j]>>, RestAt(input, place, j + 1))
    BY <1>4, <1>5, <1>6, <1>7, <1>9, <1>11, <1>14, <2>3, Zenon
  <2> QED
    BY <1>1, <1>12, <1>14, <2>1, <2>2, <2>4, Zenon
<1>15. CASE j # 0 /\ k.condition = "!="
  <2>1. RestAt(input, place, j) = Loop(input)[<<o + 1, TRUE>>]
    BY <1>3, <1>15, Zenon DEF RestAt
  <2>2. Loop(input)[<<o + 1, TRUE>>] = LoopStep(Loop(input), input, o + 1, TRUE)
    BY <1>8, LoopSteps, Zenon
  <2>3. PICK kk : kk = [Compare(input, (o + 1) + 1) EXCEPT !.condition = "!="]
    OBVIOUS
  <2>4. LoopStep(Loop(input), input, o + 1, TRUE)
          = Read(kk, <<At(input, o + 1).value>>, Loop(input)[<<(o + 1) + 5, TRUE>>])
    BY <1>4, <1>5, <1>15, <2>3, LoopLong, Zenon
  <2>5. LoopStep(Loop(input), input, o + 1, TRUE)
          = Read(kk, <<tree.operators[j]>>, RestAt(input, place, j + 1))
    BY <1>4, <1>6, <1>7, <1>9, <1>11, <1>15, <2>4, Zenon
  <2>6. kk \in AnyCompare /\ kk.condition \in Comparators
    <3>1. (o + 1) + 1 \in Nat \ {0}
      BY <1>4
    <3>2. LongComparison(input, (o + 1) + 1)
      BY <1>4, <1>5, <1>15, Zenon DEF LongHere
    <3>3. kk \in AnyCompare /\ Compare(input, (o + 1) + 1) \in AnyCompare
      BY <2>3, <3>1, <3>2, ComparesHere, Zenon
    <3>4. kk.condition = "!="
      BY <2>3, <3>3 DEF AnyCompare
    <3> QED
      BY <3>3, <3>4, Zenon DEF Comparators
  <2> QED
    BY <1>1, <1>15, <2>1, <2>2, <2>5, <2>6, Zenon
<1> QED
  BY <1>13, <1>14, <1>15

LEMMA Downward ==
  ASSUME NEW n \in Nat, NEW T, n \in T, \A i \in Nat : i < n /\ i + 1 \in T => i \in T
  PROVE  \A i \in 0 .. n : i \in T
<1> DEFINE S == {m \in Nat : m <= n => n - m \in T}
<1>1. 0 \in S
  OBVIOUS
<1>2. ASSUME NEW m \in Nat, m \in S PROVE m + 1 \in S
  <2>1. CASE m + 1 <= n
    <3>1. n - m \in T /\ n - (m + 1) \in Nat /\ n - (m + 1) < n /\ (n - (m + 1)) + 1 = n - m
      BY <1>2, <2>1
    <3>2. n - (m + 1) \in T
      BY <3>1, Zenon
    <3> QED
      BY <3>2
  <2> QED
    BY <2>1
<1> HIDE DEF S
<1>3. Nat \subseteq S
  BY <1>1, <1>2, NatInd
<1> QED
  <2> TAKE i \in 0 .. n
  <2>1. n - i \in Nat /\ n - i <= n /\ n - (n - i) = i
    OBVIOUS
  <2>2. n - i \in S
    BY <1>3, <2>1
  <2> QED
    BY <2>1, <2>2 DEF S

Behind1(j) == IF j = 0 THEN 1 ELSE j

RestRead(r, tree, j, end) ==
  LET c == Len(tree.compare_vector)
      d == Behind1(j)
  IN  /\ r \in LoopResults /\ r.at = end
      /\ (\A m \in 1 .. c : tree.compare_vector[m].condition # "!=") =>
           /\ Len(r.compares) = c - j
           /\ \A m \in 1 .. c - j : r.compares[m] = tree.compare_vector[j + m]
           /\ Len(r.operators) = c - d
           /\ \A m \in 1 .. c - d : r.operators[m] = tree.operators[d + m - 1]

LEMMA Prepend ==
  ASSUME NEW S, NEW a \in S, NEW s \in Seq(S), NEW t, t = <<a>> \o s
  PROVE  /\ t \in Seq(S) /\ Len(t) = Len(s) + 1 /\ t[1] = a
         /\ \A m \in 1 .. Len(s) + 1 : m # 1 => t[m] = s[m - 1]
OBVIOUS

LEMMA RestEnds ==
  ASSUME NEW tree, IsSelect(tree), NEW input \in Seq(AnyToken), NEW place,
         SelectPlaces(place, input, tree), NEW c, c = Len(tree.compare_vector)
  PROVE  RestAt(input, place, c) = Stop(place[c] + 1)
<1>1. c \in Nat /\ Len(input) \in Nat
  BY WhereIn, LenProperties
<1>2. /\ place \in [0 .. c -> Nat] /\ place[c] + 1 <= Len(input) /\ input[place[c] + 1] = Mark(";")
  BY Zenon DEF SelectPlaces
<1>3. PICK i : i = place[c] + 1
  OBVIOUS
<1>4. i \in Nat /\ i \in 1 .. Len(input) /\ i \in 1 .. Len(input) + 5
  <2>1. place[c] \in Nat
    <3>1. c \in 0 .. c
      BY <1>1
    <3> QED
      BY <1>2, <3>1, Zenon
  <2>2. PICK u \in Nat : u = place[c]
    BY <2>1
  <2>3. i = u + 1 /\ u + 1 <= Len(input)
    BY <1>2, <1>3, <2>2, Zenon
  <2> QED
    BY <1>1, <2>3
<1>5. At(input, i) = Mark(";")
  BY <1>2, <1>3, <1>4, AtWhat, Zenon
<1>6. PICK pre \in BOOLEAN : pre = IF c = 0 THEN FALSE ELSE TRUE
  OBVIOUS
<1>7. Loop(input)[<<i, pre>>] = LoopStep(Loop(input), input, i, pre)
  BY <1>4, LoopSteps, Zenon
<1>8. LoopStep(Loop(input), input, i, pre) = Stop(i)
  BY <1>5, LoopStops, Zenon
<1> QED
  BY <1>3, <1>6, <1>7, <1>8, Zenon DEF RestAt

LEMMA RestGoesOn ==
  ASSUME NEW tree, IsSelect(tree), NEW j \in Nat, j < Len(tree.compare_vector),
         NEW k \in AnyCompare, k.condition \in Comparators,
         tree.compare_vector[j + 1].condition # "!=" => k = tree.compare_vector[j + 1],
         NEW rest, NEW end, RestRead(rest, tree, j + 1, end),
         NEW r, r = Read(k, IF j = 0 THEN <<>> ELSE <<tree.operators[j]>>, rest)
  PROVE  RestRead(r, tree, j, end)
<1>1. PICK c : c = Len(tree.compare_vector)
  OBVIOUS
<1>2. PICK operators : operators = IF j = 0 THEN <<>> ELSE <<tree.operators[j]>>
  OBVIOUS
<1>3. c \in Nat /\ j + 1 \in 1 .. c
  BY <1>1, WhereIn
<1>4. j # 0 => tree.operators[j] \in Texts
  <2>1. j # 0 => j + 1 > 1 /\ (j + 1) - 1 = j
    OBVIOUS
  <2>2. j # 0 => tree.operators[j] \in {"AND", "OR"}
    BY <1>1, <1>3, <2>1, ConditionIn, Zenon
  <2>3. "AND" \in Texts /\ "OR" \in Texts
    BY WordTexts, Zenon
  <2> QED
    BY <2>2, <2>3, Zenon
<1>5. operators \in Seq(Texts)
  <2>1. \A t \in Texts : <<t>> \in Seq(Texts)
    OBVIOUS
  <2>2. <<>> \in Seq(Texts)
    OBVIOUS
  <2> QED
    BY <1>2, <1>4, <2>1, <2>2, Zenon
<1>6. /\ rest \in LoopResults /\ rest.at = end
      /\ (\A m \in 1 .. c : tree.compare_vector[m].condition # "!=") =>
           /\ Len(rest.compares) = c - (j + 1)
           /\ \A m \in 1 .. c - (j + 1) : rest.compares[m] = tree.compare_vector[(j + 1) + m]
           /\ Len(rest.operators) = c - (j + 1)
           /\ \A m \in 1 .. c - (j + 1) : rest.operators[m] = tree.operators[(j + 1) + m - 1]
  <2>1. Behind1(j + 1) = j + 1
    BY DEF Behind1
  <2> QED
    BY <1>1, <2>1, Zenon DEF RestRead
<1>7. r \in LoopResults
  BY <1>2, <1>5, <1>6, ReadIn, Zenon
<1>8. r = [at |-> rest.at, compares |-> <<k>> \o rest.compares, operators |-> operators \o rest.operators]
  BY <1>2, <1>6, ReadForm, Zenon
<1>9. r.at = end /\ r.compares = <<k>> \o rest.compares /\ r.operators = operators \o rest.operators
  <2>1. rest.at = end
    BY <1>6, Zenon
  <2>2. PICK x, y, z : x = rest.at /\ y = <<k>> \o rest.compares /\ z = operators \o rest.operators
    OBVIOUS
  <2>3. r = [at |-> x, compares |-> y, operators |-> z]
    BY <1>8, <2>2, Zenon
  <2>4. r.at = x /\ r.compares = y /\ r.operators = z
    BY <2>3
  <2> QED
    BY <2>1, <2>2, <2>4, Zenon
<1>10. rest.compares \in Seq(AnyCompare) /\ rest.operators \in Seq(Texts)
  BY <1>6 DEF LoopResults
<1>11. ASSUME \A m \in 1 .. c : tree.compare_vector[m].condition # "!="
       PROVE  /\ Len(r.compares) = c - j
              /\ \A m \in 1 .. c - j : r.compares[m] = tree.compare_vector[j + m]
              /\ Len(r.operators) = c - Behind1(j)
              /\ \A m \in 1 .. c - Behind1(j) : r.operators[m] = tree.operators[Behind1(j) + m - 1]
  <2>1. k = tree.compare_vector[j + 1]
    BY <1>3, <1>11, Zenon
  <2>2. /\ Len(rest.compares) = c - (j + 1)
        /\ \A m \in 1 .. c - (j + 1) : rest.compares[m] = tree.compare_vector[(j + 1) + m]
        /\ Len(rest.operators) = c - (j + 1)
        /\ \A m \in 1 .. c - (j + 1) : rest.operators[m] = tree.operators[(j + 1) + m - 1]
    BY <1>6, <1>11, Zenon
  <2>3. /\ Len(r.compares) = Len(rest.compares) + 1 /\ r.compares[1] = k
        /\ \A m \in 1 .. Len(rest.compares) + 1 : m # 1 => r.compares[m] = rest.compares[m - 1]
    <3>1. PICK s, t : s = rest.compares /\ t = r.compares
      OBVIOUS
    <3>2. PICK S : s \in Seq(S) /\ k \in S /\ t = <<k>> \o s
      BY <1>9, <1>10, <3>1, Zenon
    <3>3. /\ Len(t) = Len(s) + 1 /\ t[1] = k
          /\ \A m \in 1 .. Len(s) + 1 : m # 1 => t[m] = s[m - 1]
      BY <3>2, Prepend
    <3> QED
      BY <3>1, <3>3, Zenon
  <2>4. Len(r.compares) = c - j
    BY <1>3, <2>2, <2>3
  <2>5. ASSUME NEW m \in 1 .. c - j PROVE r.compares[m] = tree.compare_vector[j + m]
    <3>1. CASE m = 1
      BY <2>1, <2>3, <3>1
    <3>2. CASE m # 1
      <4>1. m - 1 \in 1 .. c - (j + 1) /\ m \in 1 .. (c - (j + 1)) + 1 /\ (j + 1) + (m - 1) = j + m
        BY <1>3, <3>2
      <4>2. r.compares[m] = rest.compares[m - 1]
        BY <2>2, <2>3, <3>2, <4>1, Zenon
      <4>3. rest.compares[m - 1] = tree.compare_vector[(j + 1) + (m - 1)]
        BY <2>2, <4>1, Zenon
      <4> QED
        BY <4>1, <4>2, <4>3, Zenon
    <3> QED
      BY <3>1, <3>2
  <2>6. CASE j = 0
    <3>1. operators = <<>> /\ Behind1(j) = 1 /\ j + 1 = 1
      <4>1. j + 1 = 1
        BY <2>6
      <4> QED
        BY <1>2, <2>6, <4>1, Zenon DEF Behind1
    <3>2. r.operators = rest.operators
      BY <1>9, <1>10, <3>1
    <3> QED
      BY <2>2, <2>4, <2>5, <3>1, <3>2, ZenonT(60)
  <2>7. CASE j # 0
    <3>1. operators = <<tree.operators[j]>> /\ Behind1(j) = j
      BY <1>2, <2>7, Zenon DEF Behind1
    <3>2. tree.operators[j] \in Texts
      BY <1>4, <2>7
    <3>3. /\ Len(r.operators) = Len(rest.operators) + 1 /\ r.operators[1] = tree.operators[j]
          /\ \A m \in 1 .. Len(rest.operators) + 1 : m # 1 => r.operators[m] = rest.operators[m - 1]
      <4>1. PICK a, t : a = tree.operators[j] /\ t = r.operators
        OBVIOUS
      <4>2. a \in Texts /\ t = <<a>> \o rest.operators
        BY <1>9, <3>1, <3>2, <4>1, Zenon
      <4>3. /\ Len(t) = Len(rest.operators) + 1 /\ t[1] = a
            /\ \A m \in 1 .. Len(rest.operators) + 1 : m # 1 => t[m] = rest.operators[m - 1]
        BY <1>10, <4>2, Prepend, SMT
      <4> QED
        BY <4>1, <4>3, Zenon
    <3>4. Len(r.operators) = c - j
      BY <1>3, <2>2, <3>3
    <3>5. ASSUME NEW m \in 1 .. c - j PROVE r.operators[m] = tree.operators[j + m - 1]
      <4>1. CASE m = 1
        <5>1. j + m - 1 = j
          BY <4>1
        <5> QED
          BY <3>3, <4>1, <5>1
      <4>2. CASE m # 1
        <5>1. /\ m - 1 \in 1 .. c - (j + 1) /\ m \in 1 .. (c - (j + 1)) + 1
              /\ (j + 1) + (m - 1) - 1 = j + m - 1
          BY <1>3, <4>2
        <5>2. r.operators[m] = rest.operators[m - 1]
          BY <2>2, <3>3, <4>2, <5>1, Zenon
        <5>3. rest.operators[m - 1] = tree.operators[(j + 1) + (m - 1) - 1]
          BY <2>2, <5>1, Zenon
        <5> QED
          BY <5>1, <5>2, <5>3, Zenon
      <4> QED
        BY <4>1, <4>2
    <3> QED
      BY <2>4, <2>5, <3>1, <3>4, <3>5, Zenon
  <2> QED
    BY <2>6, <2>7
<1> QED
  BY <1>1, <1>7, <1>9, <1>11, Zenon DEF RestRead

-----------------------------------------------------------------------------
LEMMA SameList ==
  ASSUME NEW S, NEW T, NEW s \in Seq(S), NEW t \in Seq(T), Len(s) = Len(t),
         \A i \in 1 .. Len(s) : s[i] = t[i]
  PROVE  s = t
<1>1. s = [i \in 1 .. Len(s) |-> s[i]] /\ t = [i \in 1 .. Len(t) |-> t[i]]
  BY LenProperties
<1> QED
  BY <1>1

FirstPlain(tree) ==
  tree.compare_vector # <<>> => tree.compare_vector[1].condition # "!="

AllPlain(tree) ==
  \A m \in 1 .. Len(tree.compare_vector) : tree.compare_vector[m].condition # "!="

LEMMA RestAll ==
  ASSUME NEW tree, IsSelect(tree), NEW input \in Seq(AnyToken), NEW place,
         SelectPlaces(place, input, tree), FirstPlain(tree),
         NEW c \in Nat \ {0}, c = Len(tree.compare_vector)
  PROVE  RestRead(RestAt(input, place, 0), tree, 0, place[c] + 1)
<1> DEFINE T == {j \in Nat : j <= c /\ RestRead(RestAt(input, place, j), tree, j, place[c] + 1)}
<1>1. c \in T
  <2>1. RestAt(input, place, c) = Stop(place[c] + 1)
    BY RestEnds, SMT
  <2>2. PICK end, r : end = place[c] + 1 /\ r = RestAt(input, place, c)
    OBVIOUS
  <2>3. end \in Nat
    <3>1. place \in [0 .. c -> Nat]
      BY Zenon DEF SelectPlaces
    <3>2. place[c] \in Nat
      BY <3>1
    <3> QED
      BY <2>2, <3>2
  <2>4. r = [at |-> end, compares |-> <<>>, operators |-> <<>>]
    BY <2>1, <2>2, Zenon DEF Stop
  <2>5. /\ r \in LoopResults /\ r.at = end
        /\ r.compares = <<>> /\ r.operators = <<>>
    <3> HIDE DEF AnyCompare, Texts
    <3> QED
      BY <2>3, <2>4 DEF LoopResults
  <2>6. Len(r.compares) = c - c /\ Len(r.operators) = c - c
    BY <2>5
  <2>7. \A m \in 1 .. c - c : FALSE
    OBVIOUS
  <2>8. Behind1(c) = c
    BY DEF Behind1
  <2>9. RestRead(r, tree, c, end)
    BY <2>5, <2>6, <2>7, <2>8, Zenon DEF RestRead
  <2> QED
    BY <2>2, <2>9
<1>2. ASSUME NEW j \in Nat, j < c, j + 1 \in T PROVE j \in T
  <2>1. RestRead(RestAt(input, place, j + 1), tree, j + 1, place[c] + 1)
    BY <1>2
  <2>2. j # 0 \/ tree.compare_vector[j + 1].condition # "!="
    <3>1. tree.compare_vector # <<>>
      <4>1. Len(<<>>) = 0 /\ c # 0
        OBVIOUS
      <4> QED
        BY <4>1, Zenon
    <3>2. j = 0 => j + 1 = 1
      OBVIOUS
    <3> QED
      BY <3>1, <3>2, Zenon DEF FirstPlain
  <2>3. j < Len(tree.compare_vector)
    BY <1>2, Zenon
  <2>4. PICK k \in AnyCompare :
          /\ k.condition \in Comparators
          /\ tree.compare_vector[j + 1].condition # "!=" => k = tree.compare_vector[j + 1]
          /\ RestAt(input, place, j)
               = Read(k, IF j = 0 THEN <<>> ELSE <<tree.operators[j]>>, RestAt(input, place, j + 1))
    BY <2>2, <2>3, RestStep, SMT
  <2>5. RestRead(RestAt(input, place, j), tree, j, place[c] + 1)
    BY <2>1, <2>3, <2>4, RestGoesOn, Zenon
  <2> QED
    BY <1>2, <2>5
<1> HIDE DEF T
<1>3. \A i \in 0 .. c : i \in T
  BY <1>1, <1>2, Downward
<1>4. 0 \in T
  BY <1>3
<1> QED
  BY <1>4 DEF T

LEMMA WhereRead ==
  ASSUME NEW tree, IsSelect(tree), NEW input \in Seq(AnyToken), NEW place,
         SelectPlaces(place, input, tree), FirstPlain(tree),
         NEW c \in Nat, c = Len(tree.compare_vector)
  PROVE  LET r == Conditions(input, place[0] + 1)
         IN  /\ r.at = place[c] + 1
             /\ AllPlain(tree) => r.compares = tree.compare_vector /\ r.operators = tree.operators
<1>1. PICK r : r = Conditions(input, place[0] + 1)
  OBVIOUS
<1>2. r = RestAt(input, place, 0)
  BY <1>1, LoopIs, Zenon DEF RestAt
<1>3. /\ tree.compare_vector \in Seq(Condition) /\ tree.operators \in Seq({"AND", "OR"})
      /\ \/ tree.compare_vector = <<>> /\ tree.operators = <<>>
         \/ Len(tree.compare_vector) = Len(tree.operators) + 1
  BY Zenon DEF IsSelect, Condition
<1>4. CASE c = 0
  <2>1. r = Stop(place[c] + 1)
    <3>1. RestAt(input, place, c) = Stop(place[c] + 1)
      BY RestEnds, SMT
    <3> QED
      BY <1>2, <1>4, <3>1, Zenon
  <2>2. r.at = place[c] + 1 /\ r.compares = <<>> /\ r.operators = <<>>
    BY <2>1 DEF Stop
  <2>3. tree.compare_vector = <<>> /\ tree.operators = <<>>
    <3>1. Len(tree.operators) \in Nat
      BY <1>3, LenProperties
    <3>2. Len(tree.compare_vector) # Len(tree.operators) + 1
      BY <1>4, <3>1
    <3> QED
      BY <1>3, <3>2, Zenon
  <2> QED
    BY <1>1, <2>2, <2>3, Zenon
<1>5. CASE c # 0
  <2>1. c \in Nat \ {0}
    BY <1>5
  <2>2. RestRead(r, tree, 0, place[c] + 1)
    BY <1>2, <2>1, RestAll, Zenon
  <2>3. /\ r \in LoopResults /\ r.at = place[c] + 1
        /\ AllPlain(tree) =>
             /\ Len(r.compares) = c - 0
             /\ \A m \in 1 .. c - 0 : r.compares[m] = tree.compare_vector[0 + m]
             /\ Len(r.operators) = c - 1
             /\ \A m \in 1 .. c - 1 : r.operators[m] = tree.operators[1 + m - 1]
    BY <2>2, Zenon DEF RestRead, AllPlain, Behind1
  <2>4. r.compares \in Seq(AnyCompare) /\ r.operators \in Seq(Texts)
    BY <2>3 DEF LoopResults
  <2>5. tree.compare_vector # <<>>
    <3>1. Len(<<>>) = 0
      OBVIOUS
    <3> QED
      BY <1>5, <3>1, Zenon
  <2>6. Len(tree.operators) = c - 1
    <3>1. Len(tree.operators) \in Nat
      BY <1>3, LenProperties
    <3>2. c = Len(tree.operators) + 1
      BY <1>3, <2>5, Zenon
    <3> QED
      BY <3>1, <3>2
  <2>7. ASSUME AllPlain(tree) PROVE r.compares = tree.compare_vector
    <3>1. c - 0 = c /\ \A m \in 1 .. c - 0 : 0 + m = m
      OBVIOUS
    <3>2. PICK s, t : s = r.compares /\ t = tree.compare_vector
      OBVIOUS
    <3>3. /\ s \in Seq(AnyCompare) /\ t \in Seq(Condition) /\ Len(s) = c - 0 /\ Len(t) = c
          /\ \A m \in 1 .. c - 0 : s[m] = t[0 + m]
      BY <1>3, <2>3, <2>4, <2>7, <3>2, Zenon
    <3>4. Len(s) = Len(t) /\ \A m \in 1 .. Len(s) : s[m] = t[m]
      BY <3>1, <3>3
    <3>5. s = t
      BY <3>3, <3>4, SameList, SMT
    <3> QED
      BY <3>2, <3>5
  <2>8. ASSUME AllPlain(tree) PROVE r.operators = tree.operators
    <3>1. \A m \in 1 .. c - 1 : 1 + m - 1 = m
      OBVIOUS
    <3>2. PICK s, t : s = r.operators /\ t = tree.operators
      OBVIOUS
    <3>3. /\ s \in Seq(Texts) /\ t \in Seq({"AND", "OR"}) /\ Len(s) = c - 1 /\ Len(t) = c - 1
          /\ \A m \in 1 .. c - 1 : s[m] = t[1 + m - 1]
      BY <1>3, <2>3, <2>4, <2>6, <2>8, <3>2, Zenon
    <3>4. Len(s) = Len(t) /\ \A m \in 1 .. Len(s) : s[m] = t[m]
      BY <3>1, <3>3
    <3>5. s = t
      BY <3>3, <3>4, SameList, SMT
    <3> QED
      BY <3>2, <3>5
  <2> QED
    BY <1>1, <2>3, <2>7, <2>8, Zenon
<1> QED
  BY <1>4, <1>5

LEMMA ColumnsOfSelect ==
  ASSUME NEW tree, IsSelect(tree), NEW input \in Seq(AnyToken), SelectTokens(input, tree),
         NEW n \in Nat \ {0}, n = Len(tree.columns), 1 + 2 * n <= Len(input)
  PROVE  /\ First(input, 2, Keyword("FROM")) = 1 + 2 * n
         /\ ~ \E i \in 2 .. (1 + 2 * n) - 1 : input[i] # Mark(",") /\ At(input, i + 1).value = "*"
         /\ ValuesOf(Items(input, 2, 1 + 2 * n)) = tree.columns
<1>1. Len(input) \in Nat
  BY LenProperties
<1>2. NameTokens(input, 2, tree.columns) /\ input[1 + 2 * n] = Keyword("FROM")
  BY Zenon DEF SelectTokens
<1>3. /\ \A i \in 1 .. n : input[2 - 1 + (2 * i - 1)]
                             = IF tree.columns[i] = "*" THEN Mark("*") ELSE Identifier(tree.columns[i])
      /\ \A i \in 1 .. n - 1 : input[2 - 1 + 2 * i] = Mark(",")
  BY <1>2, Zenon DEF NameTokens
<1>4. \A i \in 1 .. n : (\E a : input[2 - 1 + (2 * i - 1)] = Identifier(a)) \/ input[2 - 1 + (2 * i - 1)] = Mark("*")
  BY <1>3, Zenon
<1>5. ASSUME NEW j \in 2 .. (1 + 2 * n) - 1
      PROVE  \/ j \div 2 \in 1 .. n /\ j = 2 - 1 + (2 * (j \div 2) - 1)
                /\ ((j \div 2 \in 1 .. n - 1 /\ j + 1 = 2 - 1 + 2 * (j \div 2)) \/ j + 1 = 1 + 2 * n)
             \/ (j - 1) \div 2 \in 1 .. n - 1 /\ j = 2 - 1 + 2 * ((j - 1) \div 2)
  OBVIOUS
<1>6. /\ "," # "*" /\ "FROM" # "*"
  OBVIOUS
<1>7. ASSUME NEW j \in 2 .. (1 + 2 * n) - 1 PROVE input[j] # Keyword("FROM")
  <2>1. (\E a : input[j] = Identifier(a)) \/ (\E a : input[j] = Mark(a))
    BY <1>3, <1>4, <1>5, Zenon
  <2> QED
    BY <2>1, KindsOfTokens, Zenon
<1>8. First(input, 2, Keyword("FROM")) = 1 + 2 * n
  <2>1. 1 + 2 * n \in 2 .. Len(input) /\ 2 \in Nat
    BY <1>1
  <2> QED
    BY <1>1, <1>2, <1>7, <2>1, FirstIs, Zenon
<1>9. ASSUME NEW j \in 2 .. (1 + 2 * n) - 1, input[j] # Mark(",")
      PROVE  At(input, j + 1).value # "*"
  <2>1. input[j + 1] = Mark(",") \/ input[j + 1] = Keyword("FROM")
    BY <1>2, <1>3, <1>5, <1>9, Zenon
  <2>2. j + 1 \in 1 .. Len(input) /\ j + 1 \in Nat
    BY <1>1
  <2>3. At(input, j + 1) = input[j + 1]
    BY <2>2, AtWhat, Zenon
  <2> QED
    BY <1>6, <2>1, <2>3, KindsOfTokens, Zenon
<1>10. ValuesOf(Items(input, 2, 1 + 2 * n)) = tree.columns
  <2>1. 1 + 2 * n = 2 + 2 * Len(tree.columns) - 1 /\ 2 \in Nat \ {0}
    OBVIOUS
  <2>2. PICK to : to = 1 + 2 * n
    OBVIOUS
  <2>3. to = 2 + 2 * Len(tree.columns) - 1 /\ to <= Len(input)
    BY <2>1, <2>2, Zenon
  <2>4. tree.columns \in Seq(Texts) /\ tree.columns # <<>>
    BY ColumnNames, Zenon
  <2>5. ValuesOf(Items(input, 2, to)) = tree.columns
    BY <1>2, <2>1, <2>3, <2>4, NamesRead, SMT
  <2> QED
    BY <2>2, <2>5, Zenon
<1> QED
  BY <1>8, <1>9, <1>10, Zenon

(* What a SELECT's constructor reads: the tree, where it throws nothing.   *)
LEMMA SelectRead ==
  ASSUME NEW tree, IsSelect(tree), NEW input \in Seq(AnyToken), SelectTokens(input, tree),
         Len(tree.columns) \in Nat \ {0}, FirstPlain(tree)
  PROVE  /\ Len(input) = 3 + 2 * Len(tree.columns) + Len(Where(tree)) =>
              SelectFromOneTableSql(input) # Thrown
         /\ AllPlain(tree) => SelectFromOneTableSql(input) \in {Thrown, tree}
<1>1. PICK n \in Nat \ {0}, c \in Nat : n = Len(tree.columns) /\ c = Len(tree.compare_vector)
  BY WhereIn
<1>2. Len(input) \in Nat /\ Len(Where(tree)) \in Nat
  BY WhereIn, LenProperties
<1>3. PICK place : SelectPlaces(place, input, tree)
  BY <1>2, SelectPlacesExist, Zenon
<1>4. /\ place[0] = 2 + 2 * n /\ place[c] + 1 <= Len(input) /\ input[place[c] + 1] = Mark(";")
      /\ place[c] = 2 + 2 * n + Len(Where(tree)) /\ place \in [0 .. c -> Nat]
  BY <1>1, <1>3, Zenon DEF SelectPlaces
<1>5. /\ 1 + 2 * n <= Len(input) /\ (1 + 2 * n) + 2 = place[0] + 1 /\ (1 + 2 * n) + 1 = 2 + 2 * n
      /\ place[c] + 1 = 3 + 2 * n + Len(Where(tree)) /\ place[c] + 1 \in Nat
      /\ place[c] + 1 \in 1 .. Len(input)
  <2>1. PICK u, v, w \in Nat : u = place[0] /\ v = place[c] /\ w = Len(Where(tree))
    <3>1. 2 + 2 * n \in Nat /\ 2 + 2 * n + Len(Where(tree)) \in Nat
      BY <1>2
    <3>2. place[0] \in Nat /\ place[c] \in Nat
      BY <1>4, <3>1, Zenon
    <3> QED
      BY <1>2, <3>2
  <2>2. u = 2 + 2 * n /\ v = 2 + 2 * n + w /\ v + 1 <= Len(input)
    BY <1>4, <2>1, Zenon
  <2>3. /\ 1 + 2 * n <= Len(input) /\ (1 + 2 * n) + 2 = u + 1 /\ (1 + 2 * n) + 1 = 2 + 2 * n
        /\ v + 1 = 3 + 2 * n + w /\ v + 1 \in Nat /\ v + 1 \in 1 .. Len(input)
    BY <1>2, <2>2
  <2> QED
    BY <2>1, <2>3, Zenon
<1>6. /\ First(input, 2, Keyword("FROM")) = 1 + 2 * n
      /\ ~ \E i \in 2 .. (1 + 2 * n) - 1 : input[i] # Mark(",") /\ At(input, i + 1).value = "*"
      /\ ValuesOf(Items(input, 2, 1 + 2 * n)) = tree.columns
  BY <1>1, <1>5, ColumnsOfSelect, Zenon
<1>7. PICK r : r = Conditions(input, (1 + 2 * n) + 2)
  OBVIOUS
<1>8. /\ r.at = place[c] + 1
      /\ AllPlain(tree) => r.compares = tree.compare_vector /\ r.operators = tree.operators
  BY <1>1, <1>3, <1>5, <1>7, WhereRead, SMT
<1>9. At(input, r.at) = Mark(";")
  BY <1>4, <1>5, <1>8, AtWhat, Zenon
<1>10. SelectFromOneTableSql(input)
         = IF r.at # Len(input)
           THEN Thrown
           ELSE [node |-> "SELECT_FROM_ONE_TABLE_NODE",
                 table_name |-> input[(1 + 2 * n) + 1].value, columns |-> tree.columns,
                 compare_vector |-> r.compares, operators |-> r.operators]
  <2>1. PICK from : from = First(input, 2, Keyword("FROM"))
    OBVIOUS
  <2>2. r = Conditions(input, from + 2) /\ from = 1 + 2 * n
    BY <1>6, <1>7, <2>1, Zenon
  <2>3. SelectFromOneTableSql(input)
          = IF \/ \E i \in 2 .. from - 1 : input[i] # Mark(",") /\ At(input, i + 1).value = "*"
               \/ r.at # Len(input)
               \/ At(input, r.at) # Mark(";")
            THEN Thrown
            ELSE [node |-> "SELECT_FROM_ONE_TABLE_NODE",
                  table_name |-> input[from + 1].value,
                  columns |-> ValuesOf(Items(input, 2, from)),
                  compare_vector |-> r.compares,
                  operators |-> r.operators]
    BY <2>1, <2>2, Zenon DEF SelectFromOneTableSql
  <2>4. /\ ~ \E i \in 2 .. from - 1 : input[i] # Mark(",") /\ At(input, i + 1).value = "*"
        /\ ValuesOf(Items(input, 2, from)) = tree.columns
    BY <1>6, <2>2, Zenon
  <2> QED
    BY <1>9, <2>2, <2>3, <2>4, Zenon
<1>11. ASSUME Len(input) = 3 + 2 * Len(tree.columns) + Len(Where(tree))
       PROVE  SelectFromOneTableSql(input) # Thrown
  <2>1. r.at = Len(input)
    BY <1>1, <1>5, <1>8, <1>11, Zenon
  <2>2. SelectFromOneTableSql(input).node = "SELECT_FROM_ONE_TABLE_NODE"
    <3>1. PICK a, b, d, e : SelectFromOneTableSql(input)
                              = [node |-> "SELECT_FROM_ONE_TABLE_NODE", table_name |-> a,
                                 columns |-> b, compare_vector |-> d, operators |-> e]
      BY <1>10, <2>1, Zenon
    <3> QED
      BY <3>1
  <2>3. Thrown.node = "THROWN" /\ "THROWN" # "SELECT_FROM_ONE_TABLE_NODE"
    BY NodesAre
  <2> QED
    BY <2>2, <2>3, Zenon
<1>12. ASSUME AllPlain(tree) PROVE SelectFromOneTableSql(input) \in {Thrown, tree}
  <2>1. input[(1 + 2 * n) + 1].value = tree.table_name
    <3>1. input[2 + 2 * n] = Identifier(tree.table_name)
      BY <1>1, Zenon DEF SelectTokens
    <3> QED
      BY <1>5, <3>1, KindsOfTokens, Zenon
  <2>2. tree = [node |-> "SELECT_FROM_ONE_TABLE_NODE", table_name |-> tree.table_name,
                columns |-> tree.columns, compare_vector |-> tree.compare_vector,
                operators |-> tree.operators]
    BY Zenon DEF IsSelect
  <2> QED
    BY <1>8, <1>10, <1>12, <2>1, <2>2, Zenon
<1> QED
  BY <1>11, <1>12, Zenon

-----------------------------------------------------------------------------
(* The semicolon is what only the last element of a pattern takes: up to   *)
(* where a worker stands in its statement, there is none.                  *)
Clear(o, input) == \A j \in 1 .. o : At(input, j) # Mark(";")

Plain(t) == \A i \in DOMAIN t : ~Fits(t[i], Mark(";"))

LEMMA NoMark ==
  /\ \A k : ~Fits(Keyword(k), Mark(";"))
  /\ ~Fits(AnyIdentifier, Mark(";")) /\ ~Fits(AnyValue, Mark(";"))
  /\ ~Fits(Mark(","), Mark(";")) /\ ~Fits(Mark("("), Mark(";")) /\ ~Fits(Mark(")"), Mark(";"))
<1>1. /\ Mark(";").type = "OPERATOR_T"
      /\ \A k : Mark(";") # Keyword(k)
      /\ Mark(";") # Mark(",") /\ Mark(";") # Mark("(") /\ Mark(";") # Mark(")")
  BY DEF Mark, Keyword, Token
<1>2. Mark(";").type # "IDENTIFIER_T" /\ ~IsValue(Mark(";"))
  BY <1>1 DEF IsValue
<1> QED
  BY <1>1, <1>2, FitsWhat, Zenon

LEMMA PlainTuples ==
  /\ \A a : ~Fits(a, Mark(";")) => Plain(<<a>>)
  /\ \A a, b : ~Fits(a, Mark(";")) /\ ~Fits(b, Mark(";")) => Plain(<<a, b>>)
<1>1. ASSUME NEW a, ~Fits(a, Mark(";")) PROVE Plain(<<a>>)
  <2>1. DOMAIN <<a>> = {1} /\ <<a>>[1] = a
    OBVIOUS
  <2> QED
    BY <1>1, <2>1, Zenon DEF Plain
<1>2. ASSUME NEW a, NEW b, ~Fits(a, Mark(";")), ~Fits(b, Mark(";")) PROVE Plain(<<a, b>>)
  <2>1. DOMAIN <<a, b>> = {1, 2} /\ <<a, b>>[1] = a /\ <<a, b>>[2] = b
    OBVIOUS
  <2> QED
    BY <1>2, <2>1, Zenon DEF Plain
<1> QED
  BY <1>1, <1>2

LEMMA FourMisfits ==
  ASSUME NEW m, NEW a, NEW b, NEW c, NEW d,
         ~Fits(a, m), ~Fits(b, m), ~Fits(c, m), ~Fits(d, m)
  PROVE  \A i \in DOMAIN <<a, b, c, d>> : ~Fits(<<a, b, c, d>>[i], m)
<1> DEFINE t == <<a, b, c, d>>
<1>1. DOMAIN t = {1, 2, 3, 4} /\ t[1] = a /\ t[2] = b /\ t[3] = c /\ t[4] = d
  OBVIOUS
<1> QED
  BY <1>1, Zenon

LEMMA FiveMisfits ==
  ASSUME NEW m, NEW a, NEW b, NEW c, NEW d, NEW e,
         ~Fits(a, m), ~Fits(b, m), ~Fits(c, m), ~Fits(d, m), ~Fits(e, m)
  PROVE  \A i \in DOMAIN <<a, b, c, d, e>> : ~Fits(<<a, b, c, d, e>>[i], m)
<1> DEFINE t == <<a, b, c, d, e>>
<1>1. DOMAIN t = {1, 2, 3, 4, 5} /\ t[1] = a /\ t[2] = b /\ t[3] = c /\ t[4] = d /\ t[5] = e
  OBVIOUS
<1> QED
  BY <1>1, Zenon

LEMMA PlainFour ==
  ASSUME NEW a, NEW b, NEW c, NEW d,
         ~Fits(a, Mark(";")), ~Fits(b, Mark(";")), ~Fits(c, Mark(";")), ~Fits(d, Mark(";"))
  PROVE  Plain(<<a, b, c, d>>)
BY FourMisfits, Zenon DEF Plain

LEMMA PlainFive ==
  ASSUME NEW a, NEW b, NEW c, NEW d, NEW e,
         ~Fits(a, Mark(";")), ~Fits(b, Mark(";")), ~Fits(c, Mark(";")), ~Fits(d, Mark(";")),
         ~Fits(e, Mark(";"))
  PROVE  Plain(<<a, b, c, d, e>>)
BY FiveMisfits, Zenon DEF Plain

(* The elements that are tokens, without the last ones.                    *)
IsPlain(parts) == Len(parts) = 1 /\ parts[1].range = Empty => Plain(parts[1].templates)

LEMMA PlainTokens ==
  ASSUME NEW t, Plain(t)
  PROVE  IsPlain(Tokens(t).parts)
<1>1. IsCertain(Tokens(t).parts[1], t)
  BY TokensParts, Zenon
<1> QED
  BY <1>1, Zenon DEF IsPlain, IsCertain

LEMMA PlainLists == IsPlain(NEXT_ID.parts) /\ IsPlain(NEXT_VALUE.parts)
<1>1. Plain(<<Mark(","), AnyIdentifier>>) /\ Plain(<<Mark(","), AnyValue>>)
  BY PlainTuples, NoMark, Zenon
<1> QED
  BY <1>1, ListParts, CertainOf, Zenon DEF IsPlain

LEMMA PlainOthers ==
  /\ IsPlain(VALUE_TYPE.parts) /\ IsPlain(FIRST_COL.parts) /\ IsPlain(NEXT_COLUMN.parts)
  /\ IsPlain(CONDITION.parts) /\ IsPlain(NEXT_CONDITION.parts)
<1>1. "VALUE_TYPE" # Empty /\ "FIRST_COL" # Empty
  BY RangesNamed, RangeNames
<1>2. IsPlain(VALUE_TYPE.parts) /\ IsPlain(FIRST_COL.parts)
  BY <1>1, TypeParts, FirstColParts, Zenon DEF IsPlain, IsRange
<1>3. 2 # 1 /\ 3 # 1 /\ 4 # 1
  OBVIOUS
<1> QED
  BY <1>2, <1>3, TypeParts, ConditionParts, Zenon DEF IsPlain

LEMMA PlainBefore ==
  ASSUME NEW k \in 1 .. 4, NEW e \in 1 .. Len(ALL_PATTERNS[k]), e # Len(ALL_PATTERNS[k])
  PROVE  IsPlain(ALL_PATTERNS[k][e].parts)
<1>1. k = 1 \/ k = 2 \/ k = 3 \/ k = 4
  OBVIOUS
<1>2. CASE k = 1
  <2>1. e \in 1 .. 1 /\ e # 1
    BY <1>2, PatternSizes, Zenon
  <2> QED
    BY <2>1
<1>3. CASE k = 2
  <2>1. e \in 1 .. 4 /\ e # 4
    BY <1>3, PatternSizes, Zenon
  <2>2. e = 1 \/ e = 2 \/ e = 3
    BY <2>1
  <2>3. Plain(<<Keyword("CREATE"), Keyword("TABLE"), AnyIdentifier, Mark("("), AnyIdentifier>>)
    BY PlainFive, NoMark, Zenon
  <2> QED
    BY <1>3, <2>2, <2>3, PlainTokens, PlainOthers, PatternsAre, Pattern2, Zenon
<1>4. CASE k = 3
  <2>1. e \in 1 .. 5 /\ e # 5
    BY <1>4, PatternSizes, Zenon
  <2>2. e = 1 \/ e = 2 \/ e = 3 \/ e = 4
    BY <2>1
  <2>3. Plain(<<Keyword("INSERT"), Keyword("INTO"), AnyIdentifier, Mark("("), AnyIdentifier>>)
    BY PlainFive, NoMark, Zenon
  <2>4. Plain(<<Mark(")"), Keyword("VALUES"), Mark("("), AnyValue>>)
    BY PlainFour, NoMark, Zenon
  <2> QED
    BY <1>4, <2>2, <2>3, <2>4, PlainTokens, PlainLists, PatternsAre, Pattern3, Zenon
<1>5. CASE k = 4
  <2>1. e \in 1 .. 7 /\ e # 7
    BY <1>5, PatternSizes, Zenon
  <2>2. e = 1 \/ e = 2 \/ e = 3 \/ e = 4 \/ e = 5 \/ e = 6
    BY <2>1
  <2>3. Plain(<<Keyword("SELECT")>>) /\ Plain(<<Keyword("FROM"), AnyIdentifier>>)
    BY PlainTuples, NoMark, Zenon
  <2> QED
    BY <1>5, <2>2, <2>3, PlainTokens, PlainLists, PlainOthers, PatternsAre, Pattern4, Zenon
<1> QED
  BY <1>1, <1>2, <1>3, <1>4, <1>5

(* What the other elements take is no semicolon.                           *)
LEMMA NoSemicolon ==
  /\ ~IsType(Mark(";")) /\ ~IsConnective(Mark(";")) /\ ~IsColumn(Mark(";")) /\ ~IsValue(Mark(";"))
  /\ Mark(";").type # "IDENTIFIER_T"
  /\ Mark(";") # Mark(",") /\ Mark(";") # Keyword("WHERE")
  /\ Mark(";") # Mark(">") /\ Mark(";") # Mark("<") /\ Mark(";") # Mark("=") /\ Mark(";") # Mark("!")
BY DEF Mark, Keyword, Token, IsType, IsConnective, IsColumn, IsValue

ClearTo(input, o, n) == \A j \in 1 .. n : At(input, o + j) # Mark(";")

LEMMA ClearOn ==
  ASSUME NEW input, NEW o \in Nat, NEW n \in Nat, Clear(o, input), ClearTo(input, o, n)
  PROVE  Clear(o + n, input)
<1> SUFFICES ASSUME NEW j \in 1 .. o + n PROVE At(input, j) # Mark(";")
  BY Zenon DEF Clear
<1>1. CASE j \in 1 .. o
  BY <1>1, Zenon DEF Clear
<1>2. CASE j \notin 1 .. o
  <2>1. PICK i \in 1 .. n : j = o + i
    <3>1. j - o \in 1 .. n /\ j = o + (j - o)
      BY <1>2
    <3> QED
      BY <3>1
  <2> QED
    BY <2>1, Zenon DEF ClearTo
<1> QED
  BY <1>1, <1>2

LEMMA ClearTokens ==
  ASSUME NEW input, NEW o, NEW part, DOMAIN part.templates = 1 .. Len(part.templates),
         Plain(part.templates), CertainCheck(part.templates, input, o)
  PROVE  ClearTo(input, o, Len(part.templates))
BY Zenon DEF ClearTo, Plain, CertainCheck

LEMMA ClearOne ==
  ASSUME NEW input, NEW o, At(input, o + 1) # Mark(";")
  PROVE  ClearTo(input, o, 1)
BY OneTo, Zenon DEF ClearTo

LEMMA ClearTwo ==
  ASSUME NEW input, NEW o, At(input, o + 1) # Mark(";"), At(input, o + 2) # Mark(";")
  PROVE  ClearTo(input, o, 2)
BY OneTo, Zenon DEF ClearTo

LEMMA FiveNumbers ==
  /\ \A o \in Nat : /\ (o + 2) + 1 = o + 3 /\ (o + 2) + 2 = o + 4
                    /\ (o + 3) + 1 = o + 4 /\ (o + 3) + 2 = o + 5
  /\ 3 + 1 = 4 /\ 3 + 2 = 5 /\ 1 # 2
  /\ \A j \in 1 .. 5 : j = 1 \/ j = 2 \/ j = 3 \/ j = 4 \/ j = 5
OBVIOUS

LEMMA ClearComparison ==
  ASSUME NEW input, NEW o \in Nat, At(input, o + 1) # Mark(";"), At(input, o + 2) # Mark(";"),
         ComparisonLength(input, o) # 0
  PROVE  ClearTo(input, o, ComparisonLength(input, o))
<1> DEFINE c == CompareLength(input, o + 2)
<1>1. ComparisonLength(input, o) = 3 + c /\ c # 0 /\ IsValue(At(input, o + 3 + c))
  BY Zenon DEF ComparisonLength, Compares
<1>2. \/ c = 1 /\ At(input, (o + 2) + 1) \in {Mark(">"), Mark("<"), Mark("=")}
      \/ c = 2 /\ At(input, (o + 2) + 1) = Mark("!") /\ At(input, (o + 2) + 2) = Mark("=")
  BY <1>1, Zenon DEF CompareLength
<1> HIDE DEF c
<1>3. (o + 2) + 1 = o + 3 /\ (o + 2) + 2 = o + 4 /\ (o + 3) + 1 = o + 4 /\ (o + 3) + 2 = o + 5
  BY FiveNumbers, Zenon
<1>4. CASE c = 1
  <2>1. 3 + c = 4 /\ c # 2
    BY <1>4, FiveNumbers, Zenon
  <2>2. At(input, o + 3) # Mark(";") /\ At(input, o + 4) # Mark(";")
    BY <1>1, <1>2, <1>3, <1>4, <2>1, NoSemicolon, Zenon
  <2> QED
    BY <1>1, <2>1, <2>2, OneTo, Zenon DEF ClearTo
<1>5. CASE c = 2
  <2>1. 3 + c = 5 /\ c # 1 /\ \A j \in 1 .. 5 : j = 1 \/ j = 2 \/ j = 3 \/ j = 4 \/ j = 5
    BY <1>5, FiveNumbers, Zenon
  <2>2. At(input, o + 3) # Mark(";") /\ At(input, o + 4) # Mark(";") /\ At(input, o + 5) # Mark(";")
    BY <1>1, <1>2, <1>3, <1>5, <2>1, NoSemicolon, Zenon
  <2> QED
    BY <1>1, <2>1, <2>2, Zenon DEF ClearTo
<1> QED
  BY <1>2, <1>4, <1>5

LEMMA ClearElement ==
  ASSUME NEW input \in Seq(AnyToken), NEW o \in Nat, NEW parts,
         \/ TokensKind(parts) \/ ChoiceKind(parts) \/ ColumnKind(parts)
         \/ WhereKind(parts) \/ NextKind(parts),
         IsPlain(parts), ElementLength(parts, input, o) # 0
  PROVE  ClearTo(input, o, ElementLength(parts, input, o))
<1>0. 2 # 1 /\ 3 # 1 /\ 3 # 2 /\ 4 # 1 /\ 4 # 2 /\ 4 # 3
  OBVIOUS
<1>1. CASE TokensKind(parts)
  <2>1. Len(parts) = 1 /\ parts[1].range = Empty /\ DOMAIN parts[1].templates = 1 .. Len(parts[1].templates)
    BY <1>1, Zenon DEF TokensKind
  <2>2. ElementLength(parts, input, o) = TokensLength(parts[1], input, o)
    BY <2>1, Zenon DEF ElementLength
  <2>3. CertainCheck(parts[1].templates, input, o)
        /\ ElementLength(parts, input, o) = Len(parts[1].templates)
    BY <2>2, Zenon DEF TokensLength
  <2>4. Plain(parts[1].templates)
    BY <2>1, Zenon DEF IsPlain
  <2> QED
    BY <2>1, <2>3, <2>4, ClearTokens, Zenon
<1>2. CASE ChoiceKind(parts)
  <2>1. Len(parts) = 1 /\ parts[1].range # Empty
    BY <1>2, RangeNames, RangesNamed, Zenon DEF ChoiceKind, IsRange
  <2>2. ElementLength(parts, input, o) = ChoiceLength(parts[1], input, o)
    BY <2>1, Zenon DEF ElementLength
  <2>3. /\ IsType(At(input, o + 1)) \/ IsColumn(At(input, o + 1))
        /\ ElementLength(parts, input, o) = 1
    BY <2>2, Zenon DEF ChoiceLength
  <2>4. ClearTo(input, o, 1)
    BY <2>3, NoSemicolon, ClearOne, Zenon
  <2> QED
    BY <2>3, <2>4, Zenon
<1>3. CASE ColumnKind(parts)
  <2>1. ElementLength(parts, input, o) = ColumnLength(input, o)
    BY <1>0, <1>3, Zenon DEF ColumnKind, ElementLength
  <2>2. /\ At(input, o + 1) = Mark(",") /\ At(input, o + 2).type = "IDENTIFIER_T"
        /\ IsType(At(input, o + 3)) /\ ElementLength(parts, input, o) = 3
    BY <2>1, Zenon DEF ColumnLength
  <2>3. /\ At(input, o + 1) # Mark(";") /\ At(input, o + 2) # Mark(";") /\ At(input, o + 3) # Mark(";")
    BY <2>2, NoSemicolon, Zenon
  <2> QED
    BY <2>2, <2>3, OneTo, Zenon DEF ClearTo
<1>4. CASE WhereKind(parts) \/ NextKind(parts)
  <2>1. CASE WhereKind(parts)
    <3>1. WhereBegins(input, o) /\ ElementLength(parts, input, o) = ComparisonLength(input, o)
      BY <1>0, <2>1, Zenon DEF WhereKind, ElementLength
    <3>2. At(input, o + 1) # Mark(";") /\ At(input, o + 2) # Mark(";")
      BY <3>1, NoSemicolon, Zenon DEF WhereBegins
    <3> QED
      BY <3>1, <3>2, ClearComparison, Zenon
  <2>2. CASE NextKind(parts)
    <3>1. NextBegins(input, o) /\ ElementLength(parts, input, o) = ComparisonLength(input, o)
      BY <1>0, <2>2, Zenon DEF NextKind, ElementLength
    <3>2. At(input, o + 1) # Mark(";") /\ At(input, o + 2) # Mark(";")
      BY <3>1, NoSemicolon, Zenon DEF NextBegins
    <3> QED
      BY <3>1, <3>2, ClearComparison, Zenon
  <2> QED
    BY <1>4, <2>1, <2>2
<1> QED
  BY <1>1, <1>2, <1>3, <1>4

LEMMA StaysClear ==
  ASSUME NEW k \in 1 .. 4, NEW e \in 1 .. Len(ALL_PATTERNS[k]), e # Len(ALL_PATTERNS[k]),
         NEW input \in Seq(AnyToken), NEW o \in 0 .. Len(input), Clear(o, input),
         LengthAt(k, input, e, o) # 0
  PROVE  Clear(o + LengthAt(k, input, e, o), input)
<1>1. o \in Nat /\ Len(input) \in Nat
  BY LenProperties
<1>2. PICK parts : parts = ALL_PATTERNS[k][e].parts
  OBVIOUS
<1>3. \/ TokensKind(parts) \/ ChoiceKind(parts) \/ ColumnKind(parts)
      \/ WhereKind(parts) \/ NextKind(parts)
  BY <1>2, KindAt, Zenon
<1>4. PICK n : n = LengthAt(k, input, e, o)
  OBVIOUS
<1>5. n = ElementLength(parts, input, o) /\ n # 0
  BY <1>2, <1>4, Zenon DEF LengthAt
<1>6. n \in Nat
  BY <1>1, <1>3, <1>5, ElementInside, Zenon
<1>7. ClearTo(input, o, n)
  BY <1>1, <1>2, <1>3, <1>5, PlainBefore, ClearElement, Zenon
<1>8. Clear(o + n, input)
  BY <1>1, <1>6, <1>7, ClearOn, Zenon
<1> QED
  BY <1>4, <1>8, Zenon

(* The last element of a pattern is never optional.                        *)
LEMMA LastNeeded ==
  ASSUME NEW k \in 1 .. 4, NEW e \in 1 .. Len(ALL_PATTERNS[k]), ~ALL_PATTERNS[k][e].necessary
  PROVE  e # Len(ALL_PATTERNS[k])
<1>1. \/ k = 2 /\ e = 3
      \/ k = 3 /\ e \in {2, 4}
      \/ k = 4 /\ e \in {3, 5, 6}
  BY Optionals, Zenon
<1>2. CASE k = 2 /\ e = 3
  <2>1. 3 # 4
    OBVIOUS
  <2> QED
    BY <1>2, <2>1, PatternSizes, Zenon
<1>3. CASE k = 3 /\ e \in {2, 4}
  <2>1. e # 5
    BY <1>3
  <2> QED
    BY <1>3, <2>1, PatternSizes, Zenon
<1>4. CASE k = 4 /\ e \in {3, 5, 6}
  <2>1. e # 7
    BY <1>4
  <2> QED
    BY <1>4, <2>1, PatternSizes, Zenon
<1> QED
  BY <1>1, <1>2, <1>3, <1>4

(* Tokens of which none up to the end is a semicolon.                      *)
LEMMA NoneAtAll ==
  ASSUME NEW input \in Seq(AnyToken), NEW o \in Nat, Clear(o, input), Len(input) <= o
  PROVE  Mark(";") \notin Range(input)
<1>1. DOMAIN input = 1 .. Len(input) /\ Len(input) \in Nat
  BY LenProperties
<1>2. ASSUME NEW i \in 1 .. Len(input) PROVE input[i] # Mark(";")
  <2>1. i \in 1 .. o
    BY <1>1, <1>2
  <2>2. At(input, i) = input[i]
    BY <1>1, <1>2, Zenon DEF At
  <2> QED
    BY <2>1, <2>2, Zenon DEF Clear
<1> QED
  BY <1>1, <1>2, Zenon DEF Range

-----------------------------------------------------------------------------
(* What the constructors make of legal statements: the tree the user       *)
(* meant, or an exception, which a careful user avoids.                    *)
LEMMA TableBuilt ==
  ASSUME NEW tree \in Trees, IsTable(tree), NEW behind \in Seq(AnyWord),
         NEW input, input = Tokenize(Statement(tree) \o behind), input \in Seq(AnyToken), input # <<>>
  PROVE  CreateTableSql(input) = tree \/ (CreateTableSql(input) = Thrown /\ ~Careful(tree))
<1>1. TableTokens(input, tree) /\ Len(tree.columns) \in Nat \ {0}
  BY TableLies
<1>2. \/ CreateTableSql(input) = tree
      \/ /\ CreateTableSql(input) = Thrown
         /\ ~ \A c \in Range(tree.columns) : c.value_type \in ValueTypes
  BY <1>1, TableRead, Zenon
<1>3. tree.node = "CREATE_TABLE_NODE" /\ "CREATE_TABLE_NODE" # "CREATE_DATABASE_NODE"
  BY DEF IsTable
<1>4. Careful(tree) => \A c \in Range(tree.columns) : c.value_type \in ValueTypes
  BY <1>3, Zenon DEF Careful
<1> QED
  BY <1>2, <1>4, Zenon

LEMMA InsertBuilt ==
  ASSUME NEW tree \in Trees, IsInsert(tree), NEW behind \in Seq(AnyWord),
         NEW input, input = Tokenize(Statement(tree) \o behind), input \in Seq(AnyToken), input # <<>>
  PROVE  InsertIntoTableSql(input) = tree
<1>1. InsertTokens(input, tree)
  BY InsertLies
<1>2. /\ tree.columns \in Seq(Name) /\ tree.columns # <<>>
      /\ tree.values \in Seq(ValueText) /\ tree.values # <<>>
  BY Zenon DEF IsInsert
<1>3. /\ Len(tree.columns) \in Nat \ {0}
      /\ Len(tree.values) \in Nat \ {0}
  BY <1>2
<1> QED
  BY <1>1, <1>2, <1>3, InsertRead

LEMMA SelectBuilt ==
  ASSUME NEW tree \in Trees, IsSelect(tree), NEW behind \in Seq(AnyWord),
         NEW input, input = Tokenize(Statement(tree) \o behind), input \in Seq(AnyToken), input # <<>>
  PROVE  /\ SelectFromOneTableSql(input) = Thrown =>
              ~Careful(tree) \/ Len(input) # Len(Statement(tree))
         /\ Readable(tree) => SelectFromOneTableSql(input) \in {Thrown, tree}
<1>1. /\ SelectTokens(input, tree) /\ Len(tree.columns) \in Nat \ {0}
      /\ Len(Statement(tree)) = 3 + 2 * Len(tree.columns) + Len(Where(tree))
  BY SelectLies
<1>2. /\ tree.node = "SELECT_FROM_ONE_TABLE_NODE"
      /\ tree.compare_vector \in Seq([col : Name, condition : Comparators, compare_value : ValueText])
      /\ DOMAIN tree.compare_vector = 1 .. Len(tree.compare_vector) /\ Len(tree.compare_vector) \in Nat
  BY WhereIn, Zenon DEF IsSelect
<1>3. ASSUME \A k \in Range(tree.compare_vector) : k.condition # "!="
      PROVE  FirstPlain(tree) /\ AllPlain(tree)
  <2>2. AllPlain(tree)
    BY <1>2, <1>3, Zenon DEF AllPlain, Range
  <2>3. tree.compare_vector # <<>> => 1 \in 1 .. Len(tree.compare_vector)
    <3>1. tree.compare_vector # <<>> => Len(tree.compare_vector) # 0
      <4>1. PICK S : S = [col : Name, condition : Comparators, compare_value : ValueText]
        OBVIOUS
      <4>2. tree.compare_vector \in Seq(S)
        BY <1>2, <4>1, Zenon
      <4> QED
        BY <4>2
    <3> QED
      BY <1>2, <3>1
  <2> QED
    BY <2>2, <2>3, Zenon DEF AllPlain, FirstPlain
<1>4. Careful(tree) => \A k \in Range(tree.compare_vector) : k.condition # "!="
  <2>1. tree.node # "CREATE_DATABASE_NODE" /\ tree.node # "CREATE_TABLE_NODE"
        /\ tree.node # "INSERT_INTO_TABLE_NODE"
    BY <1>2
  <2> QED
    BY <1>2, <2>1, Zenon DEF Careful
<1>5. Readable(tree) => \A k \in Range(tree.compare_vector) : k.condition # "!="
  BY <1>2, Zenon DEF Readable
<1> QED
  BY <1>1, <1>3, <1>4, <1>5, SelectRead, Zenon

IsBuilt(tree, b, input) ==
  /\ b = Thrown => \/ ~Careful(tree)
                   \/ /\ tree.node = "SELECT_FROM_ONE_TABLE_NODE"
                      /\ Len(input) # Len(Statement(tree))
  /\ Readable(tree) => b \in {Thrown, tree}

LEMMA BuiltIs ==
  ASSUME NEW tree \in Trees, NEW behind \in Seq(AnyWord),
         NEW input, input = Tokenize(Statement(tree) \o behind), input \in Seq(AnyToken),
         NEW p, p.pattern \in 1 .. 4, CertainCheck(FirstTokens(p.pattern), input, 0)
  PROVE  IsBuilt(tree, BuildNode(input, NodeType(p)), input)
<1>1. PICK k : k = p.pattern
  OBVIOUS
<1>2. /\ input # <<>>
      /\ k = 1 => IsDatabase(tree)
      /\ k = 2 => IsTable(tree)
      /\ k = 3 => IsInsert(tree)
      /\ k = 4 => IsSelect(tree)
  BY <1>1, BeginningsTell
<1>3. p.pattern \in 1 .. 5 /\ (k = 1 \/ k = 2 \/ k = 3 \/ k = 4)
  BY <1>1
<1>4. CASE k = 1
  <2>1. BuildNode(input, NodeType(p)) = CreateDatabaseSql(input)
    BY <1>1, <1>3, <1>4, NodeTypes, NodesBuilt, Zenon
  <2>2. DatabaseTokens(input, tree)
    BY <1>2, <1>4, DatabaseLies
  <2>3. CreateDatabaseSql(input) = tree
    BY <1>2, <1>4, <2>2, DatabaseRead, Zenon
  <2>4. CreateDatabaseSql(input) # Thrown
    <3>1. "CREATE_DATABASE_NODE" # "THROWN"
      OBVIOUS
    <3> QED
      BY <3>1, NodesAre, Zenon
  <2> QED
    BY <2>1, <2>3, <2>4, Zenon DEF IsBuilt
<1>5. CASE k = 2
  <2>1. BuildNode(input, NodeType(p)) = CreateTableSql(input)
    BY <1>1, <1>3, <1>5, NodeTypes, NodesBuilt, Zenon
  <2>2. CreateTableSql(input) = tree \/ (CreateTableSql(input) = Thrown /\ ~Careful(tree))
    BY <1>2, <1>5, TableBuilt
  <2>3. tree # Thrown
    <3>1. "CREATE_TABLE_NODE" # "THROWN"
      OBVIOUS
    <3> QED
      BY <1>2, <1>5, <3>1, NodesAre, Zenon DEF IsTable
  <2> QED
    BY <2>1, <2>2, <2>3, Zenon DEF IsBuilt
<1>6. CASE k = 3
  <2>1. BuildNode(input, NodeType(p)) = InsertIntoTableSql(input)
    BY <1>1, <1>3, <1>6, NodeTypes, NodesBuilt, Zenon
  <2>3. InsertIntoTableSql(input) = tree
    BY <1>2, <1>6, InsertBuilt
  <2>4. InsertIntoTableSql(input) # Thrown
    <3>1. "INSERT_INTO_TABLE_NODE" # "THROWN"
      OBVIOUS
    <3> QED
      BY <3>1, NodesAre, Zenon
  <2> QED
    BY <2>1, <2>3, <2>4, Zenon DEF IsBuilt
<1>7. CASE k = 4
  <2>1. BuildNode(input, NodeType(p)) = SelectFromOneTableSql(input)
    BY <1>1, <1>3, <1>7, NodeTypes, NodesBuilt, Zenon
  <2>2. /\ SelectFromOneTableSql(input) = Thrown =>
              ~Careful(tree) \/ Len(input) # Len(Statement(tree))
        /\ Readable(tree) => SelectFromOneTableSql(input) \in {Thrown, tree}
    BY <1>2, <1>7, SelectBuilt
  <2>3. tree.node = "SELECT_FROM_ONE_TABLE_NODE"
    BY <1>2, <1>7, Zenon DEF IsSelect
  <2> QED
    BY <2>1, <2>2, <2>3, Zenon DEF IsBuilt
<1> QED
  BY <1>3, <1>4, <1>5, <1>6, <1>7

-----------------------------------------------------------------------------
(* Every legal statement is a sentence of its pattern: a way through the   *)
(* pattern, element by element, from the first token to the last one.      *)
OnWay(k, input, e, o) ==
  o \in 0 .. Len(input) /\ (Continues(k, input, e, o) => Derives(ALL_PATTERNS[k], input))

LEMMA WayBegins ==
  ASSUME NEW k, NEW input \in Seq(AnyToken)
  PROVE  OnWay(k, input, 1, 0)
<1>1. 0 \in 0 .. Len(input)
  BY LenProperties
<1> QED
  BY <1>1, DerivesIs, Zenon DEF OnWay

LEMMA WayNeeded ==
  ASSUME NEW k \in 1 .. 4, NEW input \in Seq(AnyToken), NEW e \in 1 .. Len(ALL_PATTERNS[k]), NEW o,
         OnWay(k, input, e, o), ALL_PATTERNS[k][e].necessary, NEW n, n # 0,
         LengthAt(k, input, e, o) = n
  PROVE  OnWay(k, input, e + 1, o + n)
<1>1. o \in 0 .. Len(input) /\ Len(input) \in Nat
  BY LenProperties, Zenon DEF OnWay
<1>2. o + n \in o + 1 .. Len(input)
  BY <1>1, EndsHere, Zenon
<1>3. o + n \in 0 .. Len(input)
  <2>1. PICK m : m = o + n
    OBVIOUS
  <2>2. m \in 0 .. Len(input)
    BY <1>1, <1>2, <2>1
  <2> QED
    BY <2>1, <2>2, Zenon
<1>4. Continues(k, input, e + 1, o + n) => Continues(k, input, e, o)
  BY <1>1, ContinuesNeeded, Zenon
<1> QED
  BY <1>3, <1>4, Zenon DEF OnWay

LEMMA WayTakes ==
  ASSUME NEW k \in 1 .. 4, NEW input \in Seq(AnyToken), NEW e \in 1 .. Len(ALL_PATTERNS[k]), NEW o,
         OnWay(k, input, e, o), ~ALL_PATTERNS[k][e].necessary, NEW n, n # 0,
         LengthAt(k, input, e, o) = n
  PROVE  OnWay(k, input, e, o + n)
<1>1. o \in 0 .. Len(input) /\ Len(input) \in Nat
  BY LenProperties, Zenon DEF OnWay
<1>2. o + n \in o + 1 .. Len(input)
  BY <1>1, EndsHere, Zenon
<1>3. o + n \in 0 .. Len(input)
  <2>1. PICK m : m = o + n
    OBVIOUS
  <2>2. m \in 0 .. Len(input)
    BY <1>1, <1>2, <2>1
  <2> QED
    BY <2>1, <2>2, Zenon
<1>4. Continues(k, input, e, o + n) => Continues(k, input, e, o)
  BY <1>1, ContinuesOptional, Zenon
<1> QED
  BY <1>3, <1>4, Zenon DEF OnWay

LEMMA WaySkips ==
  ASSUME NEW k \in 1 .. 4, NEW input \in Seq(AnyToken), NEW e \in 1 .. Len(ALL_PATTERNS[k]), NEW o,
         OnWay(k, input, e, o), ~ALL_PATTERNS[k][e].necessary
  PROVE  OnWay(k, input, e + 1, o)
<1>1. o \in 0 .. Len(input)
  BY Zenon DEF OnWay
<1>2. Continues(k, input, e + 1, o) => Continues(k, input, e, o)
  BY <1>1, ContinuesOptional, Zenon
<1> QED
  BY <1>1, <1>2, Zenon DEF OnWay

LEMMA WayEnds ==
  ASSUME NEW k \in 1 .. 4, NEW input \in Seq(AnyToken), NEW e, e = Len(ALL_PATTERNS[k]) + 1, NEW o,
         OnWay(k, input, e, o)
  PROVE  Derives(ALL_PATTERNS[k], input)
<1>1. o \in 0 .. Len(input)
  BY Zenon DEF OnWay
<1>2. e \in 1 .. Len(ALL_PATTERNS[k]) + 1 /\ e > Len(ALL_PATTERNS[k])
  BY PatternLengths
<1>3. Continues(k, input, e, o)
  BY <1>1, <1>2, Continuing, Zenon
<1> QED
  BY <1>3, Zenon DEF OnWay

(* A list: an optional element, again and again.                           *)
LEMMA WayAlong ==
  ASSUME NEW k \in 1 .. 4, NEW input \in Seq(AnyToken), NEW e \in 1 .. Len(ALL_PATTERNS[k]),
         ~ALL_PATTERNS[k][e].necessary, NEW n \in Nat, NEW place, OnWay(k, input, e, place[0]),
         \A i \in Nat : i < n => /\ LengthAt(k, input, e, place[i]) # 0
                                 /\ place[i + 1] = place[i] + LengthAt(k, input, e, place[i])
  PROVE  OnWay(k, input, e, place[n])
<1> DEFINE T == {i \in Nat : i <= n => OnWay(k, input, e, place[i])}
<1>1. 0 \in T
  OBVIOUS
<1>2. ASSUME NEW i \in Nat, i \in T PROVE i + 1 \in T
  <2> SUFFICES ASSUME i + 1 <= n PROVE OnWay(k, input, e, place[i + 1])
    OBVIOUS
  <2>1. i < n /\ i <= n
    BY <1>2
  <2>2. OnWay(k, input, e, place[i])
    BY <1>2, <2>1
  <2> HIDE DEF T
  <2>3. OnWay(k, input, e, place[i] + LengthAt(k, input, e, place[i]))
    BY <1>2, <2>1, <2>2, WayTakes, Zenon
  <2> QED
    BY <1>2, <2>1, <2>3, Zenon
<1> HIDE DEF T
<1>3. Nat \subseteq T
  BY <1>1, <1>2, NatInd
<1> QED
  BY <1>3 DEF T

-----------------------------------------------------------------------------
(* What the elements take, where their tokens are.                         *)
LEMMA TokensHere ==
  ASSUME NEW t, NEW input, NEW o, NEW parts, Len(parts) = 1, IsCertain(parts[1], t),
         CertainCheck(t, input, o)
  PROVE  ElementLength(parts, input, o) = Len(t)
<1>1. parts[1].range = Empty /\ parts[1].templates = t
  BY CertainOf, Zenon
<1>2. ElementLength(parts, input, o) = TokensLength(parts[1], input, o)
  BY <1>1, Zenon DEF ElementLength
<1> QED
  BY <1>1, <1>2, Zenon DEF TokensLength

LEMMA TokensLengthAt ==
  ASSUME NEW t, NEW input, NEW o, NEW k, NEW e, ALL_PATTERNS[k][e] = Tokens(t),
         CertainCheck(t, input, o)
  PROVE  LengthAt(k, input, e, o) = Len(t)
<1>1. PICK parts : parts = Tokens(t).parts
  OBVIOUS
<1>2. Len(parts) = 1 /\ IsCertain(parts[1], t)
  BY <1>1, TokensParts, Zenon
<1>3. ElementLength(parts, input, o) = Len(t)
  BY <1>2, TokensHere, Zenon
<1> QED
  BY <1>1, <1>3, Zenon DEF LengthAt

LEMMA FiveHere ==
  ASSUME NEW input, NEW o, NEW x, NEW y, At(input, o + 1) = Keyword(x), At(input, o + 2) = Keyword(y),
         At(input, o + 3).type = "IDENTIFIER_T", At(input, o + 4) = Mark("("),
         At(input, o + 5).type = "IDENTIFIER_T"
  PROVE  CertainCheck(<<Keyword(x), Keyword(y), AnyIdentifier, Mark("("), AnyIdentifier>>, input, o)
<1>1. Fits(Keyword(x), At(input, o + 1))
  BY FitsWhat, Zenon
<1>2. Fits(Keyword(y), At(input, o + 2))
  BY FitsWhat, Zenon
<1>3. Fits(AnyIdentifier, At(input, o + 3))
  BY FitsWhat, Zenon
<1>4. Fits(Mark("("), At(input, o + 4))
  BY FitsWhat, Zenon
<1>5. Fits(AnyIdentifier, At(input, o + 5))
  BY FitsWhat, Zenon
<1> QED
  BY <1>1, <1>2, <1>3, <1>4, <1>5, Check5, Zenon

LEMMA Lengths45 ==
  /\ \A a, b, c, d : Len(<<a, b, c, d>>) = 4
  /\ \A a, b, c, d, e : Len(<<a, b, c, d, e>>) = 5
OBVIOUS

LEMMA FirstOnes ==
  ASSUME NEW input, NEW o
  PROVE  /\ /\ At(input, o + 1) = Keyword("CREATE") /\ At(input, o + 2) = Keyword("DATABASE")
            /\ At(input, o + 3).type = "IDENTIFIER_T" /\ At(input, o + 4) = Mark(";")
            => LengthAt(1, input, 1, o) = 4
         /\ /\ At(input, o + 1) = Keyword("CREATE") /\ At(input, o + 2) = Keyword("TABLE")
            /\ At(input, o + 3).type = "IDENTIFIER_T" /\ At(input, o + 4) = Mark("(")
            /\ At(input, o + 5).type = "IDENTIFIER_T"
            => LengthAt(2, input, 1, o) = 5
         /\ /\ At(input, o + 1) = Keyword("INSERT") /\ At(input, o + 2) = Keyword("INTO")
            /\ At(input, o + 3).type = "IDENTIFIER_T" /\ At(input, o + 4) = Mark("(")
            /\ At(input, o + 5).type = "IDENTIFIER_T"
            => LengthAt(3, input, 1, o) = 5
         /\ At(input, o + 1) = Keyword("SELECT") => LengthAt(4, input, 1, o) = 1
<1>1. ASSUME At(input, o + 1) = Keyword("CREATE"), At(input, o + 2) = Keyword("DATABASE"),
             At(input, o + 3).type = "IDENTIFIER_T", At(input, o + 4) = Mark(";")
      PROVE  LengthAt(1, input, 1, o) = 4
  <2>1. PICK t : t = <<Keyword("CREATE"), Keyword("DATABASE"), AnyIdentifier, Mark(";")>>
    OBVIOUS
  <2>2. CertainCheck(t, input, o)
    BY <1>1, <2>1, FitsWhat, Check4, ZenonT(60)
  <2>3. Len(t) = 4 /\ ALL_PATTERNS[1][1] = Tokens(t)
    BY <2>1, Lengths45, PatternsAre, Pattern1, Zenon
  <2> QED
    BY <2>2, <2>3, TokensLengthAt, Zenon
<1>2. ASSUME At(input, o + 1) = Keyword("CREATE"), At(input, o + 2) = Keyword("TABLE"),
             At(input, o + 3).type = "IDENTIFIER_T", At(input, o + 4) = Mark("("),
             At(input, o + 5).type = "IDENTIFIER_T"
      PROVE  LengthAt(2, input, 1, o) = 5
  <2>1. PICK t : t = <<Keyword("CREATE"), Keyword("TABLE"), AnyIdentifier, Mark("("), AnyIdentifier>>
    OBVIOUS
  <2>2. CertainCheck(t, input, o)
    BY <1>2, <2>1, FiveHere, Zenon
  <2>3. Len(t) = 5 /\ ALL_PATTERNS[2][1] = Tokens(t)
    BY <2>1, Lengths45, PatternsAre, Pattern2, Zenon
  <2> QED
    BY <2>2, <2>3, TokensLengthAt, Zenon
<1>3. ASSUME At(input, o + 1) = Keyword("INSERT"), At(input, o + 2) = Keyword("INTO"),
             At(input, o + 3).type = "IDENTIFIER_T", At(input, o + 4) = Mark("("),
             At(input, o + 5).type = "IDENTIFIER_T"
      PROVE  LengthAt(3, input, 1, o) = 5
  <2>1. PICK t : t = <<Keyword("INSERT"), Keyword("INTO"), AnyIdentifier, Mark("("), AnyIdentifier>>
    OBVIOUS
  <2>2. CertainCheck(t, input, o)
    BY <1>3, <2>1, FiveHere, Zenon
  <2>3. Len(t) = 5 /\ ALL_PATTERNS[3][1] = Tokens(t)
    BY <2>1, Lengths45, PatternsAre, Pattern3, Zenon
  <2> QED
    BY <2>2, <2>3, TokensLengthAt, Zenon
<1>4. ASSUME At(input, o + 1) = Keyword("SELECT") PROVE LengthAt(4, input, 1, o) = 1
  <2>1. PICK t : t = <<Keyword("SELECT")>>
    OBVIOUS
  <2>2. CertainCheck(t, input, o)
    BY <1>4, <2>1, FitsWhat, Check1, Zenon
  <2>3. Len(t) = 1 /\ ALL_PATTERNS[4][1] = Tokens(t)
    BY <2>1, Lengths1, PatternsAre, Pattern4, Zenon
  <2> QED
    BY <2>2, <2>3, TokensLengthAt, Zenon
<1> QED
  BY <1>1, <1>2, <1>3, <1>4

LEMMA LaterOnes ==
  ASSUME NEW input, NEW o
  PROVE  /\ At(input, o + 1) = Mark(")") /\ At(input, o + 2) = Mark(";")
            => LengthAt(2, input, 4, o) = 2 /\ LengthAt(3, input, 5, o) = 2
         /\ /\ At(input, o + 1) = Mark(")") /\ At(input, o + 2) = Keyword("VALUES")
            /\ At(input, o + 3) = Mark("(") /\ IsValue(At(input, o + 4))
            => LengthAt(3, input, 3, o) = 4
         /\ At(input, o + 1) = Keyword("FROM") /\ At(input, o + 2).type = "IDENTIFIER_T"
            => LengthAt(4, input, 4, o) = 2
         /\ At(input, o + 1) = Mark(";") => LengthAt(4, input, 7, o) = 1
<1>1. ASSUME At(input, o + 1) = Mark(")"), At(input, o + 2) = Mark(";")
      PROVE  LengthAt(2, input, 4, o) = 2 /\ LengthAt(3, input, 5, o) = 2
  <2>1. PICK t : t = <<Mark(")"), Mark(";")>>
    OBVIOUS
  <2>2. CertainCheck(t, input, o)
    BY <1>1, <2>1, FitsWhat, Check2, Zenon
  <2>3. Len(t) = 2 /\ ALL_PATTERNS[2][4] = Tokens(t) /\ ALL_PATTERNS[3][5] = Tokens(t)
    BY <2>1, Lengths2, PatternsAre, Pattern2, Pattern3, Zenon
  <2> QED
    BY <2>2, <2>3, TokensLengthAt, Zenon
<1>2. ASSUME At(input, o + 1) = Mark(")"), At(input, o + 2) = Keyword("VALUES"),
             At(input, o + 3) = Mark("("), IsValue(At(input, o + 4))
      PROVE  LengthAt(3, input, 3, o) = 4
  <2>1. PICK t : t = <<Mark(")"), Keyword("VALUES"), Mark("("), AnyValue>>
    OBVIOUS
  <2>2. CertainCheck(t, input, o)
    BY <1>2, <2>1, FitsWhat, Check4, ZenonT(60)
  <2>3. Len(t) = 4 /\ ALL_PATTERNS[3][3] = Tokens(t)
    BY <2>1, Lengths45, PatternsAre, Pattern3, Zenon
  <2> QED
    BY <2>2, <2>3, TokensLengthAt, Zenon
<1>3. ASSUME At(input, o + 1) = Keyword("FROM"), At(input, o + 2).type = "IDENTIFIER_T"
      PROVE  LengthAt(4, input, 4, o) = 2
  <2>1. PICK t : t = <<Keyword("FROM"), AnyIdentifier>>
    OBVIOUS
  <2>2. CertainCheck(t, input, o)
    BY <1>3, <2>1, FitsWhat, Check2, Zenon
  <2>3. Len(t) = 2 /\ ALL_PATTERNS[4][4] = Tokens(t)
    BY <2>1, Lengths2, PatternsAre, Pattern4, Zenon
  <2> QED
    BY <2>2, <2>3, TokensLengthAt, Zenon
<1>4. ASSUME At(input, o + 1) = Mark(";") PROVE LengthAt(4, input, 7, o) = 1
  <2>1. PICK t : t = <<Mark(";")>>
    OBVIOUS
  <2>2. CertainCheck(t, input, o)
    BY <1>4, <2>1, FitsWhat, Check1, Zenon
  <2>3. Len(t) = 1 /\ ALL_PATTERNS[4][7] = Tokens(t)
    BY <2>1, Lengths1, PatternsAre, Pattern4, Zenon
  <2> QED
    BY <2>2, <2>3, TokensLengthAt, Zenon
<1> QED
  BY <1>1, <1>2, <1>3, <1>4

LEMMA ListedOnes ==
  ASSUME NEW input, NEW o
  PROVE  /\ At(input, o + 1) = Mark(",") /\ At(input, o + 2).type = "IDENTIFIER_T"
            => LengthAt(3, input, 2, o) = 2 /\ LengthAt(4, input, 3, o) = 2
         /\ At(input, o + 1) = Mark(",") /\ IsValue(At(input, o + 2)) => LengthAt(3, input, 4, o) = 2
         /\ /\ At(input, o + 1) = Mark(",") /\ At(input, o + 2).type = "IDENTIFIER_T"
            /\ IsType(At(input, o + 3))
            => LengthAt(2, input, 3, o) = 3
         /\ IsType(At(input, o + 1)) => LengthAt(2, input, 2, o) = 1
         /\ IsColumn(At(input, o + 1)) => LengthAt(4, input, 2, o) = 1
<1>1. ASSUME At(input, o + 1) = Mark(","), At(input, o + 2).type = "IDENTIFIER_T"
      PROVE  LengthAt(3, input, 2, o) = 2 /\ LengthAt(4, input, 3, o) = 2
  <2>1. PICK t : t = <<Mark(","), AnyIdentifier>>
    OBVIOUS
  <2>2. CertainCheck(t, input, o)
    BY <1>1, <2>1, FitsWhat, Check2, Zenon
  <2>3. Len(t) = 2 /\ ALL_PATTERNS[3][2] = NEXT_ID /\ ALL_PATTERNS[4][3] = NEXT_ID
    BY <2>1, Lengths2, PatternsAre, Pattern3, Pattern4, Zenon
  <2>5. Len(NEXT_ID.parts) = 1 /\ IsCertain(NEXT_ID.parts[1], t)
    BY <2>1, ListParts, Zenon
  <2>4. ElementLength(NEXT_ID.parts, input, o) = 2
    BY <2>1, <2>2, <2>3, <2>5, TokensHere, ZenonT(60)
  <2> QED
    BY <2>3, <2>4, Zenon DEF LengthAt
<1>2. ASSUME At(input, o + 1) = Mark(","), IsValue(At(input, o + 2))
      PROVE  LengthAt(3, input, 4, o) = 2
  <2>1. PICK t : t = <<Mark(","), AnyValue>>
    OBVIOUS
  <2>2. CertainCheck(t, input, o)
    BY <1>2, <2>1, FitsWhat, Check2, Zenon
  <2>3. Len(t) = 2 /\ ALL_PATTERNS[3][4] = NEXT_VALUE
    BY <2>1, Lengths2, PatternsAre, Pattern3, Zenon
  <2>5. Len(NEXT_VALUE.parts) = 1 /\ IsCertain(NEXT_VALUE.parts[1], t)
    BY <2>1, ListParts, Zenon
  <2>4. ElementLength(NEXT_VALUE.parts, input, o) = 2
    BY <2>1, <2>2, <2>3, <2>5, TokensHere, ZenonT(60)
  <2> QED
    BY <2>3, <2>4, Zenon DEF LengthAt
<1>3. ASSUME At(input, o + 1) = Mark(","), At(input, o + 2).type = "IDENTIFIER_T",
             IsType(At(input, o + 3))
      PROVE  LengthAt(2, input, 3, o) = 3
  <2>0. 2 # 1
    OBVIOUS
  <2>1. ALL_PATTERNS[2][3] = NEXT_COLUMN /\ 2 # 1
    BY <2>0, PatternsAre, Pattern2, Zenon
  <2>2. ElementLength(NEXT_COLUMN.parts, input, o) = ColumnLength(input, o)
    BY <2>1, TypeParts, Zenon DEF ElementLength
  <2> QED
    BY <1>3, <2>1, <2>2, Zenon DEF LengthAt, ColumnLength
<1>4. "VALUE_TYPE" # Empty /\ "FIRST_COL" # Empty /\ "FIRST_COL" # "VALUE_TYPE"
  BY RangesNamed, RangeNames
<1>5. ASSUME IsType(At(input, o + 1)) PROVE LengthAt(2, input, 2, o) = 1
  <2>1. ALL_PATTERNS[2][2] = VALUE_TYPE
    BY PatternsAre, Pattern2, Zenon
  <2>2. ElementLength(VALUE_TYPE.parts, input, o) = ChoiceLength(VALUE_TYPE.parts[1], input, o)
    BY <1>4, TypeParts, Zenon DEF ElementLength, IsRange
  <2> QED
    BY <1>5, <2>1, <2>2, TypeParts, Zenon DEF LengthAt, ChoiceLength, IsRange
<1>6. ASSUME IsColumn(At(input, o + 1)) PROVE LengthAt(4, input, 2, o) = 1
  <2>1. ALL_PATTERNS[4][2] = FIRST_COL
    BY PatternsAre, Pattern4, Zenon
  <2>2. ElementLength(FIRST_COL.parts, input, o) = ChoiceLength(FIRST_COL.parts[1], input, o)
    BY <1>4, FirstColParts, Zenon DEF ElementLength, IsRange
  <2> QED
    BY <1>4, <1>6, <2>1, <2>2, FirstColParts, Zenon DEF LengthAt, ChoiceLength, IsRange
<1> QED
  BY <1>1, <1>2, <1>3, <1>5, <1>6

LEMMA WayByTwo ==
  ASSUME NEW k \in 1 .. 4, NEW input \in Seq(AnyToken), NEW e \in 1 .. Len(ALL_PATTERNS[k]),
         ~ALL_PATTERNS[k][e].necessary, NEW n \in Nat \ {0}, NEW from \in Nat,
         OnWay(k, input, e, from),
         \A i \in Nat : i + 1 < n => LengthAt(k, input, e, from + 2 * i) = 2
  PROVE  OnWay(k, input, e, from + 2 * n - 2)
<1>1. PICK m \in Nat : n = m + 1
  <2>1. n - 1 \in Nat /\ n = (n - 1) + 1
    OBVIOUS
  <2> QED
    BY <2>1
<1>2. PICK place : place = [i \in Nat |-> from + 2 * i]
  OBVIOUS
<1>3. place[0] = from /\ place[m] = from + 2 * n - 2
  BY <1>1, <1>2
<1>4. ASSUME NEW i \in Nat, i < m
      PROVE  /\ LengthAt(k, input, e, place[i]) # 0
             /\ place[i + 1] = place[i] + LengthAt(k, input, e, place[i])
  <2>1. place[i] = from + 2 * i /\ place[i + 1] = place[i] + 2 /\ i + 1 < n /\ 2 # 0
    BY <1>1, <1>2, <1>4
  <2>2. LengthAt(k, input, e, place[i]) = 2
    BY <2>1, Zenon
  <2> QED
    BY <2>1, <2>2, Zenon
<1>5. OnWay(k, input, e, place[0])
  BY <1>3, Zenon
<1>6. OnWay(k, input, e, place[m])
  BY <1>1, <1>4, <1>5, WayAlong, Zenon
<1> QED
  BY <1>3, <1>6, Zenon

LEMMA WayByThree ==
  ASSUME NEW k \in 1 .. 4, NEW input \in Seq(AnyToken), NEW e \in 1 .. Len(ALL_PATTERNS[k]),
         ~ALL_PATTERNS[k][e].necessary, NEW n \in Nat \ {0}, NEW from \in Nat,
         OnWay(k, input, e, from),
         \A i \in Nat : i + 1 < n => LengthAt(k, input, e, from + 3 * i) = 3
  PROVE  OnWay(k, input, e, from + 3 * n - 3)
<1>1. PICK m \in Nat : n = m + 1
  <2>1. n - 1 \in Nat /\ n = (n - 1) + 1
    OBVIOUS
  <2> QED
    BY <2>1
<1>2. PICK place : place = [i \in Nat |-> from + 3 * i]
  OBVIOUS
<1>3. place[0] = from /\ place[m] = from + 3 * n - 3
  BY <1>1, <1>2
<1>4. ASSUME NEW i \in Nat, i < m
      PROVE  /\ LengthAt(k, input, e, place[i]) # 0
             /\ place[i + 1] = place[i] + LengthAt(k, input, e, place[i])
  <2>1. place[i] = from + 3 * i /\ place[i + 1] = place[i] + 3 /\ i + 1 < n /\ 3 # 0
    BY <1>1, <1>2, <1>4
  <2>2. LengthAt(k, input, e, place[i]) = 3
    BY <2>1, Zenon
  <2> QED
    BY <2>1, <2>2, Zenon
<1>5. OnWay(k, input, e, place[0])
  BY <1>3, Zenon
<1>6. OnWay(k, input, e, place[m])
  BY <1>1, <1>4, <1>5, WayAlong, Zenon
<1> QED
  BY <1>3, <1>6, Zenon

(* Where which elements are, and what kinds of tokens there are.           *)
LEMMA Elements ==
  /\ 1 \in 1 .. 4 /\ 2 \in 1 .. 4 /\ 3 \in 1 .. 4 /\ 4 \in 1 .. 4
  /\ 1 \in 1 .. Len(ALL_PATTERNS[1]) /\ ALL_PATTERNS[1][1].necessary
  /\ 1 \in 1 .. Len(ALL_PATTERNS[2]) /\ ALL_PATTERNS[2][1].necessary
  /\ 2 \in 1 .. Len(ALL_PATTERNS[2]) /\ ALL_PATTERNS[2][2].necessary
  /\ 3 \in 1 .. Len(ALL_PATTERNS[2]) /\ ~ALL_PATTERNS[2][3].necessary
  /\ 4 \in 1 .. Len(ALL_PATTERNS[2]) /\ ALL_PATTERNS[2][4].necessary
  /\ 1 \in 1 .. Len(ALL_PATTERNS[3]) /\ ALL_PATTERNS[3][1].necessary
  /\ 2 \in 1 .. Len(ALL_PATTERNS[3]) /\ ~ALL_PATTERNS[3][2].necessary
  /\ 3 \in 1 .. Len(ALL_PATTERNS[3]) /\ ALL_PATTERNS[3][3].necessary
  /\ 4 \in 1 .. Len(ALL_PATTERNS[3]) /\ ~ALL_PATTERNS[3][4].necessary
  /\ 5 \in 1 .. Len(ALL_PATTERNS[3]) /\ ALL_PATTERNS[3][5].necessary
  /\ 1 \in 1 .. Len(ALL_PATTERNS[4]) /\ ALL_PATTERNS[4][1].necessary
  /\ 2 \in 1 .. Len(ALL_PATTERNS[4]) /\ ALL_PATTERNS[4][2].necessary
  /\ 3 \in 1 .. Len(ALL_PATTERNS[4]) /\ ~ALL_PATTERNS[4][3].necessary
  /\ 4 \in 1 .. Len(ALL_PATTERNS[4]) /\ ALL_PATTERNS[4][4].necessary
  /\ 5 \in 1 .. Len(ALL_PATTERNS[4]) /\ ~ALL_PATTERNS[4][5].necessary
  /\ 6 \in 1 .. Len(ALL_PATTERNS[4]) /\ ~ALL_PATTERNS[4][6].necessary
  /\ 7 \in 1 .. Len(ALL_PATTERNS[4]) /\ ALL_PATTERNS[4][7].necessary
<1>1. /\ 1 \in 1 .. 4 /\ 2 \in 1 .. 4 /\ 3 \in 1 .. 4 /\ 4 \in 1 .. 4 /\ 1 \in 1 .. 1
      /\ 1 \in 1 .. 5 /\ 2 \in 1 .. 5 /\ 3 \in 1 .. 5 /\ 4 \in 1 .. 5 /\ 5 \in 1 .. 5
      /\ 1 \in 1 .. 7 /\ 2 \in 1 .. 7 /\ 3 \in 1 .. 7 /\ 4 \in 1 .. 7 /\ 5 \in 1 .. 7
      /\ 6 \in 1 .. 7 /\ 7 \in 1 .. 7
  OBVIOUS
<1>2. \A t : Tokens(t).necessary
  BY TokensParts, Zenon
<1>3. /\ VALUE_TYPE.necessary /\ FIRST_COL.necessary /\ ~NEXT_COLUMN.necessary /\ ~NEXT_ID.necessary
      /\ ~NEXT_VALUE.necessary
  BY TypeParts, FirstColParts, ListParts, Zenon
<1>4. ALL_PATTERNS[1][1].necessary
  BY <1>2, PatternsAre, Pattern1, Zenon
<1>5. ALL_PATTERNS[2][1].necessary /\ ALL_PATTERNS[2][2].necessary /\ ~ALL_PATTERNS[2][3].necessary
  BY <1>2, <1>3, PatternsAre, Pattern2, Zenon
<1>6. ALL_PATTERNS[3][1].necessary /\ ~ALL_PATTERNS[3][2].necessary /\ ~ALL_PATTERNS[3][4].necessary
  BY <1>2, <1>3, PatternsAre, Pattern3, Zenon
<1>7. ALL_PATTERNS[4][1].necessary /\ ALL_PATTERNS[4][2].necessary /\ ~ALL_PATTERNS[4][3].necessary
  BY <1>2, <1>3, PatternsAre, Pattern4, Zenon
<1> QED
  BY <1>1, <1>4, <1>5, <1>6, <1>7, NeededHere, PatternSizes, Zenon

LEMMA TypesOfTokens ==
  /\ \A t : Identifier(t).type = "IDENTIFIER_T"
  /\ \A t : IsType(Keyword(t)) /\ IsConnective(Keyword(t))
  /\ \A t : IsColumn(Identifier(t))
  /\ IsColumn(Mark("*"))
BY DEF Identifier, Keyword, Token, IsType, IsConnective, IsColumn

LEMMA AtPlaces ==
  ASSUME NEW input \in Seq(AnyToken)
  PROVE  \A i \in 1 .. Len(input) : At(input, i) = input[i]
BY LenProperties, Zenon DEF At

LEMMA DatabaseDerives ==
  ASSUME NEW tree, NEW input \in Seq(AnyToken), DatabaseTokens(input, tree), 4 <= Len(input)
  PROVE  Derives(ALL_PATTERNS[1], input)
<1>1. Len(input) \in Nat
  BY LenProperties
<1>2. 1 \in 1 .. Len(input) /\ 2 \in 1 .. Len(input) /\ 3 \in 1 .. Len(input) /\ 4 \in 1 .. Len(input)
  BY <1>1
<1>3. /\ At(input, 1) = Keyword("CREATE") /\ At(input, 2) = Keyword("DATABASE")
      /\ At(input, 3).type = "IDENTIFIER_T" /\ At(input, 4) = Mark(";")
  BY <1>2, AtPlaces, TypesOfTokens, Zenon DEF DatabaseTokens
<1>4. 0 + 1 = 1 /\ 0 + 2 = 2 /\ 0 + 3 = 3 /\ 0 + 4 = 4 /\ 4 # 0 /\ 1 + 1 = 2
  OBVIOUS
<1>5. LengthAt(1, input, 1, 0) = 4
  BY <1>3, <1>4, FirstOnes, Zenon
<1>6. OnWay(1, input, 2, 4)
  BY <1>4, <1>5, WayBegins, WayNeeded, Elements, Zenon
<1> QED
  BY <1>4, <1>6, WayEnds, Elements, PatternSizes, Zenon

LEMMA TableNumbers ==
  ASSUME NEW n \in Nat \ {0}, NEW l \in Nat, l >= 5 + 3 * n
  PROVE  /\ \A i \in 1 .. 6 : i \in 1 .. l
         /\ 4 + 3 * n \in 1 .. l /\ 5 + 3 * n \in 1 .. l
         /\ \A i \in Nat : i + 1 < n =>
              /\ i + 1 \in 1 .. n - 1 /\ i + 2 \in 1 .. n
              /\ 5 - 1 + 3 * (i + 1) = (6 + 3 * i) + 1
              /\ 5 - 1 + (3 * (i + 2) - 2) = (6 + 3 * i) + 2
              /\ 5 - 1 + (3 * (i + 2) - 1) = (6 + 3 * i) + 3
              /\ (6 + 3 * i) + 1 \in 1 .. l /\ (6 + 3 * i) + 2 \in 1 .. l
              /\ (6 + 3 * i) + 3 \in 1 .. l
OBVIOUS

LEMMA TableDerives ==
  ASSUME NEW tree, NEW input \in Seq(AnyToken), TableTokens(input, tree),
         Len(tree.columns) \in Nat \ {0}
  PROVE  Derives(ALL_PATTERNS[2], input)
<1>1. PICK n \in Nat \ {0} : n = Len(tree.columns)
  OBVIOUS
<1>2. /\ Len(input) >= 5 + 3 * n
      /\ input[1] = Keyword("CREATE") /\ input[2] = Keyword("TABLE")
      /\ input[3] = Identifier(tree.table_name) /\ input[4] = Mark("(")
      /\ ColumnTokens(input, 5, tree.columns)
      /\ input[4 + 3 * n] = Mark(")") /\ input[5 + 3 * n] = Mark(";")
  BY <1>1, Zenon DEF TableTokens
<1>3. Len(input) \in Nat
  BY LenProperties
<1>4. /\ \A i \in 1 .. n :
           /\ input[5 - 1 + (3 * i - 2)] = Identifier(tree.columns[i].col_name)
           /\ input[5 - 1 + (3 * i - 1)] = Keyword(tree.columns[i].value_type)
      /\ \A i \in 1 .. n - 1 : input[5 - 1 + 3 * i] = Mark(",")
  BY <1>1, <1>2, Zenon DEF ColumnTokens
<1>5. /\ \A i \in 1 .. 6 : i \in 1 .. Len(input)
      /\ 4 + 3 * n \in 1 .. Len(input) /\ 5 + 3 * n \in 1 .. Len(input)
  BY <1>2, <1>3, TableNumbers, Zenon
<1>6. /\ 1 \in 1 .. 6 /\ 2 \in 1 .. 6 /\ 3 \in 1 .. 6 /\ 4 \in 1 .. 6 /\ 5 \in 1 .. 6 /\ 6 \in 1 .. 6
      /\ 1 \in 1 .. n /\ 5 - 1 + (3 * 1 - 2) = 5 /\ 5 - 1 + (3 * 1 - 1) = 6
  OBVIOUS
<1>7. /\ At(input, 1) = Keyword("CREATE") /\ At(input, 2) = Keyword("TABLE")
      /\ At(input, 3).type = "IDENTIFIER_T" /\ At(input, 4) = Mark("(")
      /\ At(input, 5).type = "IDENTIFIER_T" /\ IsType(At(input, 6))
  <2>1. input[5] = Identifier(tree.columns[1].col_name) /\ input[6] = Keyword(tree.columns[1].value_type)
    BY <1>4, <1>6, Zenon
  <2>2. At(input, 1) = Keyword("CREATE") /\ At(input, 2) = Keyword("TABLE")
    BY <1>2, <1>5, <1>6, AtPlaces, Zenon
  <2>3. At(input, 3) = Identifier(tree.table_name) /\ At(input, 4) = Mark("(")
    BY <1>2, <1>5, <1>6, AtPlaces, Zenon
  <2>4. At(input, 5) = Identifier(tree.columns[1].col_name)
    BY <2>1, <1>5, <1>6, AtPlaces, Zenon
  <2>5. At(input, 6) = Keyword(tree.columns[1].value_type)
    BY <2>1, <1>5, <1>6, AtPlaces, Zenon
  <2> QED
    BY <2>2, <2>3, <2>4, <2>5, TypesOfTokens, Zenon
<1>8. /\ 0 + 1 = 1 /\ 0 + 2 = 2 /\ 0 + 3 = 3 /\ 0 + 4 = 4 /\ 0 + 5 = 5 /\ 5 + 1 = 6 /\ 1 + 1 = 2
      /\ 2 + 1 = 3 /\ 3 + 1 = 4 /\ 4 + 1 = 5 /\ 5 # 0 /\ 1 # 0 /\ 2 # 0
  OBVIOUS
<1>9. OnWay(2, input, 2, 5)
  <2>1. LengthAt(2, input, 1, 0) = 5
    BY <1>7, <1>8, FirstOnes, Zenon
  <2> QED
    BY <1>8, <2>1, WayBegins, WayNeeded, Elements, ZenonT(60)
<1>10. OnWay(2, input, 3, 6)
  <2>1. LengthAt(2, input, 2, 5) = 1
    BY <1>7, <1>8, ListedOnes, Zenon
  <2> QED
    BY <1>8, <1>9, <2>1, WayNeeded, Elements, ZenonT(60)
<1>11. ASSUME NEW i \in Nat, i + 1 < n PROVE LengthAt(2, input, 3, 6 + 3 * i) = 3
  <2>1. /\ i + 1 \in 1 .. n - 1 /\ i + 2 \in 1 .. n
        /\ 5 - 1 + 3 * (i + 1) = (6 + 3 * i) + 1
        /\ 5 - 1 + (3 * (i + 2) - 2) = (6 + 3 * i) + 2
        /\ 5 - 1 + (3 * (i + 2) - 1) = (6 + 3 * i) + 3
        /\ (6 + 3 * i) + 1 \in 1 .. Len(input) /\ (6 + 3 * i) + 2 \in 1 .. Len(input)
        /\ (6 + 3 * i) + 3 \in 1 .. Len(input)
    BY <1>2, <1>3, <1>11, TableNumbers, Zenon
  <2>2. /\ input[(6 + 3 * i) + 1] = Mark(",")
        /\ input[(6 + 3 * i) + 2] = Identifier(tree.columns[i + 2].col_name)
        /\ input[(6 + 3 * i) + 3] = Keyword(tree.columns[i + 2].value_type)
    BY <1>4, <2>1, Zenon
  <2>3. /\ At(input, (6 + 3 * i) + 1) = Mark(",")
        /\ At(input, (6 + 3 * i) + 2).type = "IDENTIFIER_T"
        /\ IsType(At(input, (6 + 3 * i) + 3))
    BY <2>1, <2>2, AtPlaces, TypesOfTokens, Zenon
  <2> QED
    BY <2>3, ListedOnes, Zenon
<1>12. OnWay(2, input, 3, 6 + 3 * n - 3)
  <2>1. 6 \in Nat
    OBVIOUS
  <2> QED
    BY <1>10, <1>11, <2>1, WayByThree, Elements, Zenon
<1>13. OnWay(2, input, 4, 6 + 3 * n - 3)
  BY <1>8, <1>12, WaySkips, Elements, ZenonT(60)
<1>14. LengthAt(2, input, 4, 6 + 3 * n - 3) = 2
  <2>1. (6 + 3 * n - 3) + 1 = 4 + 3 * n /\ (6 + 3 * n - 3) + 2 = 5 + 3 * n
    OBVIOUS
  <2>2. At(input, 4 + 3 * n) = Mark(")") /\ At(input, 5 + 3 * n) = Mark(";")
    BY <1>2, <1>5, AtPlaces, Zenon
  <2> QED
    BY <2>1, <2>2, LaterOnes, Zenon
<1>15. OnWay(2, input, 5, (6 + 3 * n - 3) + 2)
  BY <1>8, <1>13, <1>14, WayNeeded, Elements, Zenon
<1> QED
  BY <1>8, <1>15, WayEnds, Elements, PatternSizes, Zenon

LEMMA InsertNumbers ==
  ASSUME NEW n \in Nat \ {0}, NEW m \in Nat \ {0}, NEW l \in Nat, l >= 7 + 2 * n + 2 * m
  PROVE  /\ \A i \in 1 .. 6 : i \in 1 .. l
         /\ 1 \in 1 .. n /\ 1 \in 1 .. m
         /\ 4 + 2 * n \in 1 .. l /\ 5 + 2 * n \in 1 .. l /\ 6 + 2 * n \in 1 .. l
         /\ 7 + 2 * n \in 1 .. l /\ 6 + 2 * n + 2 * m \in 1 .. l /\ 7 + 2 * n + 2 * m \in 1 .. l
         /\ 5 - 1 + (2 * 1 - 1) = 5 /\ (7 + 2 * n) - 1 + (2 * 1 - 1) = 7 + 2 * n
         /\ (5 + 2 * n - 2) + 1 = 4 + 2 * n /\ (5 + 2 * n - 2) + 2 = 5 + 2 * n
         /\ (5 + 2 * n - 2) + 3 = 6 + 2 * n /\ (5 + 2 * n - 2) + 4 = 7 + 2 * n
         /\ 7 + 2 * n \in Nat
         /\ ((7 + 2 * n) + 2 * m - 2) + 1 = 6 + 2 * n + 2 * m
         /\ ((7 + 2 * n) + 2 * m - 2) + 2 = 7 + 2 * n + 2 * m
         /\ \A i \in Nat : i + 1 < n =>
              /\ i + 1 \in 1 .. n - 1 /\ i + 2 \in 1 .. n
              /\ 5 - 1 + 2 * (i + 1) = (5 + 2 * i) + 1
              /\ 5 - 1 + (2 * (i + 2) - 1) = (5 + 2 * i) + 2
              /\ (5 + 2 * i) + 1 \in 1 .. l /\ (5 + 2 * i) + 2 \in 1 .. l
         /\ \A i \in Nat : i + 1 < m =>
              /\ i + 1 \in 1 .. m - 1 /\ i + 2 \in 1 .. m
              /\ (7 + 2 * n) - 1 + 2 * (i + 1) = ((7 + 2 * n) + 2 * i) + 1
              /\ (7 + 2 * n) - 1 + (2 * (i + 2) - 1) = ((7 + 2 * n) + 2 * i) + 2
              /\ ((7 + 2 * n) + 2 * i) + 1 \in 1 .. l /\ ((7 + 2 * n) + 2 * i) + 2 \in 1 .. l
OBVIOUS

LEMMA SmallNumbers ==
  /\ 1 \in 1 .. 6 /\ 2 \in 1 .. 6 /\ 3 \in 1 .. 6 /\ 4 \in 1 .. 6 /\ 5 \in 1 .. 6
  /\ 0 + 1 = 1 /\ 0 + 2 = 2 /\ 0 + 3 = 3 /\ 0 + 4 = 4 /\ 0 + 5 = 5
  /\ 1 + 1 = 2 /\ 2 + 1 = 3 /\ 3 + 1 = 4 /\ 4 + 1 = 5 /\ 5 + 1 = 6 /\ 6 + 1 = 7 /\ 7 + 1 = 8
  /\ 1 # 0 /\ 2 # 0 /\ 4 # 0 /\ 5 # 0 /\ 2 \in Nat /\ 5 \in Nat
OBVIOUS

LEMMA InsertDerives ==
  ASSUME NEW tree, NEW input \in Seq(AnyToken), InsertTokens(input, tree),
         tree.columns \in Seq(Name),
         Len(tree.columns) \in Nat \ {0}, Len(tree.values) \in Nat \ {0}
  PROVE  Derives(ALL_PATTERNS[3], input)
<1>1. PICK n \in Nat \ {0}, m \in Nat \ {0} : n = Len(tree.columns) /\ m = Len(tree.values)
  OBVIOUS
<1>2. /\ Len(input) >= 7 + 2 * n + 2 * m
      /\ input[1] = Keyword("INSERT") /\ input[2] = Keyword("INTO")
      /\ input[3] = Identifier(tree.table_name) /\ input[4] = Mark("(")
      /\ NameTokens(input, 5, tree.columns)
      /\ input[4 + 2 * n] = Mark(")") /\ input[5 + 2 * n] = Keyword("VALUES")
      /\ input[6 + 2 * n] = Mark("(")
      /\ ValueTokens(input, 7 + 2 * n, tree.values)
      /\ input[6 + 2 * n + 2 * m] = Mark(")") /\ input[7 + 2 * n + 2 * m] = Mark(";")
  BY <1>1, Zenon DEF InsertTokens
<1>3. Len(input) \in Nat
  BY LenProperties
<1>4. /\ \A i \in 1 .. n : input[5 - 1 + (2 * i - 1)] = Identifier(tree.columns[i])
      /\ \A i \in 1 .. n - 1 : input[5 - 1 + 2 * i] = Mark(",")
  <2>1. \A i \in 1 .. n : tree.columns[i] # "*"
    <3>1. \A i \in 1 .. n : tree.columns[i] \in Name
      BY <1>1
    <3> QED
      BY <3>1, NamesTyped, Zenon
  <2> QED
    BY <1>1, <1>2, <2>1, Zenon DEF NameTokens
<1>5. /\ \A i \in 1 .. m : IsValue(input[(7 + 2 * n) - 1 + (2 * i - 1)])
      /\ \A i \in 1 .. m - 1 : input[(7 + 2 * n) - 1 + 2 * i] = Mark(",")
  BY <1>1, <1>2, Zenon DEF ValueTokens
<1>6. OnWay(3, input, 2, 5)
  <2>1. At(input, 1) = Keyword("INSERT") /\ At(input, 2) = Keyword("INTO")
    BY <1>2, <1>3, AtPlaces, InsertNumbers, SmallNumbers, ZenonT(60)
  <2>2. At(input, 3) = Identifier(tree.table_name) /\ At(input, 4) = Mark("(")
    BY <1>2, <1>3, AtPlaces, InsertNumbers, SmallNumbers, ZenonT(60)
  <2>3. At(input, 5) = Identifier(tree.columns[1])
    <3>1. input[5] = Identifier(tree.columns[1])
      BY <1>2, <1>3, <1>4, InsertNumbers, Zenon
    <3>2. 5 \in 1 .. Len(input)
      BY <1>2, <1>3, InsertNumbers, SmallNumbers, Zenon
    <3> QED
      BY <3>1, <3>2, AtPlaces, Zenon
  <2>4. At(input, 3).type = "IDENTIFIER_T" /\ At(input, 5).type = "IDENTIFIER_T"
    BY <2>2, <2>3, TypesOfTokens, Zenon
  <2>5. LengthAt(3, input, 1, 0) = 5
    BY <2>1, <2>2, <2>4, SmallNumbers, FirstOnes, Zenon
  <2> QED
    BY <2>5, SmallNumbers, WayBegins, WayNeeded, Elements, Zenon
<1>7. ASSUME NEW i \in Nat, i + 1 < n PROVE LengthAt(3, input, 2, 5 + 2 * i) = 2
  <2>1. /\ i + 1 \in 1 .. n - 1 /\ i + 2 \in 1 .. n
        /\ 5 - 1 + 2 * (i + 1) = (5 + 2 * i) + 1
        /\ 5 - 1 + (2 * (i + 2) - 1) = (5 + 2 * i) + 2
        /\ (5 + 2 * i) + 1 \in 1 .. Len(input) /\ (5 + 2 * i) + 2 \in 1 .. Len(input)
    BY <1>2, <1>3, <1>7, InsertNumbers, Zenon
  <2>2. /\ input[(5 + 2 * i) + 1] = Mark(",")
        /\ input[(5 + 2 * i) + 2] = Identifier(tree.columns[i + 2])
    BY <1>4, <2>1, Zenon
  <2>3. At(input, (5 + 2 * i) + 1) = Mark(",") /\ At(input, (5 + 2 * i) + 2).type = "IDENTIFIER_T"
    BY <2>1, <2>2, AtPlaces, TypesOfTokens, Zenon
  <2> QED
    BY <2>3, ListedOnes, Zenon
<1>8. OnWay(3, input, 3, 5 + 2 * n - 2)
  <2>1. OnWay(3, input, 2, 5 + 2 * n - 2)
    BY <1>6, <1>7, SmallNumbers, WayByTwo, Elements, Zenon
  <2> QED
    BY <2>1, SmallNumbers, WaySkips, Elements, ZenonT(60)
<1>9. OnWay(3, input, 4, 7 + 2 * n)
  <2>1. At(input, 4 + 2 * n) = Mark(")")
    BY <1>2, <1>3, AtPlaces, InsertNumbers, Zenon
  <2>2. At(input, 5 + 2 * n) = Keyword("VALUES")
    <3>1. 5 + 2 * n \in 1 .. Len(input)
      BY <1>2, <1>3, InsertNumbers, Zenon
    <3> QED
      BY <1>2, <3>1, AtPlaces, Zenon
  <2>3. At(input, 6 + 2 * n) = Mark("(")
    BY <1>2, <1>3, AtPlaces, InsertNumbers, Zenon
  <2>4. IsValue(At(input, 7 + 2 * n))
    <3>1. IsValue(input[7 + 2 * n])
      BY <1>2, <1>3, <1>5, InsertNumbers, Zenon
    <3>2. 7 + 2 * n \in 1 .. Len(input)
      BY <1>2, <1>3, InsertNumbers, Zenon
    <3> QED
      BY <3>1, <3>2, AtPlaces, Zenon
  <2>5. /\ (5 + 2 * n - 2) + 1 = 4 + 2 * n /\ (5 + 2 * n - 2) + 2 = 5 + 2 * n
        /\ (5 + 2 * n - 2) + 3 = 6 + 2 * n /\ (5 + 2 * n - 2) + 4 = 7 + 2 * n
    BY <1>2, <1>3, InsertNumbers, Zenon
  <2>6. LengthAt(3, input, 3, 5 + 2 * n - 2) = 4
    BY <2>1, <2>2, <2>3, <2>4, <2>5, LaterOnes, ZenonT(60)
  <2>7. OnWay(3, input, 3 + 1, (5 + 2 * n - 2) + 4)
    BY <1>8, <2>6, SmallNumbers, WayNeeded, Elements, Zenon
  <2> QED
    BY <2>5, <2>7, SmallNumbers, Zenon
<1>10. ASSUME NEW i \in Nat, i + 1 < m PROVE LengthAt(3, input, 4, (7 + 2 * n) + 2 * i) = 2
  <2>1. /\ i + 1 \in 1 .. m - 1 /\ i + 2 \in 1 .. m
        /\ (7 + 2 * n) - 1 + 2 * (i + 1) = ((7 + 2 * n) + 2 * i) + 1
        /\ (7 + 2 * n) - 1 + (2 * (i + 2) - 1) = ((7 + 2 * n) + 2 * i) + 2
        /\ ((7 + 2 * n) + 2 * i) + 1 \in 1 .. Len(input)
        /\ ((7 + 2 * n) + 2 * i) + 2 \in 1 .. Len(input)
    BY <1>2, <1>3, <1>10, InsertNumbers, Zenon
  <2>2. /\ input[((7 + 2 * n) + 2 * i) + 1] = Mark(",")
        /\ IsValue(input[((7 + 2 * n) + 2 * i) + 2])
    BY <1>5, <2>1, Zenon
  <2>3. /\ At(input, ((7 + 2 * n) + 2 * i) + 1) = Mark(",")
        /\ IsValue(At(input, ((7 + 2 * n) + 2 * i) + 2))
    BY <2>1, <2>2, AtPlaces, Zenon
  <2> QED
    BY <2>3, ListedOnes, Zenon
<1>11. OnWay(3, input, 5, (7 + 2 * n) + 2 * m - 2)
  <2>1. 7 + 2 * n \in Nat
    BY <1>2, <1>3, InsertNumbers, Zenon
  <2>2. OnWay(3, input, 4, (7 + 2 * n) + 2 * m - 2)
    BY <1>9, <1>10, <2>1, WayByTwo, Elements, Zenon
  <2> QED
    BY <2>2, SmallNumbers, WaySkips, Elements, ZenonT(60)
<1>12. LengthAt(3, input, 5, (7 + 2 * n) + 2 * m - 2) = 2
  <2>1. At(input, 6 + 2 * n + 2 * m) = Mark(")")
    BY <1>2, <1>3, AtPlaces, InsertNumbers, ZenonT(60)
  <2>2. At(input, 7 + 2 * n + 2 * m) = Mark(";")
    BY <1>2, <1>3, AtPlaces, InsertNumbers, Zenon
  <2>3. /\ ((7 + 2 * n) + 2 * m - 2) + 1 = 6 + 2 * n + 2 * m
        /\ ((7 + 2 * n) + 2 * m - 2) + 2 = 7 + 2 * n + 2 * m
    BY <1>2, <1>3, InsertNumbers, ZenonT(60)
  <2> QED
    BY <2>1, <2>2, <2>3, LaterOnes, Zenon
<1>13. OnWay(3, input, 5 + 1, ((7 + 2 * n) + 2 * m - 2) + 2)
  BY <1>11, <1>12, SmallNumbers, WayNeeded, Elements, Zenon
<1> QED
  BY <1>13, WayEnds, Elements, PatternSizes, Zenon

LEMMA CompareHere ==
  ASSUME NEW input \in Seq(AnyToken), NEW o \in Nat, NEW k \in Condition, NEW opening,
         ConditionTokens(input, o, k, opening), o + ConditionLength(k) <= Len(input)
  PROVE  ComparisonLength(input, o) = ConditionLength(k)
<1>1. /\ (o + 2) + 1 = o + 3 /\ (o + 2) + 2 = o + 4 /\ o + 3 + 1 = o + 4 /\ o + 3 + 2 = o + 5
      /\ 3 + 1 = 4 /\ 3 + 2 = 5 /\ 1 # 0 /\ 2 # 0
  OBVIOUS
<1>2. CASE k.condition = "!="
  <2>1. /\ At(input, o + 3) = Mark("!") /\ At(input, o + 4) = Mark("=")
        /\ IsValue(At(input, o + 5)) /\ ConditionLength(k) = 5
    BY <1>2, ConditionAt, Zenon
  <2>2. Mark("!") \notin {Mark(">"), Mark("<"), Mark("=")}
    BY DEF Mark, Token
  <2>3. CompareLength(input, o + 2) = 2
    BY <1>1, <2>1, <2>2, Zenon DEF CompareLength
  <2> QED
    BY <1>1, <2>1, <2>3, Zenon DEF ComparisonLength, Compares
<1>3. CASE k.condition # "!="
  <2>1. /\ At(input, o + 3) = Mark(k.condition) /\ k.condition \in {">", "<", "="}
        /\ IsValue(At(input, o + 4)) /\ ConditionLength(k) = 4
    BY <1>3, ConditionAt, Zenon
  <2>2. At(input, o + 3) \in {Mark(">"), Mark("<"), Mark("=")}
    BY <2>1, Zenon
  <2>3. CompareLength(input, o + 2) = 1
    BY <1>1, <2>2, Zenon DEF CompareLength
  <2> QED
    BY <1>1, <2>1, <2>3, Zenon DEF ComparisonLength, Compares
<1> QED
  BY <1>2, <1>3

LEMMA ConditionsOnWay ==
  ASSUME NEW tree, IsSelect(tree), NEW input \in Seq(AnyToken), NEW place,
         SelectPlaces(place, input, tree), NEW j \in Nat, j < Len(tree.compare_vector)
  PROVE  /\ j = 0 => /\ LengthAt(4, input, 5, place[j]) # 0
                      /\ place[j + 1] = place[j] + LengthAt(4, input, 5, place[j])
         /\ j # 0 => /\ LengthAt(4, input, 6, place[j]) # 0
                      /\ place[j + 1] = place[j] + LengthAt(4, input, 6, place[j])
<1>1. PICK k, opening, o :
        k = tree.compare_vector[j + 1] /\ opening = Opening(tree, j + 1) /\ o = place[j]
  OBVIOUS
<1>2. /\ k \in Condition /\ o \in Nat
      /\ ConditionTokens(input, o, k, opening)
      /\ o + ConditionLength(k) <= Len(input)
      /\ place[j + 1] = o + ConditionLength(k)
      /\ j = 0 => opening = "WHERE"
  BY <1>1, SelectPlace, ZenonT(60)
<1>3. At(input, o + 1) = Keyword(opening) /\ At(input, o + 2) = Identifier(k.col)
  BY <1>2, ConditionAt, Zenon
<1>4. IsConnective(At(input, o + 1)) /\ At(input, o + 2).type = "IDENTIFIER_T"
  BY <1>3, TypesOfTokens, Zenon
<1>5. ComparisonLength(input, o) = ConditionLength(k)
  BY <1>2, CompareHere, Zenon
<1>6. ConditionLength(k) # 0
  <2>1. 4 # 0 /\ 5 # 0
    OBVIOUS
  <2> QED
    BY <2>1, Zenon DEF ConditionLength
<1>7. CASE j = 0
  <2>1. WhereBegins(input, o)
    BY <1>2, <1>3, <1>4, <1>7, Zenon DEF WhereBegins
  <2>2. LengthAt(4, input, 5, o) = ConditionLength(k)
    BY <1>5, <2>1, Repeats, Zenon
  <2> QED
    BY <1>1, <1>2, <1>6, <1>7, <2>2, Zenon
<1>8. CASE j # 0
  <2>1. NextBegins(input, o)
    BY <1>4, Zenon DEF NextBegins
  <2>2. LengthAt(4, input, 6, o) = ConditionLength(k)
    BY <1>5, <2>1, Repeats, Zenon
  <2> QED
    BY <1>1, <1>2, <1>6, <1>8, <2>2, Zenon
<1> QED
  BY <1>7, <1>8

(* From the table's name to the semicolon.                                 *)
LEMMA WhereDerives ==
  ASSUME NEW tree, IsSelect(tree), NEW input \in Seq(AnyToken), NEW place,
         SelectPlaces(place, input, tree), OnWay(4, input, 5, place[0])
  PROVE  Derives(ALL_PATTERNS[4], input)
<1>1. Len(tree.compare_vector) \in Nat
  BY WhereIn
<1>2. PICK c \in Nat : c = Len(tree.compare_vector)
  BY <1>1
<1>3. OnWay(4, input, 6, place[c])
  <2>1. CASE c = 0
    BY <2>1, SmallNumbers, WaySkips, Elements, Zenon
  <2>2. CASE c # 0
    <3>1. PICK m \in Nat : c = m + 1
      <4>1. c - 1 \in Nat /\ c = (c - 1) + 1
        BY <2>2
      <4> QED
        BY <4>1
    <3>2. 0 \in Nat /\ 0 < c /\ 0 + 1 = 1
      BY <3>1
    <3>3. LengthAt(4, input, 5, place[0]) # 0 /\ place[1] = place[0] + LengthAt(4, input, 5, place[0])
      <4>1. LengthAt(4, input, 5, place[0]) # 0 /\ place[0 + 1] = place[0] + LengthAt(4, input, 5, place[0])
        BY <1>2, <3>2, ConditionsOnWay, ZenonT(60)
      <4> QED
        BY <3>2, <4>1, Zenon
    <3>4. OnWay(4, input, 5, place[0] + LengthAt(4, input, 5, place[0]))
      BY <3>3, WayTakes, Elements, Zenon
    <3>5. OnWay(4, input, 6, place[1])
      BY <3>3, <3>4, SmallNumbers, WaySkips, Elements, Zenon
    <3>6. PICK after : after = [i \in Nat |-> place[i + 1]]
      OBVIOUS
    <3>7. \A i \in Nat : after[i] = place[i + 1]
      BY <3>6
    <3>8. OnWay(4, input, 6, after[0])
      BY <3>2, <3>5, <3>7, Zenon
    <3>9. ASSUME NEW i \in Nat, i < m
          PROVE  /\ LengthAt(4, input, 6, after[i]) # 0
                 /\ after[i + 1] = after[i] + LengthAt(4, input, 6, after[i])
      <4>1. i + 1 \in Nat /\ i + 1 < c /\ i + 1 # 0
        BY <3>1, <3>9
      <4>2. /\ LengthAt(4, input, 6, place[i + 1]) # 0
            /\ place[(i + 1) + 1] = place[i + 1] + LengthAt(4, input, 6, place[i + 1])
        <5>1. PICK j \in Nat : j = i + 1
          BY <4>1
        <5>2. j < Len(tree.compare_vector) /\ j # 0
          BY <1>2, <4>1, <5>1, Zenon
        <5>3. /\ LengthAt(4, input, 6, place[j]) # 0
              /\ place[j + 1] = place[j] + LengthAt(4, input, 6, place[j])
          BY <5>2, ConditionsOnWay, ZenonT(60)
        <5> QED
          BY <5>1, <5>3, Zenon
      <4> QED
        BY <3>7, <4>1, <4>2, Zenon
    <3>10. OnWay(4, input, 6, after[m])
      BY <3>8, <3>9, WayAlong, Elements, Zenon
    <3> QED
      BY <3>1, <3>7, <3>10, Zenon
  <2> QED
    BY <2>1, <2>2
<1>4. OnWay(4, input, 7, place[c])
  BY <1>3, SmallNumbers, WaySkips, Elements, Zenon
<1>5. At(input, place[c] + 1) = Mark(";")
  <2>1. /\ place \in [0 .. c -> Nat] /\ place[c] + 1 <= Len(input)
        /\ input[place[c] + 1] = Mark(";")
    BY <1>2, Zenon DEF SelectPlaces
  <2>2. c \in 0 .. c /\ Len(input) \in Nat
    BY LenProperties
  <2>3. place[c] \in Nat
    BY <2>1, <2>2, Zenon
  <2>4. PICK q \in Nat, l \in Nat : q = place[c] /\ l = Len(input)
    BY <2>2, <2>3, Zenon
  <2>5. q + 1 <= l
    BY <2>1, <2>4, Zenon
  <2>6. q + 1 \in 1 .. l
    BY ONLY <2>4, <2>5
  <2> QED
    BY <2>1, <2>4, <2>6, AtPlaces, Zenon
<1>6. LengthAt(4, input, 7, place[c]) = 1
  BY <1>5, LaterOnes, Zenon
<1>7. OnWay(4, input, 7 + 1, place[c] + 1)
  BY <1>4, <1>6, SmallNumbers, WayNeeded, Elements, Zenon
<1> QED
  BY <1>7, WayEnds, Elements, PatternSizes, Zenon

LEMMA SelectNumbers ==
  ASSUME NEW n \in Nat \ {0}, NEW w \in Nat, NEW l \in Nat, l >= 3 + 2 * n + w
  PROVE  /\ 1 \in 1 .. l /\ 2 \in 1 .. l /\ 1 \in 1 .. n
         /\ 1 + 2 * n \in 1 .. l /\ 2 + 2 * n \in 1 .. l
         /\ 2 - 1 + (2 * 1 - 1) = 2
         /\ (2 + 2 * n - 2) + 1 = 1 + 2 * n /\ (2 + 2 * n - 2) + 2 = 2 + 2 * n
         /\ \A i \in Nat : i + 1 < n =>
              /\ i + 1 \in 1 .. n - 1 /\ i + 2 \in 1 .. n /\ n # 1
              /\ 2 - 1 + 2 * (i + 1) = (2 + 2 * i) + 1
              /\ 2 - 1 + (2 * (i + 2) - 1) = (2 + 2 * i) + 2
              /\ (2 + 2 * i) + 1 \in 1 .. l /\ (2 + 2 * i) + 2 \in 1 .. l
OBVIOUS

LEMMA SelectDerives ==
  ASSUME NEW tree, IsSelect(tree), NEW input \in Seq(AnyToken), SelectTokens(input, tree),
         Len(tree.columns) \in Nat \ {0}
  PROVE  Derives(ALL_PATTERNS[4], input)
<1>0. Len(input) \in Nat /\ Len(Where(tree)) \in Nat
  BY LenProperties, WhereIn
<1>1. PICK n \in Nat \ {0}, w \in Nat : n = Len(tree.columns) /\ w = Len(Where(tree))
  BY <1>0
<1>2. /\ Len(input) >= 3 + 2 * n + w
      /\ input[1] = Keyword("SELECT") /\ NameTokens(input, 2, tree.columns)
      /\ input[1 + 2 * n] = Keyword("FROM") /\ input[2 + 2 * n] = Identifier(tree.table_name)
  BY <1>1, Zenon DEF SelectTokens
<1>3. /\ \A i \in 1 .. n : input[2 - 1 + (2 * i - 1)] =
                             IF tree.columns[i] = "*" THEN Mark("*") ELSE Identifier(tree.columns[i])
      /\ \A i \in 1 .. n - 1 : input[2 - 1 + 2 * i] = Mark(",")
  BY <1>1, <1>2, Zenon DEF NameTokens
<1>4. n # 1 => \A i \in 1 .. n : tree.columns[i] # "*"
  <2>1. (tree.columns \in Seq(Name) /\ tree.columns # <<>>) \/ tree.columns = <<"*">>
    BY Zenon DEF IsSelect
  <2>2. CASE tree.columns \in Seq(Name)
    <3>1. \A i \in 1 .. n : tree.columns[i] \in Name
      BY <1>1, <2>2
    <3> QED
      BY <3>1, NamesTyped, Zenon
  <2>3. CASE tree.columns = <<"*">>
    BY <1>1, <2>3, Lengths1, Zenon
  <2> QED
    BY <2>1, <2>2, <2>3
<1>5. OnWay(4, input, 2, 1)
  <2>1. At(input, 1) = Keyword("SELECT")
    BY <1>0, <1>1, <1>2, AtPlaces, SelectNumbers, Zenon
  <2>2. LengthAt(4, input, 1, 0) = 1
    BY <2>1, SmallNumbers, FirstOnes, Zenon
  <2> QED
    BY <2>2, SmallNumbers, WayBegins, WayNeeded, Elements, ZenonT(60)
<1>6. OnWay(4, input, 3, 2)
  <2>1. 1 \in 1 .. n /\ 2 - 1 + (2 * 1 - 1) = 2 /\ 2 \in 1 .. Len(input)
    BY <1>0, <1>1, <1>2, SelectNumbers, Zenon
  <2>2. input[2] = Mark("*") \/ input[2] = Identifier(tree.columns[1])
    BY <1>3, <2>1, Zenon
  <2>3. IsColumn(At(input, 2))
    BY <2>1, <2>2, AtPlaces, TypesOfTokens, Zenon
  <2>4. LengthAt(4, input, 2, 1) = 1
    BY <2>3, SmallNumbers, ListedOnes, Zenon
  <2> QED
    BY <1>5, <2>4, SmallNumbers, WayNeeded, Elements, ZenonT(60)
<1>7. ASSUME NEW i \in Nat, i + 1 < n PROVE LengthAt(4, input, 3, 2 + 2 * i) = 2
  <2>1. /\ i + 1 \in 1 .. n - 1 /\ i + 2 \in 1 .. n /\ n # 1
        /\ 2 - 1 + 2 * (i + 1) = (2 + 2 * i) + 1
        /\ 2 - 1 + (2 * (i + 2) - 1) = (2 + 2 * i) + 2
        /\ (2 + 2 * i) + 1 \in 1 .. Len(input) /\ (2 + 2 * i) + 2 \in 1 .. Len(input)
    BY <1>0, <1>1, <1>2, <1>7, SelectNumbers, ZenonT(60)
  <2>2. /\ input[(2 + 2 * i) + 1] = Mark(",")
        /\ input[(2 + 2 * i) + 2] = Identifier(tree.columns[i + 2])
    BY <1>3, <1>4, <2>1, Zenon
  <2>3. At(input, (2 + 2 * i) + 1) = Mark(",") /\ At(input, (2 + 2 * i) + 2).type = "IDENTIFIER_T"
    BY <2>1, <2>2, AtPlaces, TypesOfTokens, Zenon
  <2> QED
    BY <2>3, ListedOnes, Zenon
<1>8. OnWay(4, input, 4, 2 + 2 * n - 2)
  <2>1. OnWay(4, input, 3, 2 + 2 * n - 2)
    BY <1>6, <1>7, SmallNumbers, WayByTwo, Elements, Zenon
  <2> QED
    BY <2>1, SmallNumbers, WaySkips, Elements, Zenon
<1>9. OnWay(4, input, 5, 2 + 2 * n)
  <2>1. /\ 1 + 2 * n \in 1 .. Len(input) /\ 2 + 2 * n \in 1 .. Len(input)
        /\ (2 + 2 * n - 2) + 1 = 1 + 2 * n /\ (2 + 2 * n - 2) + 2 = 2 + 2 * n
    BY <1>0, <1>1, <1>2, SelectNumbers, Zenon
  <2>2. At(input, 1 + 2 * n) = Keyword("FROM")
    BY <1>2, <2>1, AtPlaces, Zenon
  <2>3. At(input, 2 + 2 * n).type = "IDENTIFIER_T"
    BY <1>2, <2>1, AtPlaces, TypesOfTokens, Zenon
  <2>4. LengthAt(4, input, 4, 2 + 2 * n - 2) = 2
    BY <2>1, <2>2, <2>3, LaterOnes, Zenon
  <2>5. OnWay(4, input, 4 + 1, (2 + 2 * n - 2) + 2)
    BY <1>8, <2>4, SmallNumbers, WayNeeded, Elements, Zenon
  <2> QED
    BY <2>1, <2>5, SmallNumbers, Zenon
<1>10. PICK place : SelectPlaces(place, input, tree)
  BY <1>0, SelectPlacesExist
<1>11. OnWay(4, input, 5, place[0])
  <2>1. place[0] = 2 + 2 * n
    BY <1>1, <1>10, Zenon DEF SelectPlaces
  <2> QED
    BY <1>9, <2>1, Zenon
<1> QED
  BY <1>10, <1>11, WhereDerives, Zenon

(* Every legal statement, whatever lies behind it, begins with a sentence  *)
(* of one of the patterns, unless a quote is left open there.              *)
LEMMA LegalDerives ==
  ASSUME NEW tree \in Trees, NEW behind \in Seq(AnyWord),
         NEW input, input = Tokenize(Statement(tree) \o behind), input # <<>>
  PROVE  \E k \in 1 .. 4 : Derives(ALL_PATTERNS[k], input)
<1>1. PICK words : words = Statement(tree) \o behind
  OBVIOUS
<1>2. /\ Statement(tree) \in Seq(AnyWord) /\ words \in Seq(AnyWord)
      /\ Len(words) = Len(Statement(tree)) + Len(behind)
  BY <1>1, StatementLies
<1>3. input \in Seq(AnyToken) /\ Len(input) = Len(words)
  BY <1>1, <1>2, TokenizeIs, Zenon
<1>4. 1 \in 1 .. 4 /\ 2 \in 1 .. 4 /\ 3 \in 1 .. 4 /\ 4 \in 1 .. 4
  BY Elements, Zenon
<1>5. CASE IsDatabase(tree)
  <2>1. DatabaseTokens(input, tree) /\ Len(Statement(tree)) = 4
    BY <1>5, DatabaseLies
  <2>2. 4 <= Len(input)
    <3>1. Len(behind) \in Nat
      BY LenProperties
    <3> QED
      BY <1>2, <1>3, <2>1, <3>1
  <2> QED
    BY <1>3, <1>4, <2>1, <2>2, DatabaseDerives, Zenon
<1>6. CASE IsTable(tree)
  <2>1. TableTokens(input, tree) /\ Len(tree.columns) \in Nat \ {0}
    BY <1>6, TableLies
  <2> QED
    BY <1>3, <1>4, <2>1, TableDerives, Zenon
<1>7. CASE IsInsert(tree)
  <2>1. InsertTokens(input, tree)
    BY <1>7, InsertLies
  <2>2. /\ tree.columns \in Seq(Name) /\ tree.columns # <<>>
        /\ tree.values \in Seq(ValueText) /\ tree.values # <<>>
    BY <1>7, Zenon DEF IsInsert
  <2>3. Len(tree.columns) \in Nat \ {0} /\ Len(tree.values) \in Nat \ {0}
    BY <2>2
  <2> QED
    BY <1>3, <1>4, <2>1, <2>2, <2>3, InsertDerives, Zenon
<1>8. CASE IsSelect(tree)
  <2>1. SelectTokens(input, tree) /\ Len(tree.columns) \in Nat \ {0}
    BY <1>8, SelectLies
  <2> QED
    BY <1>3, <1>4, <1>8, <2>1, SelectDerives, Zenon
<1> QED
  BY <1>5, <1>6, <1>7, <1>8, TreesAre
=============================================================================

-------------------------- MODULE LinkScanner_proofs --------------------------
(***************************************************************************)
(* The indices of update_url, for every size of the array, every HTML and  *)
(* every sequence of jobs.                                                 *)
(***************************************************************************)
EXTENDS LinkScanner, TLAPS

(* Where update_url starts over is within its bounds.                      *)
LEMMA StartInBounds ==
    0 \in 0..MAX_URL_SIZE /\ -1 \in -1..(MAX_URL_SIZE - 1) /\ -1 < 0 /\ 0 \in 0..Len(HREF_STR)
<1>1. MAX_URL_SIZE \in Nat /\ Len(HREF_STR) \in Nat
    BY StringsAssumption
<1> QED
    BY <1>1

(* The types, and the jobs they are relative to, which never change.       *)
IInv == TypeOK /\ visit \in Visits

(* The state update_url and check_href start with is well typed.           *)
LEMMA InitTyped == Init => IInv
<1> SUFFICES ASSUME Init PROVE IInv
    OBVIOUS
<1>1. /\ i = 0 /\ j = -1 /\ href_passed = FALSE /\ href_i = 0
      /\ was_damaged = FALSE /\ done = FALSE /\ overflown = FALSE
    BY DEF Init
<1>2. visit \in Visits /\ n \in 1..Len(visit)
    BY VisitsAssumption DEF Init
<1> QED
    BY <1>1, <1>2, StartInBounds DEF TypeOK, IInv

(* A character that is stored, and the NUL behind the last one, lie inside *)
(* the array url.                                                          *)
LEMMA WritesInside ==
    ASSUME TypeOK
    PROVE  /\ ~Resets => At \in -1..(MAX_URL_SIZE - 1) /\ At <= i /\ i < MAX_URL_SIZE
           /\ ~Resets /\ i = 0 => ~QuotesOpen
<1>1. ~Resets => i < MAX_URL_SIZE
    BY StringsAssumption DEF TypeOK, Resets, TagIsTooLong
<1>2. ~Resets /\ i = 0 => ~QuotesOpen
    BY StringsAssumption DEF TypeOK, Resets, QuotesOpen
<1>3. ~Resets => At \in -1..(MAX_URL_SIZE - 1) /\ At <= i
    BY <1>1, StringsAssumption DEF TypeOK, At
<1> QED
    BY <1>1, <1>2, <1>3

(* What check_href remembers never exceeds HREF_STR.                       *)
LEMMA CheckHrefTyped ==
    ASSUME TypeOK, check_href
    PROVE  href_i' \in 0..Len(HREF_STR) /\ HrefPassed \in BOOLEAN
<1>1. Matched \in 0..(Len(HREF_STR) + 1)
    BY StringsAssumption DEF TypeOK, Matched
<1> QED
    BY <1>1, StringsAssumption DEF TypeOK, check_href, IsBehindHref, HrefPassed

(* Each step of the scanner and each change of pages keeps the types.      *)
LEMMA NextTyped == IInv /\ [Next]_vars => IInv'
<1> SUFFICES ASSUME TypeOK, visit \in Visits, [Next]_vars PROVE TypeOK' /\ visit' = visit
    BY DEF IInv
<1> USE StringsAssumption
<1>1. CASE LeaveTag
    <2>1. i' = 0 /\ j' = -1 /\ href_passed' = FALSE /\ href_i' = href_i
        BY <1>1 DEF LeaveTag, StartOver
    <2>2. /\ visit' = visit /\ n' = n /\ was_damaged' = was_damaged
          /\ done' = done /\ overflown' = overflown
        BY <1>1 DEF LeaveTag, NextChar
    <2> QED
        BY <2>1, <2>2, StartInBounds DEF TypeOK
<1>2. CASE StayInTag
    <2>1. ~Resets /\ check_href /\ i' = i + 1 /\ j' = At /\ href_passed' = HrefPassed
        BY <1>2 DEF StayInTag
    <2>2. i' \in 0..MAX_URL_SIZE /\ j' \in -1..(MAX_URL_SIZE - 1) /\ j' < i'
        BY <2>1, WritesInside DEF TypeOK
    <2>3. href_passed' \in BOOLEAN /\ href_i' \in 0..Len(HREF_STR)
        BY <2>1, CheckHrefTyped
    <2> QED
        BY <1>2, <2>2, <2>3 DEF StayInTag, NextChar, TypeOK
<1>3. CASE StoreChar
    <2>1. /\ ~Resets /\ check_href /\ At >= 0
          /\ i' = i + 1 /\ j' = At + 1 /\ href_passed' = HrefPassed
        BY <1>3 DEF StoreChar
    <2>2. At + 1 <= i
        BY <2>1, WritesInside DEF TypeOK, At
    <2>3. i' \in 0..MAX_URL_SIZE /\ j' \in -1..(MAX_URL_SIZE - 1) /\ j' < i'
        BY <2>1, <2>2, WritesInside DEF TypeOK
    <2>4. href_passed' \in BOOLEAN /\ href_i' \in 0..Len(HREF_STR)
        BY <2>1, CheckHrefTyped
    <2> QED
        BY <1>3, <2>3, <2>4 DEF StoreChar, NextChar, TypeOK
<1>4. CASE CloseUrl
    <2>1. href_i' \in 0..Len(HREF_STR)
        BY <1>4, CheckHrefTyped DEF CloseUrl
    <2>2. i' = 0 /\ j' = -1 /\ href_passed' = FALSE
        BY <1>4 DEF CloseUrl, StartOver
    <2>3. /\ visit' = visit /\ n' = n /\ was_damaged' = was_damaged
          /\ done' = done /\ overflown' = overflown
        BY <1>4 DEF CloseUrl, EndsUrl, NextChar
    <2> QED
        BY <2>1, <2>2, <2>3, StartInBounds DEF TypeOK
<1>5. CASE Overflow
    BY <1>5 DEF Overflow, EndsUrl, NextChar, scannerVars, TypeOK
<1>6. CASE EndPage
    BY <1>6 DEF EndPage, scannerVars, TypeOK
<1>7. CASE NextPage
    <2>1. n' \in 1..Len(visit')
        BY <1>7, VisitsAssumption DEF NextPage, TypeOK
    <2> QED
        BY <1>7, <2>1 DEF NextPage, scannerVars, TypeOK
<1>8. CASE UNCHANGED vars
    BY <1>8 DEF vars, scannerVars, TypeOK
<1> QED
    BY <1>1, <1>2, <1>3, <1>4, <1>5, <1>6, <1>7, <1>8 DEF Next

(* However long the tags and urls of a page are, and wherever pages are    *)
(* cut, update_url stores the characters of a link and the NUL behind them *)
(* inside its array (scrapping_unit.c:137-165).  An absolute url that      *)
(* retrieve_absolute_url writes past its end is not a part of this: it is  *)
(* where the scanner's behaviour stops.                                    *)
THEOREM ScannerStaysTyped == Spec => []TypeOK
<1>1. IInv => TypeOK
    BY DEF IInv
<1> QED
    BY <1>1, InitTyped, NextTyped, PTL DEF Spec

=============================================================================

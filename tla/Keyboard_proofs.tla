--------------------------- MODULE Keyboard_proofs ---------------------------
(***************************************************************************)
(* Proofs about Keyboard.tla for every number of keystrokes.  The order of *)
(* the keys needs a strengthening: the key that waits in currentword is    *)
(* younger than everything getkey() returned, also while the handler and   *)
(* getkey() are halfway past each other.                                   *)
(***************************************************************************)
EXTENDS Keyboard, TLAPS

(* What an Append does to the length and the elements of a sequence. *)
LEMMA AppendFacts ==
    ASSUME NEW S, NEW s \in Seq(S), NEW e \in S
    PROVE  /\ Append(s, e) \in Seq(S)
           /\ Len(Append(s, e)) = Len(s) + 1
           /\ DOMAIN s = 1 .. Len(s)
           /\ DOMAIN Append(s, e) = 1 .. Len(s) + 1
           /\ \A i \in 1 .. Len(s) : Append(s, e)[i] = s[i]
           /\ Append(s, e)[Len(s) + 1] = e
           /\ Len(s) \in Nat
  OBVIOUS

-----------------------------------------------------------------------------
(* TypeOK holds in every reachable state, for every MaxKeys: the flags stay *)
(* 0 or 1 and nothing but a typed key or 0 is ever in currentword.          *)
THEOREM TypeCorrect == Spec => []TypeOK
<1>1. Init => TypeOK
  <2> SUFFICES ASSUME Init PROVE TypeOK
    OBVIOUS
  <2>1. accepted \in Seq(Key) /\ returned \in Seq(Key \cup {NoKey})
    BY DEF Init
  <2>2. typed \in 0 .. MaxKeys
    BY MaxKeysAssumption DEF Init
  <2>3. currentword = NoKey /\ scan_code = NoKey /\ pc \in Label
    BY DEF Init, Label
  <2>4. screen \in Flow!Screen /\ visit \in Nat /\ typedIn \in [Key -> Nat]
    BY DEF Init, Flow!Init, Flow!Screen
  <2> QED BY <2>1, <2>2, <2>3, <2>4 DEF Init, TypeOK
<1>2. TypeOK /\ [Next]_vars => TypeOK'
  <2> SUFFICES ASSUME TypeOK, [Next]_vars PROVE TypeOK'
    OBVIOUS
  <2> USE MaxKeysAssumption DEF TypeOK, Label, NoKey, Key, shared, history
  <2>1. CASE KeyIRQ
    <3>1. typed + 1 \in Key
      BY <2>1 DEF KeyIRQ
    <3>2. Append(accepted, typed + 1) \in Seq(Key)
      BY <3>1, AppendFacts
    <3>3. typed' \in 0 .. MaxKeys
      BY <2>1 DEF KeyIRQ
    <3>a. typedIn' \in [Key -> Nat]
      BY <2>1 DEF KeyIRQ
    <3>4. CASE game_select_start = 1
      BY <2>1, <3>1, <3>2, <3>3, <3>a, <3>4 DEF KeyIRQ
    <3>5. CASE game_select_start # 1
      BY <2>1, <3>3, <3>a, <3>5 DEF KeyIRQ
    <3> QED BY <3>4, <3>5
  <2>2. CASE OpenMailbox
    BY <2>2 DEF OpenMailbox
  <2>3. CASE TestSelectOn
    BY <2>3 DEF TestSelectOn
  <2>4. CASE EnterGetkey
    BY <2>4 DEF EnterGetkey
  <2>5. CASE ClearSelectOn
    BY <2>5 DEF ClearSelectOn
  <2>6. CASE ReadWord
    <3>1. Append(returned, currentword) \in Seq(Key \cup {NoKey})
      BY AppendFacts
    <3> QED BY <2>6, <3>1 DEF ReadWord
  <2>7. CASE ZeroWord
    BY <2>7 DEF ZeroWord
  <2>8. CASE IgnoreKey
    BY <2>8 DEF IgnoreKey
  <2>9. CASE AcceptKey
    BY <2>9 DEF AcceptKey, Flow!Enter, Flow!Follows, Flow!Screen
  <2>10. CASE StartLoop
    BY <2>10 DEF StartLoop
  <2>11. CASE UNCHANGED vars
    BY <2>11 DEF vars
  <2> QED
    BY <2>1, <2>2, <2>3, <2>4, <2>5, <2>6, <2>7, <2>8, <2>9, <2>10, <2>11
    DEF Next, GameStep
<1> QED BY <1>1, <1>2, PTL DEF Spec

-----------------------------------------------------------------------------
(* One pass through getkey() uses up one select_on.                        *)
PassInv ==
    /\ pc = "clear" => select_on = 1
    /\ Len(returned) + select_on + (IF pc = "read" THEN 1 ELSE 0)
           <= Len(accepted)

(* getkey() never returns from its body more often than the handler stored *)
(* a keystroke, for every MaxKeys and every interleaving.                  *)
THEOREM NeverOutrunCorrect == Spec => []NeverOutrun
<1>1. Init => PassInv
  BY DEF Init, PassInv
<1>2. TypeOK /\ PassInv /\ [Next]_vars => PassInv'
  <2> SUFFICES ASSUME TypeOK, PassInv, [Next]_vars PROVE PassInv'
    OBVIOUS
  <2>0. /\ Len(returned) \in Nat
        /\ Len(accepted) \in Nat
        /\ select_on \in {0, 1}
    BY DEF TypeOK
  <2> USE <2>0 DEF PassInv, shared, history
  <2>1. CASE KeyIRQ
    <3>1. typed + 1 \in Key
      BY <2>1, MaxKeysAssumption DEF KeyIRQ, TypeOK, Key
    <3>2. Len(Append(accepted, typed + 1)) = Len(accepted) + 1
      BY <3>1, AppendFacts DEF TypeOK
    <3> QED BY <2>1, <3>2 DEF KeyIRQ
  <2>2. CASE OpenMailbox
    BY <2>2 DEF OpenMailbox
  <2>3. CASE TestSelectOn
    BY <2>3 DEF TestSelectOn
  <2>4. CASE EnterGetkey
    BY <2>4 DEF EnterGetkey
  <2>5. CASE ClearSelectOn
    BY <2>5 DEF ClearSelectOn
  <2>6. CASE ReadWord
    <3>1. Len(Append(returned, currentword)) = Len(returned) + 1
      BY AppendFacts DEF TypeOK
    <3> QED BY <2>6, <3>1 DEF ReadWord
  <2>7. CASE ZeroWord
    BY <2>7 DEF ZeroWord
  <2>8. CASE IgnoreKey
    BY <2>8 DEF IgnoreKey
  <2>9. CASE AcceptKey
    BY <2>9 DEF AcceptKey
  <2>10. CASE StartLoop
    BY <2>10 DEF StartLoop
  <2>11. CASE UNCHANGED vars
    BY <2>11 DEF vars
  <2> QED
    BY <2>1, <2>2, <2>3, <2>4, <2>5, <2>6, <2>7, <2>8, <2>9, <2>10, <2>11
    DEF Next, GameStep
<1>3. TypeOK /\ PassInv => NeverOutrun
  BY DEF TypeOK, PassInv, NeverOutrun
<1> QED BY <1>1, <1>2, <1>3, TypeCorrect, PTL DEF Spec

-----------------------------------------------------------------------------
(* Nothing in the program is younger than the last keystroke, and the key   *)
(* that waits is younger than every key that was returned.                  *)
OrderInv ==
    /\ currentword <= typed
    /\ scan_code <= typed
    /\ \A i \in 1 .. Len(returned) : returned[i] <= typed
    /\ Pending => \A i \in 1 .. Len(returned) : returned[i] < currentword
    /\ InOrderOnce

(* The steps that leave the returned keys alone keep OrderInv when they     *)
(* make no other key wait.                                                  *)
LEMMA OrderKept ==
    ASSUME TypeOK, OrderInv,
           typed' = typed, returned' = returned,
           currentword' = currentword, scan_code' \in {scan_code, NoKey},
           Pending' => Pending
    PROVE  OrderInv'
<1>0. typed \in Nat
  BY MaxKeysAssumption DEF TypeOK
<1>1. scan_code' <= typed'
  BY <1>0 DEF OrderInv, NoKey
<1>2. InOrderOnce'
  BY DEF OrderInv, InOrderOnce
<1>3. Pending' => \A i \in 1 .. Len(returned') : returned'[i] < currentword'
  BY DEF OrderInv
<1> QED BY <1>1, <1>2, <1>3 DEF OrderInv

(* OrderInv is an invariant.                                                *)
LEMMA OrderHolds == Spec => []OrderInv
<1>1. Init => OrderInv
  <2> SUFFICES ASSUME Init PROVE OrderInv
    OBVIOUS
  <2>1. Len(returned) = 0 /\ DOMAIN returned = {}
    BY DEF Init
  <2>2. typed = 0 /\ currentword = 0 /\ scan_code = 0
    BY DEF Init, NoKey
  <2>3. InOrderOnce
    BY <2>1 DEF InOrderOnce
  <2> QED BY <2>1, <2>2, <2>3 DEF OrderInv
<1>2. TypeOK /\ TypeOK' /\ OrderInv /\ [Next]_vars => OrderInv'
  <2> SUFFICES ASSUME TypeOK, TypeOK', OrderInv, [Next]_vars PROVE OrderInv'
    OBVIOUS
  <2>0. /\ typed \in Nat /\ currentword \in Nat /\ scan_code \in Nat
        /\ Len(returned) \in Nat
        /\ DOMAIN returned = 1 .. Len(returned)
        /\ \A i \in 1 .. Len(returned) : returned[i] \in Nat
    BY MaxKeysAssumption DEF TypeOK, Key, NoKey
  <2> USE DEF shared, history
  <2>1. CASE KeyIRQ
    <3>1. typed' = typed + 1 /\ returned' = returned /\ scan_code' = scan_code
          /\ pc' = pc /\ currentword' \in {currentword, typed + 1}
      BY <2>1 DEF KeyIRQ
    <3>2. /\ currentword' <= typed'
          /\ scan_code' <= typed'
          /\ \A i \in 1 .. Len(returned') : returned'[i] <= typed'
      BY <3>1, <2>0 DEF OrderInv
    <3>3. InOrderOnce'
      BY <3>1 DEF OrderInv, InOrderOnce
    <3>4. ASSUME Pending'
          PROVE  \A i \in 1 .. Len(returned') : returned'[i] < currentword'
      <4>1. CASE currentword' = typed + 1
        BY <4>1, <3>1, <2>0 DEF OrderInv
      <4>2. CASE currentword' = currentword
        BY <4>2, <3>1, <3>4 DEF OrderInv, Pending
      <4> QED BY <4>1, <4>2, <3>1
    <3> QED BY <3>2, <3>3, <3>4 DEF OrderInv
  <2>2. CASE OpenMailbox
    BY <2>2, OrderKept DEF OpenMailbox, Pending
  <2>3. CASE TestSelectOn
    BY <2>3, OrderKept DEF TestSelectOn, Pending
  <2>4. CASE EnterGetkey
    BY <2>4, OrderKept DEF EnterGetkey, Pending
  <2>5. CASE ClearSelectOn
    BY <2>5, OrderKept DEF ClearSelectOn, Pending
  <2>6. CASE ReadWord
    <3>1. /\ typed' = typed /\ scan_code' = currentword
          /\ currentword' = currentword /\ pc = "read" /\ pc' = "zero"
          /\ returned' = Append(returned, currentword)
      BY <2>6 DEF ReadWord
    <3>2. ~Pending'
      BY <3>1 DEF Pending
    <3>3. /\ Len(returned') = Len(returned) + 1
          /\ DOMAIN returned' = 1 .. Len(returned) + 1
          /\ \A i \in 1 .. Len(returned) : returned'[i] = returned[i]
          /\ returned'[Len(returned) + 1] = currentword
      BY <3>1, AppendFacts DEF TypeOK
    <3>4. \A i \in 1 .. Len(returned') : returned'[i] <= typed'
      BY <3>1, <3>3, <2>0 DEF OrderInv
    <3>5. ASSUME NEW i \in DOMAIN returned', NEW j \in DOMAIN returned',
                 i < j, returned'[i] # NoKey, returned'[j] # NoKey
          PROVE  returned'[i] < returned'[j]
      <4>1. i \in 1 .. Len(returned) /\ returned'[i] = returned[i]
        BY <3>3, <3>5, <2>0
      <4>2. CASE j \in 1 .. Len(returned)
        BY <4>1, <4>2, <3>3, <3>5, <2>0 DEF OrderInv, InOrderOnce
      <4>3. CASE j = Len(returned) + 1
        <5>1. Pending
          BY <3>1, <3>3, <3>5, <4>3 DEF Pending
        <5> QED BY <5>1, <4>1, <4>3, <3>3 DEF OrderInv
      <4> QED BY <4>2, <4>3, <3>3, <2>0
    <3> QED BY <3>1, <3>2, <3>4, <3>5 DEF OrderInv, InOrderOnce
  <2>7. CASE ZeroWord
    <3>1. ~Pending' /\ currentword' = 0 /\ typed' = typed
          /\ scan_code' = scan_code /\ returned' = returned
      BY <2>7 DEF ZeroWord, Pending, NoKey
    <3> QED BY <3>1, <2>0 DEF OrderInv, InOrderOnce
  <2>8. CASE IgnoreKey
    BY <2>8, OrderKept DEF IgnoreKey, Pending
  <2>9. CASE AcceptKey
    BY <2>9, OrderKept DEF AcceptKey, Pending
  <2>10. CASE StartLoop
    BY <2>10, OrderKept DEF StartLoop, Pending
  <2>11. CASE UNCHANGED vars
    BY <2>11, OrderKept DEF vars, Pending
  <2> QED
    BY <2>1, <2>2, <2>3, <2>4, <2>5, <2>6, <2>7, <2>8, <2>9, <2>10, <2>11
    DEF Next, GameStep
<1> QED BY <1>1, <1>2, TypeCorrect, PTL DEF Spec

(* getkey() returns the keystrokes in the order of the typing and none of   *)
(* them twice, for every MaxKeys and every interleaving with do_IRQ.        *)
THEOREM InOrderOnceCorrect == Spec => []InOrderOnce
<1>1. OrderInv => InOrderOnce
  BY DEF OrderInv
<1> QED BY <1>1, OrderHolds, PTL

-----------------------------------------------------------------------------
(* The three globals and the two routines implement the mailbox of one key  *)
(* of KeyChannel: every step is a step of the mailbox or leaves it alone.   *)
THEOREM ChannelImplemented == Spec => ImplementsChannel
<1>1. Init => Channel!Init
  BY DEF Init, Channel!Init, Pending, NoKey, Channel!NoKey
<1>2. TypeOK /\ OrderInv /\ [Next]_vars => [Channel!Next]_(Channel!vars)
  <2> SUFFICES ASSUME TypeOK, OrderInv, [Next]_vars
               PROVE  Channel!Next \/ UNCHANGED Channel!vars
    OBVIOUS
  <2>0. typed \in Nat /\ scan_code \in Nat /\ scan_code <= typed
    BY MaxKeysAssumption DEF TypeOK, OrderInv, Key, NoKey
  <2> DEFINE Box == IF Pending THEN currentword ELSE NoKey
  <2>a. ASSUME typed' = typed, returned' = returned,
               currentword' = currentword, Pending' <=> Pending
        PROVE  UNCHANGED Channel!vars
    BY <2>a DEF Channel!vars
  <2> USE DEF shared, history
  <2>1. CASE KeyIRQ
    <3>1. typed < MaxKeys /\ typed' = typed + 1 /\ returned' = returned
      BY <2>1 DEF KeyIRQ
    <3>2. CASE game_select_start = 1
      <4>1. currentword' = typed + 1 /\ scan_code' = scan_code
        BY <2>1, <3>2 DEF KeyIRQ
      <4>2. Pending'
        BY <4>1, <2>0 DEF Pending, NoKey
      <4> QED BY <3>1, <4>1, <4>2 DEF Channel!Next, Channel!Type
    <3>3. CASE game_select_start # 1
      <4>1. currentword' = currentword /\ scan_code' = scan_code /\ pc' = pc
        BY <2>1, <3>3 DEF KeyIRQ
      <4>2. Pending' <=> Pending
        BY <4>1 DEF Pending
      <4> QED BY <3>1, <4>1, <4>2 DEF Channel!Next, Channel!Type
    <3> QED BY <3>2, <3>3
  <2>2. CASE OpenMailbox
    BY <2>2, <2>a DEF OpenMailbox, Pending
  <2>3. CASE TestSelectOn
    BY <2>3, <2>a DEF TestSelectOn, Pending
  <2>4. CASE EnterGetkey
    BY <2>4, <2>a DEF EnterGetkey, Pending
  <2>5. CASE ClearSelectOn
    BY <2>5, <2>a DEF ClearSelectOn, Pending
  <2>6. CASE ReadWord
    <3>1. /\ typed' = typed /\ ~Pending' /\ Box = currentword
          /\ returned' = Append(returned, currentword)
      BY <2>6 DEF ReadWord, Pending, NoKey
    <3>2. Channel!Read
      BY <3>1 DEF Channel!Read, NoKey, Channel!NoKey
    <3> QED BY <3>2 DEF Channel!Next
  <2>7. CASE ZeroWord
    <3>1. ~Pending' /\ typed' = typed /\ returned' = returned
      BY <2>7 DEF ZeroWord, Pending
    <3>2. CASE Pending
      <4>1. Channel!Lose
        BY <3>1, <3>2
        DEF Channel!Lose, NoKey, Channel!NoKey, Pending
      <4> QED BY <4>1 DEF Channel!Next
    <3>3. CASE ~Pending
      BY <3>1, <3>3 DEF Channel!vars
    <3> QED BY <3>2, <3>3
  <2>8. CASE IgnoreKey
    BY <2>8, <2>a DEF IgnoreKey, Pending
  <2>9. CASE AcceptKey
    BY <2>9, <2>a DEF AcceptKey, Pending
  <2>10. CASE StartLoop
    BY <2>10, <2>a DEF StartLoop, Pending
  <2>11. CASE UNCHANGED vars
    BY <2>11, <2>a DEF vars, Pending
  <2> QED
    BY <2>1, <2>2, <2>3, <2>4, <2>5, <2>6, <2>7, <2>8, <2>9, <2>10, <2>11
    DEF Next, GameStep
<1> QED BY <1>1, <1>2, TypeCorrect, OrderHolds, PTL
    DEF Spec, ImplementsChannel, Channel!Spec

-----------------------------------------------------------------------------
(* The key that waits was typed on this screen or on the one before it; a   *)
(* key that waits while another one is about to be acted on, on this one.   *)
LateInv ==
    /\ currentword # NoKey => visit <= typedIn[currentword] + 1
    /\ scan_code # NoKey /\ pc \in {"zero", "switch"} =>
           visit <= typedIn[scan_code] + 1
    /\ scan_code # NoKey /\ pc = "switch" /\ currentword # NoKey =>
           visit <= typedIn[currentword]

(* A key acts on the screen on which it was typed or on the next one, for   *)
(* every number of keystrokes and every interleaving with do_IRQ.           *)
THEOREM OneScreenLateCorrect == Spec => []OneScreenLate
<1>1. Init => LateInv
  BY DEF Init, LateInv
<1>2. TypeOK /\ LateInv /\ [Next]_vars => LateInv'
  <2> SUFFICES ASSUME TypeOK, LateInv, [Next]_vars PROVE LateInv'
    OBVIOUS
  <2>0. /\ visit \in Nat
        /\ \A k \in Key : typedIn[k] \in Nat
        /\ currentword # NoKey => typedIn[currentword] \in Nat
        /\ scan_code # NoKey => typedIn[scan_code] \in Nat
    BY DEF TypeOK
  <2> USE <2>0 DEF LateInv, shared, history
  <2>1. CASE KeyIRQ
    <3>1. /\ typed + 1 \in Key /\ visit' = visit /\ pc' = pc
          /\ scan_code' = scan_code
          /\ typedIn' = [typedIn EXCEPT ![typed + 1] = visit]
          /\ currentword' \in {currentword, typed + 1}
      BY <2>1, MaxKeysAssumption DEF KeyIRQ, TypeOK, Key
    <3>2. ASSUME NEW k \in Key, visit <= typedIn[k] + 1
          PROVE  visit <= typedIn'[k] + 1
      BY <3>1, <3>2 DEF TypeOK
    <3>3. ASSUME NEW k \in Key, visit <= typedIn[k]
          PROVE  visit <= typedIn'[k]
      BY <3>1, <3>3 DEF TypeOK
    <3>4. visit <= typedIn'[typed + 1]
      BY <3>1 DEF TypeOK
    <3>5. typedIn'[typed + 1] \in Nat
      BY <3>1 DEF TypeOK
    <3> QED BY <3>1, <3>2, <3>3, <3>4, <3>5 DEF TypeOK
  <2>2. CASE OpenMailbox
    BY <2>2 DEF OpenMailbox
  <2>3. CASE TestSelectOn
    BY <2>3 DEF TestSelectOn
  <2>4. CASE EnterGetkey
    BY <2>4 DEF EnterGetkey
  <2>5. CASE ClearSelectOn
    BY <2>5 DEF ClearSelectOn
  <2>6. CASE ReadWord
    BY <2>6 DEF ReadWord
  <2>7. CASE ZeroWord
    BY <2>7 DEF ZeroWord
  <2>8. CASE IgnoreKey
    BY <2>8 DEF IgnoreKey
  <2>9. CASE AcceptKey
    <3>1. /\ visit' = visit + 1 /\ typedIn' = typedIn /\ pc = "switch"
          /\ pc' = "busy" /\ currentword' = currentword
          /\ scan_code # NoKey
      BY <2>9 DEF AcceptKey
    <3> QED BY <3>1
  <2>10. CASE StartLoop
    BY <2>10 DEF StartLoop
  <2>11. CASE UNCHANGED vars
    BY <2>11 DEF vars
  <2> QED
    BY <2>1, <2>2, <2>3, <2>4, <2>5, <2>6, <2>7, <2>8, <2>9, <2>10, <2>11
    DEF Next, GameStep
<1>3. LateInv => OneScreenLate
  BY DEF LateInv, OneScreenLate
<1> QED BY <1>1, <1>2, <1>3, TypeCorrect, PTL DEF Spec
=============================================================================

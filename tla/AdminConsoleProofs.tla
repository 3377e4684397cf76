------------------------- MODULE AdminConsoleProofs -------------------------
(***************************************************************************)
(* What PgTokenStore promises for any tokens, callers and failed methods:  *)
(* PgInv is inductive; a confirmed revocation is final, a confirmed        *)
(* creation works, and the token lifecycle is implemented.                 *)
(*                                                                         *)
(* What AdminConsole promises for any tabs, clients and tokens: a login    *)
(* that nothing comes in the way of does not end in an error; the console  *)
(* uses the token store as PgTokenStore has it, so that what is proved of  *)
(* the store holds behind the console; and the admin page tells the truth. *)
(***************************************************************************)
EXTENDS AdminConsole, TLAPS

-----------------------------------------------------------------------------
(* What one statement does to the table                                    *)

\* A statement that is due, executed: the table stays true, nothing that is gone
\* comes back, and what was kept is lost only to somebody who set out to end it.
LEMMA EffectOnTable ==
  ASSUME PgInv, NEW op \in Ops, NEW t \in Tokens, Effect(op, t),
         OrphanInv([op |-> op, token |-> t]),
         UNCHANGED <<saved, issued, attempted, confirmed, dbExpired>>
  PROVE  /\ rows' \in [Tokens -> {"none", "live", "revoked"}]
         /\ inserted' \subseteq Tokens
         /\ inserted \subseteq inserted'
         /\ inserted' \ inserted \subseteq {t}
         /\ op # "save" => inserted' = inserted
         /\ op = "save" => Kept(t)'
         /\ op \in {"revoke", "delete"} /\ Hits(op, t) => Gone(t)'
         /\ \A u \in Tokens : Gone(u) => Gone(u)'
         /\ \A u \in Tokens : Kept(u) => Kept(u)'
         /\ TableInv'
<1>1. /\ op = "save" => t \in saved /\ t \notin inserted /\ rows[t] = "none"
      /\ op \in {"revoke", "delete"} => t \in attempted
  BY DEF OrphanInv, PgInv, TableInv
<1>2. /\ rows' = [rows EXCEPT ![t] = After(op, t)]
      /\ inserted' = IF op = "save" THEN inserted \union {t} ELSE inserted
  BY DEF Effect
<1>3. /\ rows \in [Tokens -> {"none", "live", "revoked"}]
      /\ inserted \subseteq Tokens /\ saved \subseteq Tokens
      /\ confirmed \subseteq Tokens /\ issued \subseteq Tokens
  BY DEF PgInv, PgTypeOK
<1>4. /\ op = "save" => After(op, t) = "live"
      /\ op = "get" => After(op, t) = rows[t]
      /\ op = "revoke" => After(op, t) = IF rows[t] = "none" THEN "none" ELSE "revoked"
      /\ op = "delete" => After(op, t) = "none"
  BY <1>1 DEF After, Ops
<1>5. After(op, t) \in {"none", "live", "revoked"}
  BY <1>3, <1>4 DEF Ops
<1>6. rows' \in [Tokens -> {"none", "live", "revoked"}] /\ inserted' \subseteq Tokens
  BY <1>2, <1>3, <1>5
<1>7. rows'[t] = After(op, t) /\ \A u \in Tokens \ {t} : rows'[u] = rows[u]
  BY <1>2, <1>3
<1>8. /\ inserted \subseteq inserted' /\ inserted' \ inserted \subseteq {t}
      /\ op # "save" => inserted' = inserted
      /\ op = "save" => t \in inserted'
  BY <1>2
<1>9. op = "save" => Kept(t)'
  BY <1>4, <1>7, <1>8 DEF Kept
<1>10. ASSUME op \in {"revoke", "delete"}, Hits(op, t) PROVE Gone(t)'
  <2>1. rows[t] # "none"
    BY <1>10 DEF Hits
  <2>2. t \in inserted
    BY <2>1 DEF PgInv, TableInv
  <2>. QED  BY <1>4, <1>7, <1>8, <1>10, <2>1, <2>2 DEF Gone
<1>11. ASSUME NEW u \in Tokens, Gone(u) PROVE Gone(u)'
  <2>1. u \in inserted /\ rows[u] # "live"
    BY <1>11 DEF Gone
  <2>2. rows'[u] # "live"
    BY <1>1, <1>4, <1>7, <2>1 DEF Ops
  <2>. QED  BY <1>8, <2>1, <2>2 DEF Gone
<1>12. ASSUME NEW u \in Tokens, Kept(u) PROVE Kept(u)'
  <2>1. u \in inserted /\ (rows[u] = "live" \/ u \in attempted \/ u \in dbExpired)
    BY <1>12 DEF Kept
  <2>2. rows'[u] = "live" \/ u \in attempted \/ u \in dbExpired
    BY <1>1, <1>4, <1>7, <2>1 DEF Ops
  <2>. QED  BY <1>8, <2>1, <2>2 DEF Kept
<1>13. TableInv'
  <2>1. inserted' \subseteq saved'
    BY <1>1, <1>2 DEF PgInv, TableInv
  <2>2. ASSUME NEW u \in Tokens, rows'[u] # "none" PROVE u \in inserted'
    <3>1. CASE u # t
      BY <1>7, <1>8, <2>2, <3>1 DEF PgInv, TableInv
    <3>2. CASE u = t /\ op = "save"
      BY <1>8, <3>2
    <3>3. CASE u = t /\ op # "save"
      <4>1. rows[t] # "none"
        BY <1>4, <1>7, <2>2, <3>3 DEF Ops
      <4>. QED  BY <1>8, <3>3, <4>1 DEF PgInv, TableInv
    <3>. QED  BY <3>1, <3>2, <3>3
  <2>3. \A u \in confirmed' : Gone(u)'
    BY <1>3, <1>11 DEF PgInv, TableInv
  <2>4. \A u \in issued' : Kept(u)'
    BY <1>3, <1>12 DEF PgInv, TableInv
  <2>. QED  BY <2>1, <2>2, <2>3, <2>4 DEF TableInv
<1>. QED  BY <1>6, <1>8, <1>9, <1>10, <1>11, <1>12, <1>13

-----------------------------------------------------------------------------
(* PgInv is inductive                                                      *)

\* What a step may do without harming what other methods have learnt.
Onward ==
  /\ confirmed \subseteq confirmed' /\ attempted \subseteq attempted' /\ saved \subseteq saved'
  /\ \A u \in Tokens : Gone(u) => Gone(u)'
  /\ \A u \in Tokens : Kept(u) => Kept(u)'

\* A method that does not move keeps its invariant.
LEMMA CallKept ==
  ASSUME PgInv, Onward, NEW d \in Callers, call'[d] = call[d], call[d] # NoCall,
         Saves(call[d]) => call[d].token \notin inserted'
  PROVE  CallInv(call[d])'
<1>1. call[d] \in Calls /\ CallInv(call[d])
  BY DEF PgInv, PgTypeOK
<1>2. call[d].token \in Tokens
  BY <1>1 DEF Calls
<1>. QED  BY <1>1, <1>2 DEF CallInv, Saves, Onward

\* So does a statement that is on its way.
LEMMA OrphanKept ==
  ASSUME PgInv, Onward, NEW o \in orphans, o.op = "save" => o.token \notin inserted'
  PROVE  OrphanInv(o)'
<1>1. OrphanInv(o)
  BY DEF PgInv
<1>. QED  BY <1>1 DEF OrphanInv, Onward

\* When the table does not change, nothing is lost.
LEMMA TableRests ==
  ASSUME PgInv, rows' = rows, inserted' = inserted,
         confirmed \subseteq confirmed', attempted \subseteq attempted',
         saved \subseteq saved', dbExpired \subseteq dbExpired'
  PROVE  /\ Onward
         /\ \A d \in Callers : call[d] # NoCall /\ Saves(call[d])
                                   => call[d].token \notin inserted'
         /\ \A o \in orphans : o.op = "save" => o.token \notin inserted'
<1>1. Onward
  BY DEF Onward, Gone, Kept
<1>2. \A d \in Callers : call[d] # NoCall /\ Saves(call[d])
                            => call[d].token \notin inserted'
  BY DEF PgInv, CallInv
<1>3. \A o \in orphans : o.op = "save" => o.token \notin inserted'
  BY DEF PgInv, OrphanInv
<1>. QED  BY <1>1, <1>2, <1>3

\* A method is called.
LEMMA SendKeeps ==
  ASSUME PgInv, NEW c \in Callers, NEW op \in Ops, NEW t \in Tokens, Send(c, op, t)
  PROVE  PgInv'
<1>1. PICK k : k = [op |-> op, token |-> t, state |-> "sent", hit |-> FALSE,
                    late |-> t \in confirmed]
  OBVIOUS
<1>2. /\ call[c] = NoCall
      /\ call' = [call EXCEPT ![c] = k]
      /\ op = "save" => t \notin saved
      /\ saved' = IF op = "save" THEN saved \union {t} ELSE saved
      /\ attempted' = IF op \in {"revoke", "delete"} THEN attempted \union {t} ELSE attempted
      /\ UNCHANGED <<rows, orphans, inserted, issued, confirmed, dbExpired, nodeExpired,
                     failures>>
  BY <1>1 DEF Send
<1>3. PgTypeOK
  BY DEF PgInv
<1>4. k \in Calls
  <2>1. (t \in confirmed) \in BOOLEAN
    OBVIOUS
  <2>. QED  BY <1>1, <2>1 DEF Calls
<1>5. call'[c] = k /\ \A d \in Callers \ {c} : call'[d] = call[d]
  BY <1>2, <1>3 DEF PgTypeOK
<1>6. PgTypeOK'
  BY <1>2, <1>3, <1>4 DEF PgTypeOK
<1>7. /\ Onward
      /\ \A d \in Callers : call[d] # NoCall /\ Saves(call[d])
                                => call[d].token \notin inserted'
      /\ \A o \in orphans : o.op = "save" => o.token \notin inserted'
  BY <1>2, TableRests
<1>8. TableInv'
  <2>1. inserted' \subseteq saved'
    BY <1>2 DEF PgInv, TableInv
  <2>2. \A u \in Tokens : rows'[u] # "none" => u \in inserted'
    BY <1>2 DEF PgInv, TableInv
  <2>3. (\A u \in confirmed' : Gone(u)') /\ (\A u \in issued' : Kept(u)')
    BY <1>2, <1>3, <1>7 DEF PgInv, TableInv, Onward, PgTypeOK
  <2>. QED  BY <2>1, <2>2, <2>3 DEF TableInv
<1>9. CallInv(k)'
  <2>1. /\ k.op = op /\ k.token = t /\ k.state = "sent" /\ k.hit = FALSE
        /\ k.late <=> t \in confirmed
    BY <1>1
  <2>2. t \in confirmed' <=> t \in confirmed
    BY <1>2
  <2>3. op = "save" => t \in saved' \ inserted'
    BY <1>2 DEF PgInv, TableInv
  <2>4. op \in {"revoke", "delete"} => t \in attempted'
    BY <1>2
  <2>. QED  BY <1>2, <2>1, <2>2, <2>3, <2>4 DEF CallInv, Saves
<1>10. ASSUME NEW d \in Callers, call'[d] # NoCall PROVE CallInv(call[d])'
  <2>1. CASE d = c
    BY <1>5, <1>9, <2>1
  <2>2. CASE d # c
    BY <1>5, <1>7, <1>10, <2>2, CallKept
  <2>. QED  BY <2>1, <2>2
<1>11. \A o \in orphans' : OrphanInv(o)'
  BY <1>2, <1>7, OrphanKept
<1>12. OneSave'
  <2>1. k.op = op /\ k.token = t /\ k.state = "sent"
    BY <1>1
  <2>2. op = "save" => \A d \in Callers : call[d] # NoCall /\ Saves(call[d]) => call[d].token # t
    BY <1>2 DEF PgInv, CallInv
  <2>3. op = "save" => \A o \in orphans : o.op = "save" => o.token # t
    BY <1>2 DEF PgInv, OrphanInv
  <2>4. ASSUME NEW e \in Callers, call'[e] # NoCall, Saves(call'[e])
        PROVE  /\ \A d \in Callers \ {e} :
                    call'[d] # NoCall /\ Saves(call'[d]) => call'[d].token # call'[e].token
               /\ \A o \in orphans' : o.op = "save" => o.token # call'[e].token
    <3>1. CASE e = c
      BY <1>2, <1>5, <2>1, <2>2, <2>3, <2>4, <3>1 DEF Saves
    <3>2. CASE e # c
      <4>1. call'[e] = call[e]
        BY <1>5, <3>2
      <4>2. ASSUME NEW d \in Callers \ {e}, call'[d] # NoCall, Saves(call'[d])
            PROVE  call'[d].token # call'[e].token
        <5>1. CASE d = c
          BY <1>5, <2>1, <2>2, <2>4, <4>1, <4>2, <5>1 DEF Saves
        <5>2. CASE d # c
          BY <1>5, <2>4, <4>1, <4>2, <5>2 DEF PgInv, OneSave
        <5>. QED  BY <5>1, <5>2
      <4>3. \A o \in orphans' : o.op = "save" => o.token # call'[e].token
        BY <1>2, <2>4, <4>1 DEF PgInv, OneSave
      <4>. QED  BY <4>2, <4>3
    <3>. QED  BY <3>1, <3>2
  <2>. QED  BY <2>4 DEF OneSave, Saves
<1>. QED  BY <1>6, <1>8, <1>10, <1>11, <1>12 DEF PgInv

\* Its statement is executed.
LEMMA ExecuteKeeps ==
  ASSUME PgInv, NEW c \in Callers, Execute(c)
  PROVE  PgInv'
<1>1. /\ PgTypeOK /\ call[c] # NoCall /\ call[c] \in Calls /\ CallInv(call[c])
      /\ call[c].state = "sent"
  BY DEF PgInv, PgTypeOK, Execute
<1>2. PICK op, t : op = call[c].op /\ t = call[c].token
  OBVIOUS
<1>3. op \in Ops /\ t \in Tokens
  BY <1>1, <1>2 DEF Calls
<1>4. PICK hit : hit = Hits(op, t)
  OBVIOUS
<1>5. hit \in BOOLEAN
  BY <1>4 DEF Hits
<1>6. /\ Effect(op, t)
      /\ call' = [call EXCEPT ![c] = [call[c] EXCEPT !.state = "executed", !.hit = hit]]
      /\ UNCHANGED <<orphans, saved, issued, attempted, confirmed, dbExpired,
                     nodeExpired, failures>>
  BY <1>2, <1>4 DEF Execute
<1>7. OrphanInv([op |-> op, token |-> t])
  BY <1>1, <1>2 DEF OrphanInv, CallInv, Saves
<1>8. /\ rows' \in [Tokens -> {"none", "live", "revoked"}]
      /\ inserted' \subseteq Tokens
      /\ inserted' \ inserted \subseteq {t}
      /\ op # "save" => inserted' = inserted
      /\ op = "save" => Kept(t)'
      /\ op \in {"revoke", "delete"} /\ hit => Gone(t)'
      /\ TableInv'
      /\ Onward
  BY <1>3, <1>4, <1>6, <1>7, EffectOnTable DEF Onward
<1>9. PICK k : k = [call[c] EXCEPT !.state = "executed", !.hit = hit]
  OBVIOUS
<1>10. /\ k \in Calls /\ k # NoCall
       /\ k.op = op /\ k.token = t /\ k.state = "executed" /\ k.hit = hit
       /\ k.late = call[c].late
  <2>1. k \in Calls /\ k.op = op /\ k.token = t /\ k.state = "executed" /\ k.hit = hit
        /\ k.late = call[c].late
    BY <1>1, <1>2, <1>5, <1>9 DEF Calls
  <2>2. k # NoCall
    BY <1>3, <2>1 DEF NoCall, Ops
  <2>. QED  BY <2>1, <2>2
<1>11. call'[c] = k /\ \A d \in Callers \ {c} : call'[d] = call[d]
  BY <1>1, <1>6, <1>9 DEF PgTypeOK
<1>12. PgTypeOK'
  BY <1>1, <1>6, <1>8, <1>9, <1>10 DEF PgTypeOK
<1>13. CallInv(k)'
  <2>1. k.late => t \in confirmed'
    BY <1>1, <1>2, <1>6, <1>10 DEF CallInv
  <2>2. op \in {"revoke", "delete"} => t \in attempted'
    BY <1>1, <1>2, <1>6 DEF CallInv
  <2>3. op = "get" /\ hit => ~k.late
    <3>1. op = "get" /\ hit => rows[t] = "live"
      BY <1>4 DEF Hits
    <3>2. k.late => rows[t] # "live"
      BY <2>1, <1>6 DEF PgInv, TableInv, Gone
    <3>. QED  BY <3>1, <3>2
  <2>. QED  BY <1>8, <1>10, <2>1, <2>2, <2>3 DEF CallInv, Saves
<1>14. ASSUME NEW d \in Callers, call'[d] # NoCall PROVE CallInv(call[d])'
  <2>1. CASE d = c
    BY <1>11, <1>13, <2>1
  <2>2. CASE d # c
    <3>1. Saves(call[d]) => call[d].token \notin inserted'
      <4>1. CASE op = "save"
        <5>1. Saves(call[d]) => call[d].token # t
          BY <1>1, <1>2, <1>11, <1>14, <2>2, <4>1 DEF PgInv, OneSave, Saves
        <5>2. Saves(call[d]) => call[d].token \notin inserted
          BY <1>11, <1>14, <2>2 DEF PgInv, CallInv
        <5>. QED  BY <1>8, <5>1, <5>2
      <4>2. CASE op # "save"
        BY <1>8, <1>11, <1>14, <2>2, <4>2 DEF PgInv, CallInv
      <4>. QED  BY <4>1, <4>2
    <3>. QED  BY <1>8, <1>11, <1>14, <2>2, <3>1, CallKept
  <2>. QED  BY <2>1, <2>2
<1>15. ASSUME NEW o \in orphans' PROVE OrphanInv(o)'
  <2>1. o \in orphans /\ OrphanInv(o)
    BY <1>6, <1>15 DEF PgInv
  <2>2. o.op = "save" => o.token \notin inserted'
    <3>1. CASE op = "save"
      BY <1>1, <1>2, <1>8, <2>1, <3>1 DEF PgInv, OneSave, Saves, OrphanInv
    <3>2. CASE op # "save"
      BY <1>8, <2>1, <3>2 DEF OrphanInv
    <3>. QED  BY <3>1, <3>2
  <2>. QED  BY <1>8, <2>1, <2>2, OrphanKept
<1>16. OneSave'
  <2>1. ~Saves(call'[c])
    BY <1>10, <1>11 DEF Saves
  <2>. QED  BY <1>6, <1>11, <2>1 DEF PgInv, OneSave, Saves
<1>. QED  BY <1>8, <1>12, <1>14, <1>15, <1>16 DEF PgInv

\* A statement arrives whose method has returned.
LEMMA ArriveKeeps ==
  ASSUME PgInv, NEW s \in Statements, Arrive(s)
  PROVE  PgInv'
<1>1. /\ PgTypeOK /\ s \in orphans /\ s.op \in Ops /\ s.token \in Tokens
      /\ Effect(s.op, s.token)
      /\ orphans' = orphans \ {s}
      /\ UNCHANGED <<call, saved, issued, attempted, confirmed, dbExpired, nodeExpired,
                     failures>>
  BY DEF PgInv, Arrive, Statements
<1>2. OrphanInv([op |-> s.op, token |-> s.token])
  BY <1>1 DEF PgInv, OrphanInv
<1>3. /\ rows' \in [Tokens -> {"none", "live", "revoked"}]
      /\ inserted' \subseteq Tokens
      /\ inserted' \ inserted \subseteq {s.token}
      /\ s.op # "save" => inserted' = inserted
      /\ TableInv'
      /\ Onward
  BY <1>1, <1>2, EffectOnTable DEF Onward
<1>4. PgTypeOK'
  BY <1>1, <1>3 DEF PgTypeOK
<1>5. ASSUME NEW d \in Callers, call'[d] # NoCall PROVE CallInv(call[d])'
  <2>1. call'[d] = call[d] /\ call[d] # NoCall /\ CallInv(call[d])
    BY <1>1, <1>5 DEF PgInv
  <2>2. Saves(call[d]) => call[d].token \notin inserted'
    <3>1. CASE s.op = "save"
      BY <1>1, <1>3, <2>1, <3>1 DEF PgInv, OneSave, CallInv
    <3>2. CASE s.op # "save"
      BY <1>3, <2>1, <3>2 DEF CallInv
    <3>. QED  BY <3>1, <3>2
  <2>. QED  BY <1>3, <2>1, <2>2, CallKept
<1>6. ASSUME NEW o \in orphans' PROVE OrphanInv(o)'
  <2>1. o \in orphans /\ o # s /\ OrphanInv(o) /\ o \in Statements
    BY <1>1, <1>6 DEF PgInv, PgTypeOK
  <2>2. o.op = "save" => o.token \notin inserted'
    <3>1. CASE s.op = "save" /\ o.op = "save"
      <4>1. o.token # s.token
        BY <2>1, <3>1 DEF Statements
      <4>. QED  BY <1>3, <2>1, <3>1, <4>1 DEF OrphanInv
    <3>2. CASE s.op # "save"
      BY <1>3, <2>1, <3>2 DEF OrphanInv
    <3>. QED  BY <3>1, <3>2
  <2>. QED  BY <1>3, <2>1, <2>2, OrphanKept
<1>7. OneSave'
  BY <1>1 DEF PgInv, OneSave, Saves
<1>. QED  BY <1>3, <1>4, <1>5, <1>6, <1>7 DEF PgInv

\* A method returns its result.
LEMMA ReturnKeeps ==
  ASSUME PgInv, NEW c \in Callers, Return(c)
  PROVE  PgInv'
<1>1. /\ PgTypeOK /\ call[c] # NoCall /\ call[c] \in Calls /\ CallInv(call[c])
      /\ call[c].state = "executed" /\ call[c].token \in Tokens
      /\ call' = [call EXCEPT ![c] = NoCall]
      /\ issued' = IF call[c].op = "save" THEN issued \union {call[c].token} ELSE issued
      /\ confirmed' = IF call[c].op \in {"revoke", "delete"} /\ call[c].hit
                      THEN confirmed \union {call[c].token} ELSE confirmed
      /\ UNCHANGED <<rows, orphans, saved, inserted, attempted, dbExpired, nodeExpired,
                     failures>>
  BY DEF PgInv, PgTypeOK, Return, Calls
<1>2. call'[c] = NoCall /\ \A d \in Callers \ {c} : call'[d] = call[d]
  BY <1>1 DEF PgTypeOK
<1>3. /\ Onward
      /\ \A d \in Callers : call[d] # NoCall /\ Saves(call[d])
                                => call[d].token \notin inserted'
      /\ \A o \in orphans : o.op = "save" => o.token \notin inserted'
  <2>1. confirmed \subseteq confirmed'
    BY <1>1
  <2>. QED  BY <1>1, <2>1, TableRests
<1>4. PgTypeOK'
  BY <1>1 DEF PgTypeOK
<1>5. TableInv'
  <2>1. inserted' \subseteq saved' /\ \A u \in Tokens : rows'[u] # "none" => u \in inserted'
    BY <1>1 DEF PgInv, TableInv
  <2>2. \A u \in confirmed' : Gone(u)
    BY <1>1 DEF PgInv, TableInv, CallInv
  <2>3. \A u \in issued' : Kept(u)
    BY <1>1 DEF PgInv, TableInv, CallInv
  <2>4. (\A u \in confirmed' : Gone(u)') /\ (\A u \in issued' : Kept(u)')
    BY <1>1, <1>3, <1>4, <2>2, <2>3 DEF Onward, PgTypeOK
  <2>. QED  BY <2>1, <2>4 DEF TableInv
<1>6. \A d \in Callers : call'[d] # NoCall => CallInv(call[d])'
  BY <1>2, <1>3, CallKept
<1>7. \A o \in orphans' : OrphanInv(o)'
  BY <1>1, <1>3, OrphanKept
<1>8. OneSave'
  BY <1>1, <1>2 DEF PgInv, OneSave, Saves
<1>. QED  BY <1>4, <1>5, <1>6, <1>7, <1>8 DEF PgInv

\* A method returns an error, and its statement may still be on its way.
LEMMA FailKeeps ==
  ASSUME PgInv, NEW c \in Callers, Fail(c)
  PROVE  PgInv'
<1>1. PICK o : o = [op |-> call[c].op, token |-> call[c].token]
  OBVIOUS
<1>2. /\ PgTypeOK /\ call[c] # NoCall /\ call[c] \in Calls /\ CallInv(call[c])
      /\ call' = [call EXCEPT ![c] = NoCall]
      /\ orphans' = orphans \/ (call[c].state = "sent" /\ orphans' = orphans \union {o})
      /\ failures' = failures + 1
      /\ UNCHANGED <<rows, saved, inserted, issued, attempted, confirmed, dbExpired,
                     nodeExpired>>
  BY <1>1 DEF PgInv, PgTypeOK, Fail
<1>3. /\ o \in Statements /\ o.op = call[c].op /\ o.token = call[c].token
      /\ call[c].op \in Ops
  BY <1>1, <1>2 DEF Calls, Statements
<1>4. call'[c] = NoCall /\ \A d \in Callers \ {c} : call'[d] = call[d]
  BY <1>2 DEF PgTypeOK
<1>5. /\ Onward
      /\ \A d \in Callers : call[d] # NoCall /\ Saves(call[d])
                                => call[d].token \notin inserted'
      /\ \A p \in orphans : p.op = "save" => p.token \notin inserted'
  BY <1>2, TableRests
<1>6. PgTypeOK'
  BY <1>2, <1>3 DEF PgTypeOK
<1>7. TableInv'
  BY <1>2 DEF PgInv, TableInv, Gone, Kept
<1>8. \A d \in Callers : call'[d] # NoCall => CallInv(call[d])'
  BY <1>4, <1>5, CallKept
<1>9. call[c].state = "sent" => OrphanInv(o)'
  BY <1>2, <1>3 DEF CallInv, OrphanInv, Saves
<1>10. \A p \in orphans' : OrphanInv(p)'
  BY <1>2, <1>5, <1>9, OrphanKept
<1>11. OneSave'
  <2>1. ASSUME NEW e \in Callers, call'[e] # NoCall, Saves(call'[e])
        PROVE  /\ \A d \in Callers \ {e} :
                    call'[d] # NoCall /\ Saves(call'[d]) => call'[d].token # call'[e].token
               /\ \A p \in orphans' : p.op = "save" => p.token # call'[e].token
    <3>1. e # c /\ call'[e] = call[e]
      BY <1>4, <2>1
    <3>2. ASSUME NEW d \in Callers \ {e}, call'[d] # NoCall, Saves(call'[d])
          PROVE  call'[d].token # call'[e].token
      BY <1>4, <2>1, <3>1, <3>2 DEF PgInv, OneSave
    <3>3. call[c].state = "sent" /\ o.op = "save" => o.token # call'[e].token
      BY <1>2, <1>3, <2>1, <3>1 DEF PgInv, OneSave, Saves
    <3>4. \A p \in orphans : p.op = "save" => p.token # call'[e].token
      BY <2>1, <3>1 DEF PgInv, OneSave
    <3>. QED  BY <1>2, <3>2, <3>3, <3>4
  <2>. QED  BY <2>1 DEF OneSave, Saves
<1>. QED  BY <1>6, <1>7, <1>8, <1>10, <1>11 DEF PgInv

\* Time passes, and the purge takes what has expired.
LEMMA TimeKeeps ==
  ASSUME PgInv, purgeExpired \/ \E t \in Tokens : Expire(t)
  PROVE  PgInv'
<1>1. /\ PgTypeOK
      /\ dbExpired \subseteq dbExpired' /\ dbExpired' \subseteq Tokens
      /\ nodeExpired' \subseteq Tokens
      /\ UNCHANGED <<call, orphans, saved, inserted, issued, attempted, confirmed, failures>>
  BY DEF PgInv, PgTypeOK, purgeExpired, Expire
<1>2. /\ rows' \in [Tokens -> {"none", "live", "revoked"}]
      /\ \A u \in Tokens : rows'[u] = rows[u] \/ (rows'[u] = "none" /\ u \in dbExpired)
  BY <1>1 DEF PgTypeOK, purgeExpired, Expire
<1>3. PgTypeOK'
  BY <1>1, <1>2 DEF PgTypeOK
<1>4. Onward
  <2>1. \A u \in Tokens : Gone(u) => Gone(u)'
    BY <1>1, <1>2 DEF Gone
  <2>2. \A u \in Tokens : Kept(u) => Kept(u)'
    BY <1>1, <1>2 DEF Kept
  <2>. QED  BY <1>1, <2>1, <2>2 DEF Onward
<1>5. TableInv'
  <2>1. inserted' \subseteq saved' /\ \A u \in Tokens : rows'[u] # "none" => u \in inserted'
    BY <1>1, <1>2 DEF PgInv, TableInv
  <2>2. (\A u \in confirmed' : Gone(u)') /\ (\A u \in issued' : Kept(u)')
    BY <1>1, <1>4 DEF PgInv, TableInv, Onward, PgTypeOK
  <2>. QED  BY <2>1, <2>2 DEF TableInv
<1>6. ASSUME NEW d \in Callers, call'[d] # NoCall PROVE CallInv(call[d])'
  <2>1. call'[d] = call[d] /\ call[d] # NoCall /\ CallInv(call[d])
    BY <1>1, <1>6 DEF PgInv
  <2>2. Saves(call[d]) => call[d].token \notin inserted'
    BY <1>1, <2>1 DEF CallInv
  <2>. QED  BY <1>4, <2>1, <2>2, CallKept
<1>7. ASSUME NEW o \in orphans' PROVE OrphanInv(o)'
  <2>1. o \in orphans /\ OrphanInv(o)
    BY <1>1, <1>7 DEF PgInv
  <2>2. o.op = "save" => o.token \notin inserted'
    BY <1>1, <2>1 DEF OrphanInv
  <2>. QED  BY <1>4, <2>1, <2>2, OrphanKept
<1>8. OneSave'
  BY <1>1 DEF PgInv, OneSave, Saves
<1>. QED  BY <1>3, <1>5, <1>6, <1>7, <1>8 DEF PgInv

\* PgInv holds of an empty table.
LEMMA InitHolds == PgInit => PgInv
<1>. SUFFICES ASSUME PgInit PROVE PgInv
  OBVIOUS
<1>1. \A c \in Callers : call[c] = NoCall
  BY DEF PgInit
<1>2. PgTypeOK
  BY DEF PgInit, PgTypeOK
<1>3. TableInv
  BY DEF PgInit, TableInv
<1>. QED  BY <1>1, <1>2, <1>3 DEF PgInit, PgInv, OneSave

\* Every step, of a method, a late statement or a clock, keeps PgInv.
LEMMA StepKeeps == PgInv /\ [PgNext]_pgVars => PgInv'
<1>. SUFFICES ASSUME PgInv, [PgNext]_pgVars PROVE PgInv'
  OBVIOUS
<1>1. CASE \E c \in Callers, op \in Ops, t \in Tokens : Send(c, op, t)
  BY <1>1, SendKeeps
<1>2. CASE \E c \in Callers : Execute(c)
  BY <1>2, ExecuteKeeps
<1>3. CASE \E c \in Callers : Return(c)
  BY <1>3, ReturnKeeps
<1>4. CASE \E c \in Callers : Fail(c)
  BY <1>4, FailKeeps
<1>5. CASE \E s \in Statements : Arrive(s)
  BY <1>5, ArriveKeeps
<1>6. CASE purgeExpired \/ \E t \in Tokens : Expire(t)
  BY <1>6, TimeKeeps
<1>7. CASE UNCHANGED pgVars \/ ListFails
  BY <1>7 DEF pgVars, ListFails, PgInv, PgTypeOK, TableInv, CallInv, OrphanInv, OneSave, Saves,
              Gone, Kept
<1>. QED  BY <1>1, <1>2, <1>3, <1>4, <1>5, <1>6, <1>7 DEF PgNext, PgStep

\* The invariant that everything below rests on.
THEOREM TableIsSound == PgSpec => []PgInv
<1>. QED  BY InitHolds, StepKeeps, PTL DEF PgSpec

-----------------------------------------------------------------------------
(* What follows                                                            *)

\* Whoever calls the store after a revocation or deletion was confirmed does not
\* find the token live, whatever statements are still on their way.
THEOREM RevocationIsFinal == PgSpec => []RevocationSticks
<1>1. PgInv => RevocationSticks
  BY DEF PgInv, CallInv, RevocationSticks
<1>. QED  BY <1>1, TableIsSound, PTL

\* A token answered 201 has its live row until somebody sets out to end it or its
\* expiry passes.
THEOREM IssuanceIsDurable == PgSpec => []IssuedTokenWorks
<1>1. PgInv => IssuedTokenWorks
  BY DEF PgInv, TableInv, Kept, IssuedTokenWorks
<1>. QED  BY <1>1, TableIsSound, PTL

\* What is gone stays gone, and rows are inserted once.
LEMMA TableMovesOn ==
  ASSUME PgInv, PgNext
  PROVE  /\ inserted \subseteq inserted' /\ nodeExpired \subseteq nodeExpired'
         /\ \A u \in Tokens : Gone(u) => Gone(u)'
<1>1. ASSUME NEW op \in Ops, NEW t \in Tokens, Effect(op, t),
             OrphanInv([op |-> op, token |-> t]),
             UNCHANGED <<saved, issued, attempted, confirmed, dbExpired, nodeExpired>>
      PROVE  /\ inserted \subseteq inserted' /\ nodeExpired \subseteq nodeExpired'
             /\ \A u \in Tokens : Gone(u) => Gone(u)'
  BY <1>1, EffectOnTable
<1>2. ASSUME NEW c \in Callers, Execute(c)
      PROVE  /\ inserted \subseteq inserted' /\ nodeExpired \subseteq nodeExpired'
             /\ \A u \in Tokens : Gone(u) => Gone(u)'
  <2>1. /\ call[c].op \in Ops /\ call[c].token \in Tokens
        /\ call[c] # NoCall /\ call[c].state = "sent" /\ CallInv(call[c])
        /\ Effect(call[c].op, call[c].token)
        /\ UNCHANGED <<saved, issued, attempted, confirmed, dbExpired, nodeExpired>>
    BY <1>2 DEF Execute, PgInv, PgTypeOK, Calls
  <2>2. OrphanInv([op |-> call[c].op, token |-> call[c].token])
    BY <2>1 DEF OrphanInv, CallInv, Saves
  <2>. QED  BY <1>1, <2>1, <2>2
<1>3. ASSUME NEW s \in Statements, Arrive(s)
      PROVE  /\ inserted \subseteq inserted' /\ nodeExpired \subseteq nodeExpired'
             /\ \A u \in Tokens : Gone(u) => Gone(u)'
  <2>1. /\ s \in orphans /\ s.op \in Ops /\ s.token \in Tokens
        /\ Effect(s.op, s.token)
        /\ UNCHANGED <<saved, issued, attempted, confirmed, dbExpired, nodeExpired>>
    BY <1>3 DEF Arrive, Statements
  <2>2. OrphanInv([op |-> s.op, token |-> s.token])
    BY <2>1 DEF OrphanInv, PgInv
  <2>. QED  BY <1>1, <2>1, <2>2
<1>4. CASE \/ \E c \in Callers : Return(c) \/ Fail(c)
           \/ ListFails
           \/ \E c \in Callers, op \in Ops, t \in Tokens : Send(c, op, t)
  BY <1>4 DEF Return, Fail, ListFails, Send, Gone
<1>5. CASE purgeExpired \/ \E t \in Tokens : Expire(t)
  <2>1. /\ inserted' = inserted /\ nodeExpired \subseteq nodeExpired'
        /\ \A u \in Tokens : rows'[u] = rows[u] \/ rows'[u] = "none"
    BY <1>5 DEF purgeExpired, Expire
  <2>. QED  BY <2>1 DEF Gone
<1>. QED  BY <1>2, <1>3, <1>4, <1>5 DEF PgNext, PgStep

\* The table and the nodes' clock together are a TokenLifecycle: a token that was
\* revoked, deleted, purged or expired is never accepted again.
THEOREM RefinesLifecycle == PgSpec => ImplementsLifecycle
<1>1. PgInit => Lifecycle!Init
  <2>. SUFFICES ASSUME PgInit PROVE Lifecycle!Init
    OBVIOUS
  <2>1. \A t \in Tokens : Status(t) = "unissued"
    BY DEF PgInit, Status
  <2>. QED  BY <2>1 DEF Lifecycle!Init, TokenStatus
<1>2. PgInv /\ [PgNext]_pgVars => [Lifecycle!Next]_TokenStatus
  <2>. SUFFICES ASSUME PgInv, [PgNext]_pgVars
                PROVE  Lifecycle!Next \/ UNCHANGED TokenStatus
    OBVIOUS
  <2>1. CASE PgNext
    <3>1. /\ inserted \subseteq inserted' /\ nodeExpired \subseteq nodeExpired'
          /\ \A u \in Tokens : Gone(u) => Gone(u)'
      BY <2>1, TableMovesOn
    <3>2. ASSUME NEW t \in Tokens
          PROVE  /\ Status(t)' \in {"unissued", "valid", "dead"}
                 /\ \/ Status(t)' = Status(t)
                    \/ Status(t) = "unissued" /\ Status(t)' = "valid"
                    \/ Status(t) # "dead" /\ Status(t)' = "dead"
      BY <3>1 DEF Status, Gone
    <3>. QED  BY <3>2 DEF Lifecycle!Next, Lifecycle!Issue, Lifecycle!Retire, TokenStatus
  <2>2. CASE UNCHANGED pgVars
    BY <2>2 DEF pgVars, Status, TokenStatus
  <2>. QED  BY <2>1, <2>2
<1>. QED  BY <1>1, <1>2, TableIsSound, PTL DEF PgSpec, ImplementsLifecycle, Lifecycle!Spec

-----------------------------------------------------------------------------
(* The login                                                               *)

Record == [at : Places, login : Nat, state : Nat, nonce : Nat, cross : BOOLEAN]

\* A tab at a page of the console is in no login.
LEMMA AtIsRecord ==
  ASSUME NEW place \in Places
  PROVE  /\ At(place) \in Record /\ [At(place) EXCEPT !.cross = TRUE] \in Record
         /\ At(place).at = place /\ At(place).login = None
         /\ [At(place) EXCEPT !.cross = TRUE].login = None
  BY DEF At, Record, None

\* The places that the actions name.
LEMMA PlaceNames ==
  /\ "away" \in Places /\ "page" \in Places /\ "error" \in Places /\ "admin" \in Places
  /\ "idp" \in Places /\ "callback" \in Places /\ "handling" \in Places
  /\ None \in Nat
  BY DEF Places, Resting, None

\* A tab moves: what the step owes to the others, and to itself.
LEMMA TabMoves ==
  ASSUME LoginInv, NEW t \in Tabs, NEW p \in Record, Move(t, p),
         cookies' \in [state : Nat, nonce : Nat, session : {"none", "lax", "strict"}],
         alone' \subseteq alone \union {t},
         codes \subseteq codes' \union {tab[t].login, p.login},
         \/ p.login = None
         \/ p.login = tab[t].login
         \/ \A u \in Tabs \ {t} : tab[u].login # p.login,
         \/ cookies'.state = cookies.state /\ cookies'.nonce = cookies.nonce
         \/ alone' \intersect Waiting \subseteq {t},
         t \in alone' => AloneInv(t)'
  PROVE  LoginInv'
<1>1. LoginTypeOK
  BY DEF LoginInv
<1>2. tab'[t] = p /\ \A u \in Tabs \ {t} : tab'[u] = tab[u]
  BY <1>1 DEF Move, LoginTypeOK
<1>3. LoginTypeOK'
  BY <1>1 DEF Move, LoginTypeOK, Record
<1>4. LoginsDiffer'
  BY <1>2 DEF LoginInv, LoginsDiffer
<1>5. ASSUME NEW u \in alone', u # t PROVE AloneInv(u)'
  <2>1. u \in alone /\ u \in Tabs /\ AloneInv(u) /\ tab'[u] = tab[u]
    BY <1>1, <1>2, <1>5 DEF LoginInv, LoginTypeOK
  <2>2. tab[u].login # None /\ tab[u].login # tab[t].login /\ tab[u].login # p.login
    BY <1>5, <2>1 DEF AloneInv, LoginInv, LoginsDiffer
  <2>3. tab[u].login \in codes => tab[u].login \in codes'
    BY <2>2
  <2>4. tab[u].at \in {"idp", "callback"} =>
          cookies'.state = cookies.state /\ cookies'.nonce = cookies.nonce
    BY <1>5, <2>1 DEF Waiting
  <2>. QED  BY <2>1, <2>3, <2>4 DEF AloneInv, StateOK, NonceOK
<1>. QED  BY <1>3, <1>4, <1>5 DEF LoginInv

\* What a user does in a tab keeps LoginInv.
LEMMA UserKeeps ==
  ASSUME LoginInv, NEW t \in Tabs, UserActs(t)
  PROVE  LoginInv'
<1>1. LoginTypeOK /\ tab[t] \in Record /\ tab[t].login \in Nat
  BY DEF LoginInv, LoginTypeOK, Record
<1>2. CASE Visit(t)
  <2>1. At("admin") \in Record /\ At("admin").login = None
    BY PlaceNames, AtIsRecord
  <2>. QED  BY <1>1, <1>2, <2>1, TabMoves DEF Visit, Forget, LoginTypeOK
<1>3. CASE Leave(t)
  <2>1. At("away") \in Record /\ At("away").login = None
    BY PlaceNames, AtIsRecord
  <2>. QED  BY <1>1, <1>3, <2>1, TabMoves DEF Leave, Forget, LoginTypeOK
<1>4. CASE Reload(t)
  <2>1. /\ AtLogin("callback", tab[t].login, None, None) \in Record
        /\ AtLogin("callback", tab[t].login, None, None).login = tab[t].login
    BY <1>1, PlaceNames DEF AtLogin, Record
  <2>. QED  BY <1>1, <1>4, <2>1, TabMoves DEF Reload, LoginTypeOK
<1>. QED  BY <1>2, <1>3, <1>4 DEF UserActs

\* What the server answers keeps LoginInv.
LEMMA ServerKeeps ==
  ASSUME LoginInv, NEW t \in Tabs, LoginMiddleware(t) \/ LogIn(t)
  PROVE  LoginInv'
<1>1. /\ LoginTypeOK /\ tab[t] \in Record /\ tab[t].login \in Nat
      /\ t \in alone => AloneInv(t)
      /\ cookies.state \in Nat /\ cookies.nonce \in Nat
  BY DEF LoginInv, LoginTypeOK, Record
<1>2. \A p : Move(t, p) => tab'[t] = p
  BY <1>1 DEF Move, LoginTypeOK
<1>3. CASE LoginMiddleware(t)
  <2>1. PICK p : p = IF SendsSession(t) THEN At("page") ELSE [tab[t] EXCEPT !.at = "login"]
    OBVIOUS
  <2>2. /\ At("page") \in Record /\ At("page").login = None
        /\ [tab[t] EXCEPT !.at = "login"] \in Record
        /\ [tab[t] EXCEPT !.at = "login"].login = tab[t].login
    BY <1>1, PlaceNames, AtIsRecord DEF Places, Record
  <2>3. p \in Record /\ (p.login = None \/ p.login = tab[t].login) /\ Move(t, p)
    BY <1>3, <2>1, <2>2 DEF LoginMiddleware
  <2>4. t \notin alone
    BY <1>1, <1>3 DEF LoginMiddleware, AloneInv
  <2>. QED  BY <1>1, <1>3, <2>3, <2>4, TabMoves DEF LoginMiddleware, LoginTypeOK
<1>4. CASE handleLogin(t)
  <2>1. PICK n \in Logins :
          /\ Fresh(n, t)
          /\ cookies' = [cookies EXCEPT !.state = n, !.nonce = n]
          /\ Move(t, AtLogin("idp", n, None, None))
          /\ codes' = codes \ {n}
    BY <1>4 DEF handleLogin
  <2>2. n \in Nat /\ n # None
    BY LoginAssumption DEF Logins, None
  <2>3. PICK p : p = AtLogin("idp", n, None, None)
    OBVIOUS
  <2>4. p \in Record /\ p.at = "idp" /\ p.login = n
    BY <2>2, <2>3, PlaceNames DEF AtLogin, Record
  <2>5. /\ cookies'.state = n /\ cookies'.nonce = n
        /\ cookies' \in [state : Nat, nonce : Nat, session : {"none", "lax", "strict"}]
    BY <1>1, <2>1, <2>2 DEF LoginTypeOK
  <2>6. \A u \in Tabs \ {t} : tab[u].login # n
    BY <2>1 DEF Fresh
  <2>7. AloneInv(t)'
    BY <1>2, <2>1, <2>2, <2>3, <2>4, <2>5 DEF AloneInv
  <2>8. alone' = (alone \ Waiting) \union {t}
    BY <1>4 DEF handleLogin
  <2>. QED  BY <1>1, <2>1, <2>3, <2>4, <2>5, <2>6, <2>7, <2>8, TabMoves
<1>5. CASE handleLoginFails(t)
  <2>1. At("error") \in Record /\ At("error").login = None
    BY PlaceNames, AtIsRecord
  <2>. QED  BY <1>1, <1>5, <2>1, TabMoves DEF handleLoginFails, LoginTypeOK
<1>6. CASE SignIn(t)
  <2>1. PICK p : p = [tab[t] EXCEPT !.at = "callback"]
    OBVIOUS
  <2>2. p \in Record /\ p.at = "callback" /\ p.login = tab[t].login
    BY <1>1, <2>1 DEF Record, Places
  <2>3. Move(t, p) /\ cookies' = cookies /\ codes \subseteq codes' /\ alone' \subseteq alone
    BY <1>6, <2>1 DEF SignIn
  <2>4. t \in alone' => t \in alone /\ tab[t].login \in codes'
    BY <1>6 DEF SignIn
  <2>5. t \in alone' => AloneInv(t)'
    BY <1>1, <1>2, <1>6, <2>2, <2>3, <2>4 DEF AloneInv, SignIn
  <2>. QED  BY <1>1, <2>2, <2>3, <2>5, TabMoves DEF LoginTypeOK
<1>7. CASE SendCallback(t)
  <2>1. PICK p : p = AtLogin("handling", tab[t].login, cookies.state, cookies.nonce)
    OBVIOUS
  <2>2. /\ p \in Record /\ p.at = "handling" /\ p.login = tab[t].login
        /\ p.state = cookies.state /\ p.nonce = cookies.nonce
    BY <1>1, <2>1, PlaceNames DEF AtLogin, Record
  <2>3. Move(t, p) /\ UNCHANGED <<cookies, codes, alone>> /\ tab[t].at = "callback"
    BY <1>7, <2>1 DEF SendCallback
  <2>4. t \in alone' => AloneInv(t)'
    BY <1>1, <1>2, <2>2, <2>3 DEF AloneInv, StateOK, NonceOK
  <2>. QED  BY <1>1, <2>2, <2>3, <2>4, TabMoves DEF LoginTypeOK
<1>8. CASE handleCallback(t)
  <2>1. /\ tab[t].at = "handling" /\ t \notin Waiting
        /\ codes \subseteq codes' \union {tab[t].login}
    BY <1>8 DEF handleCallback, StateMismatch, ExchangeFails, TokenRejected, IssueSession,
                Waiting
  <2>2. alone' \subseteq alone /\ alone' \intersect Waiting = {} /\ t \notin alone'
    BY <1>1, <1>8 DEF handleCallback, StateMismatch, ExchangeFails, TokenRejected,
                      IssueSession, AloneInv
  <2>3. cookies' \in [state : Nat, nonce : Nat, session : {"none", "lax", "strict"}]
    BY <1>1, <1>8 DEF handleCallback, StateMismatch, ExchangeFails, TokenRejected,
                      IssueSession, Refuse, Clear, SameSite, None, LoginTypeOK
  <2>4. PICK p : /\ p \in Record /\ Move(t, p)
                 /\ p.login = None \/ p.login = tab[t].login
    <3>1. /\ AtLogin("error", tab[t].login, None, None) \in Record
          /\ AtLogin("error", tab[t].login, None, None).login = tab[t].login
          /\ [At("admin") EXCEPT !.cross = TRUE] \in Record
          /\ [At("admin") EXCEPT !.cross = TRUE].login = None
      BY <1>1, PlaceNames, AtIsRecord DEF AtLogin, Record
    <3>. QED  BY <1>8, <3>1 DEF handleCallback, StateMismatch, ExchangeFails,
                                TokenRejected, IssueSession, Refuse
  <2>. QED  BY <2>1, <2>2, <2>3, <2>4, TabMoves
<1>. QED  BY <1>3, <1>4, <1>5, <1>6, <1>7, <1>8 DEF LogIn

\* Cookies and sessions that run out keep LoginInv.
LEMMA TimeKeepsLogins ==
  ASSUME LoginInv, CookiesExpire \/ SessionEnds
  PROVE  LoginInv'
<1>1. /\ LoginTypeOK /\ LoginsDiffer /\ tab' = tab /\ codes' = codes
      /\ alone' \subseteq alone
  BY DEF LoginInv, CookiesExpire, SessionEnds
<1>2. cookies' \in [state : Nat, nonce : Nat, session : {"none", "lax", "strict"}]
  <2>1. cookies \in [state : Nat, nonce : Nat, session : {"none", "lax", "strict"}]
    BY <1>1 DEF LoginTypeOK
  <2>2. CASE CookiesExpire
    BY <2>1, <2>2 DEF CookiesExpire, None
  <2>3. CASE SessionEnds
    BY <2>1, <2>3 DEF SessionEnds
  <2>. QED  BY <2>2, <2>3
<1>3. \/ alone' \intersect Waiting = {}
      \/ cookies'.state = cookies.state /\ cookies'.nonce = cookies.nonce
  BY <1>1 DEF CookiesExpire, SessionEnds, LoginTypeOK
<1>4. ASSUME NEW u \in alone' PROVE AloneInv(u)'
  <2>1. u \in alone /\ u \in Tabs /\ AloneInv(u)
    BY <1>1, <1>4 DEF LoginInv, LoginTypeOK
  <2>2. tab[u].at \in {"idp", "callback"} =>
          cookies'.state = cookies.state /\ cookies'.nonce = cookies.nonce
    BY <1>3, <1>4, <2>1 DEF Waiting
  <2>. QED  BY <1>1, <2>1, <2>2 DEF AloneInv, StateOK, NonceOK
<1>. QED  BY <1>1, <1>2, <1>4 DEF LoginInv, LoginTypeOK, LoginsDiffer

\* LoginInv is inductive.
LEMMA LoginsInit == LoginInit => LoginInv
<1>. SUFFICES ASSUME LoginInit PROVE LoginInv
  OBVIOUS
<1>1. \A t \in Tabs : tab[t] = At("away")
  BY DEF LoginInit
<1>2. LoginTypeOK
  BY PlaceNames, AtIsRecord DEF LoginInit, LoginTypeOK, Record, None
<1>3. LoginsDiffer
  BY <1>1, PlaceNames, AtIsRecord DEF LoginsDiffer
<1>. QED  BY <1>2, <1>3 DEF LoginInit, LoginInv

\* Every step of the login keeps LoginInv.
LEMMA LoginsKept == LoginInv /\ [LoginNext]_loginVars => LoginInv'
<1>. SUFFICES ASSUME LoginInv, [LoginNext]_loginVars PROVE LoginInv'
  OBVIOUS
<1>1. CASE \E t \in Tabs : UserActs(t)
  BY <1>1, UserKeeps
<1>2. CASE \E t \in Tabs : LoginMiddleware(t) \/ LogIn(t)
  BY <1>2, ServerKeeps
<1>3. CASE CookiesExpire \/ SessionEnds
  BY <1>3, TimeKeepsLogins
<1>4. CASE UNCHANGED loginVars
  BY <1>4 DEF loginVars, LoginInv, LoginTypeOK, LoginsDiffer, AloneInv, StateOK, NonceOK
<1>. QED  BY <1>1, <1>2, <1>3, <1>4 DEF LoginNext

\* Whatever the tabs of a browser do, a login that no other came in between of,
\* whose cookies lived and whose provider answered, does not end in an error.
THEOREM LoginsAreExplained == LoginSpec => []ErrorIsExplained
<1>1. LoginSpec => []LoginInv
  BY LoginsInit, LoginsKept, PTL DEF LoginSpec
<1>2. LoginInv => ErrorIsExplained
  BY DEF LoginInv, AloneInv, ErrorIsExplained
<1>. QED  BY <1>1, <1>2, PTL

-----------------------------------------------------------------------------
(* The console                                                             *)

SceneOK == scene \in Scenes

\* The scene is one of Scenes throughout.
LEMMA SceneStays == ConsoleSpec => []SceneOK
<1>1. ConsoleInit => SceneOK
  BY DEF ConsoleInit, SceneOK
<1>2. SceneOK /\ [ConsoleNext]_consoleVars => SceneOK'
  BY DEF SceneOK, ConsoleNext, consoleVars, Proceed, Open, MoveOn, List, ListBreaksOff,
         Ask, Present, BrowserTime, StoreStep
<1>. QED  BY <1>1, <1>2, PTL DEF ConsoleSpec

\* The kinds of steps the console takes.
LEMMA ConsoleSteps ==
  ASSUME SceneOK, ConsoleNext
  PROVE  \/ \E t \in Tabs : Open(t)
         \/ \E t \in Tabs : (LogIn(t) \/ UserActs(t)) /\ MoveOn(t)
         \/ \E t \in Tabs : List(t) \/ ListBreaksOff(t)
         \/ /\ \/ \E c \in Callers, op \in Ops, k \in Tokens : Send(c, op, k)
               \/ PgStep
            /\ UNCHANGED <<loginVars, scene, view>>
         \/ BrowserTime
<1>1. scene.tabs \subseteq Tabs /\ scene.tokens \subseteq Tokens
      /\ Tabs \subseteq Callers /\ Clients \subseteq Callers
  BY ConsoleAssumption DEF SceneOK
<1>2. CASE \E t \in scene.tabs :
             Proceed(t) \/ (UserActs(t) /\ MoveOn(t)) \/ List(t) \/ ListBreaksOff(t)
  BY <1>1, <1>2 DEF Proceed
<1>3. CASE \E t \in scene.tabs, op \in {"save", "revoke"}, k \in scene.tokens : Ask(t, op, k)
  BY <1>1, <1>3 DEF Ask, Ops
<1>4. CASE \E c \in Clients, op \in {"get", "delete"}, k \in scene.tokens : Present(c, op, k)
  BY <1>1, <1>4 DEF Present, Ops
<1>. QED  BY <1>2, <1>3, <1>4 DEF ConsoleNext, StoreStep

\* Behind the console the token store is used as PgTokenStore has it, so that all
\* its theorems hold of the console.
THEOREM ConsoleUsesStore == ConsoleSpec => PgSpec
<1>1. ConsoleInit => PgInit
  BY DEF ConsoleInit
<1>2. SceneOK /\ [ConsoleNext]_consoleVars => [PgNext]_pgVars
  <2>. SUFFICES ASSUME SceneOK, [ConsoleNext]_consoleVars PROVE [PgNext]_pgVars
    OBVIOUS
  <2>1. CASE ConsoleNext
    BY <2>1, ConsoleSteps DEF Open, MoveOn, List, ListBreaksOff, BrowserTime, PgNext
  <2>2. CASE UNCHANGED consoleVars
    BY <2>2 DEF consoleVars
  <2>. QED  BY <2>1, <2>2
<1>. QED  BY <1>1, <1>2, SceneStays, PTL DEF ConsoleSpec, PgSpec

\* And the login is AdminLogin's.
THEOREM ConsoleLogsIn == ConsoleSpec => LoginSpec
<1>1. ConsoleInit => LoginInit
  BY DEF ConsoleInit
<1>2. SceneOK /\ [ConsoleNext]_consoleVars => [LoginNext]_loginVars
  <2>. SUFFICES ASSUME SceneOK, [ConsoleNext]_consoleVars PROVE [LoginNext]_loginVars
    OBVIOUS
  <2>1. CASE ConsoleNext
    BY <2>1, ConsoleSteps DEF Open, List, ListBreaksOff, BrowserTime, LoginNext
  <2>2. CASE UNCHANGED consoleVars
    BY <2>2 DEF consoleVars
  <2>. QED  BY <2>1, <2>2
<1>. QED  BY <1>1, <1>2, SceneStays, PTL DEF ConsoleSpec, LoginSpec

ViewOK(v) ==
  /\ v \in [at : {"none", "loading", "shown"}, live : SUBSET Tokens,
            dead : SUBSET confirmed, due : SUBSET issued]
  /\ v.at = "shown" =>
       /\ v.live \intersect v.dead = {}
       /\ v.due \subseteq (v.live \union attempted \union dbExpired)

ViewInv == /\ DOMAIN view = Tabs /\ view = [t \in Tabs |-> view[t]]
           /\ \A t \in Tabs : ViewOK(view[t])

\* What the store has confirmed, issued or set out to end stays so.
LEMMA HistoryGrows ==
  ASSUME PgNext
  PROVE  /\ confirmed \subseteq confirmed' /\ issued \subseteq issued'
         /\ attempted \subseteq attempted' /\ dbExpired \subseteq dbExpired'
  BY DEF PgNext, PgStep, Send, Execute, Return, Fail, Arrive, purgeExpired, Expire, ListFails

\* The page tells the truth: what was confirmed when it was asked for is still so
\* when its list is read.
THEOREM PagesAreTrue == ConsoleSpec => []PageIsTrue
<1>1. ConsoleInit => ViewInv
  BY DEF ConsoleInit, ViewInv, ViewOK, NoView
<1>2. PgInv /\ SceneOK /\ ViewInv /\ [ConsoleNext]_consoleVars => ViewInv'
  <2>. SUFFICES ASSUME PgInv, SceneOK, ViewInv, [ConsoleNext]_consoleVars PROVE ViewInv'
    OBVIOUS
  <2>1. ASSUME NEW t \in Tabs, NEW v, view' = [view EXCEPT ![t] = v], ViewOK(v)',
               confirmed \subseteq confirmed', issued \subseteq issued',
               attempted \subseteq attempted', dbExpired \subseteq dbExpired'
        PROVE  ViewInv'
    <3>1. view'[t] = v /\ \A u \in Tabs \ {t} : view'[u] = view[u]
      BY <2>1 DEF ViewInv
    <3>2. \A u \in Tabs \ {t} : ViewOK(view[u])'
      BY <2>1, <3>1 DEF ViewInv, ViewOK
    <3>. QED  BY <2>1, <3>1, <3>2 DEF ViewInv
  <2>2. CASE \E t \in Tabs : Open(t)
    <3>1. PICK t \in Tabs : Open(t)
      BY <2>2
    <3>2. PICK v : v = IF tab'[t].at # "page" THEN NoView
                       ELSE [at |-> "loading", live |-> {}, dead |-> confirmed, due |-> issued]
      OBVIOUS
    <3>3. view' = [view EXCEPT ![t] = v] /\ UNCHANGED pgVars
      BY <3>1, <3>2 DEF Open
    <3>4. ViewOK(v)'
      BY <3>2, <3>3 DEF ViewOK, NoView, pgVars
    <3>. QED  BY <2>1, <3>3, <3>4 DEF pgVars
  <2>3. CASE \E t \in Tabs : (LogIn(t) \/ UserActs(t)) /\ MoveOn(t)
    <3>1. PICK t \in Tabs : view' = [view EXCEPT ![t] = NoView] /\ UNCHANGED pgVars
      BY <2>3 DEF MoveOn
    <3>2. ViewOK(NoView)'
      BY DEF ViewOK, NoView
    <3>. QED  BY <2>1, <3>1, <3>2 DEF pgVars
  <2>4. CASE \E t \in Tabs : List(t)
    <3>1. PICK t \in Tabs : List(t)
      BY <2>4
    <3>2. PICK v : v = [view[t] EXCEPT !.at = "shown", !.live = Live]
      OBVIOUS
    <3>3. ViewOK(view[t])
      BY DEF ViewInv
    <3>4. view' = [view EXCEPT ![t] = v] /\ UNCHANGED pgVars
      BY <3>1, <3>2 DEF List, ViewInv
    <3>5. /\ v \in [at : {"none", "loading", "shown"}, live : SUBSET Tokens,
                    dead : SUBSET confirmed, due : SUBSET issued]
          /\ v.live = Live /\ v.dead \subseteq confirmed /\ v.due \subseteq issued
      BY <3>2, <3>3 DEF ViewOK, Live
    <3>6. Live \intersect confirmed = {}
      BY DEF Live, PgInv, TableInv, Gone
    <3>7. issued \subseteq (Live \union attempted \union dbExpired)
      BY DEF Live, PgInv, TableInv, Kept, PgTypeOK
    <3>8. ViewOK(v)'
      BY <3>4, <3>5, <3>6, <3>7 DEF ViewOK, pgVars
    <3>. QED  BY <2>1, <3>4, <3>8 DEF pgVars
  <2>5. CASE \E t \in Tabs : ListBreaksOff(t)
    <3>1. PICK t \in Tabs : ListBreaksOff(t)
      BY <2>5
    <3>2. PICK some \in SUBSET Live :
            view' = [view EXCEPT ![t].at = "shown", ![t].live = some, ![t].due = {}]
      BY <3>1 DEF ListBreaksOff
    <3>3. PICK v : v = [view[t] EXCEPT !.at = "shown", !.live = some, !.due = {}]
      OBVIOUS
    <3>4. ViewOK(view[t])
      BY DEF ViewInv
    <3>5. view' = [view EXCEPT ![t] = v]
      BY <3>2, <3>3 DEF ViewInv
    <3>6. UNCHANGED <<confirmed, issued, attempted, dbExpired>>
      BY <3>1 DEF ListBreaksOff, ListFails
    <3>7. /\ v \in [at : {"none", "loading", "shown"}, live : SUBSET Tokens,
                    dead : SUBSET confirmed, due : SUBSET issued]
          /\ v.live = some /\ v.dead \subseteq confirmed /\ v.due = {}
      BY <3>2, <3>3, <3>4 DEF ViewOK, Live
    <3>8. Live \intersect confirmed = {}
      BY DEF Live, PgInv, TableInv, Gone
    <3>9. ViewOK(v)'
      BY <3>2, <3>6, <3>7, <3>8 DEF ViewOK
    <3>. QED  BY <2>1, <3>5, <3>6, <3>9
  <2>6. CASE /\ \/ \E c \in Callers, op \in Ops, k \in Tokens : Send(c, op, k)
                \/ PgStep
             /\ UNCHANGED <<loginVars, scene, view>>
    <3>1. PgNext /\ view' = view
      BY <2>6 DEF PgNext
    <3>. QED  BY <3>1, HistoryGrows DEF ViewInv, ViewOK
  <2>7. CASE BrowserTime \/ UNCHANGED consoleVars
    BY <2>7 DEF BrowserTime, consoleVars, pgVars, ViewInv, ViewOK
  <2>. QED  BY <2>2, <2>3, <2>4, <2>5, <2>6, <2>7, ConsoleSteps
<1>3. ViewInv => PageIsTrue
  BY DEF ViewInv, ViewOK, PageIsTrue
<1>4. ConsoleSpec => []PgInv
  BY ConsoleUsesStore, TableIsSound, PTL
<1>. QED  BY <1>1, <1>2, <1>3, <1>4, SceneStays, PTL DEF ConsoleSpec

=============================================================================

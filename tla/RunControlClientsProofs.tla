----------------------- MODULE RunControlClientsProofs ----------------------
(***************************************************************************)
(* Proofs about RunControlClients, for every number of requests, late      *)
(* answers and restarts of the controller.                                 *)
(***************************************************************************)
EXTENDS RunControlClients, TLAPS

EccStates == {"IDLE", "DESCRIBED", "PREPARED", "READY", "RUNNING", "PAUSED"}
Requests  == [id : Nat \ {0}, client : Clients, value : Lines]

\* Types; requests are numbered, and a client waits for its last one only.
ClientType ==
    /\ rc \in RCstate
    /\ answer \in [Clients -> {"none", "OK", "ERR"}]
    /\ nreq \in [Clients -> Nat] /\ wait \in [Clients -> Nat]
    /\ requests \subseteq Requests
    /\ stage \in 0..2 /\ ecc \in EccStates
    /\ \A c \in Clients : nreq[c] <= Bound[c] /\ wait[c] \in {0, nreq[c]}
    /\ \A r \in requests : r.id <= nreq[r.client]

\* The number tells the requests of a client apart.
Unique == \A q, r \in requests : q.client = r.client /\ q.id = r.id => q = r

\* An answer is there for the request that is waited for, which the
\* controller has taken; if it is OK, the request was carried out.
AnswerInv ==
    \A c \in Clients : answer[c] # "none" =>
        /\ wait[c] # 0
        /\ \A r \in requests : ~(r.client = c /\ r.id = wait[c])
        /\ answer[c] = "OK" /\ c # "ecc" => <<c, wait[c]>> \in done

\* The command line says nothing before the end; behind the configure of
\* "start", that configure was carried out.
CliInv ==
    /\ wait["cli"] # 0 => said = "none"
    /\ wait["cli"] # 0 /\ line = "start" /\ stage = 2 => <<"cli", nreq["cli"] - 1>> \in done

OnlyEcc(r) == \A q \in requests : q.client = "ecc" => q = r

\* Behind a request that ECC waits for is a SOAP call that has led it to its
\* state; without a disturbance the controller is still where ECC was before.
EccInv ==
    /\ \A r \in requests : r.client = "ecc" => r.value \in RCcommand
    /\ \A r \in requests : r.client = "ecc" /\ r.id = wait["ecc"] =>
          \E call \in SoapCalls :
             /\ call[2] = ecc /\ call[3] = r.value
             /\ inStep /\ OnlyEcc(r) => rc \in Behind[call[1]]

ClientInv == ClientType /\ Unique /\ AnswerInv /\ CliInv /\ OkIsDone /\ EccInv /\ EccInStep

-----------------------------------------------------------------------------
(* The constants and the state machine.                                    *)

LEMMA Constants ==
    /\ "cli" \in Clients /\ "ecc" \in Clients /\ "epics" \in Clients
    /\ Bound \in [Clients -> Nat]
    /\ RCcommand \subseteq Lines
  BY ClientsAssumption DEF Clients, Bound, Lines

LEMMA ProcessType ==
    \A s \in RCstate, cmd \in RCcommand : process(s, cmd) \in RCstate
  BY DEF RCstate, RCcommand, process, try_process, rc_ttable, TransitionTo, RCERROR, RCOK,
         IDLE, READY, RUNNING, PAUSED

\* Each SOAP call of ECC and its command lead from a pair of states that fit
\* to another one; and where it is a reset, from any state of the controller.
LEMMA CallsFit ==
    ASSUME NEW call \in SoapCalls
    PROVE  /\ call[1] \in EccStates /\ call[2] \in EccStates /\ call[3] \in RCcommand
           /\ \A s \in Behind[call[1]] : try_process(s, call[3]) # RCERROR
                                            => process(s, call[3]) \in Behind[call[2]]
           /\ call[3] = "reset" => \A s \in RCstate : process(s, "reset") \in Behind[call[2]]
  BY DEF SoapCalls, EccStates, RCcommand, Behind, process, try_process, rc_ttable, TransitionTo,
         RCERROR, RCOK, RCstate, IDLE, READY, RUNNING, PAUSED

-----------------------------------------------------------------------------
LEMMA InitInv == Init => ClientInv
<1> SUFFICES ASSUME Init PROVE ClientInv
  OBVIOUS
<1>0. /\ rc = IDLE /\ requests = {} /\ answer = [c \in Clients |-> "none"]
      /\ nreq = [c \in Clients |-> 0] /\ wait = [c \in Clients |-> 0]
      /\ said = "none" /\ stage = 0 /\ ecc = "IDLE"
  BY Zenon DEF Init
<1>1. ClientType
  BY <1>0, Constants DEF ClientType, RCstate, IDLE, EccStates
<1>2. Unique /\ AnswerInv /\ CliInv /\ OkIsDone
  BY <1>0, Constants DEF Unique, AnswerInv, CliInv, OkIsDone
<1>3. EccInv
  BY DEF Init, EccInv
<1>4. EccInStep
  <2>1. rc \in Behind[ecc]
    BY DEF Init, Behind
  <2> QED
    BY <2>1 DEF EccInStep
<1> QED
  BY <1>1, <1>2, <1>3, <1>4 DEF ClientInv

-----------------------------------------------------------------------------
(* The controller.                                                         *)

LEMMA NodesChangeInv == ASSUME ClientInv, NodesChange PROVE ClientInv'
  BY DEF ClientInv, NodesChange, ClientType, Unique, AnswerInv, CliInv, OkIsDone, EccInv, OnlyEcc,
         EccInStep

\* A request is answered: the numbers, the answers and what is reported.
LEMMA ReplyInv ==
    ASSUME ClientInv, NEW r \in requests, NEW ok \in BOOLEAN, Reply(r, ok), rc' \in RCstate,
           UNCHANGED <<nreq, wait, line, said, stage, ecc, transition>>
    PROVE  (ClientType /\ Unique /\ AnswerInv /\ CliInv /\ OkIsDone)'
<1> USE Constants
<1>1. requests' \subseteq requests /\ done \subseteq done'
  BY DEF Reply
<1>2. answer' \in [Clients -> {"none", "OK", "ERR"}]
  BY DEF ClientInv, ClientType, Requests, Reply
<1>3. ClientType'
  BY <1>1, <1>2 DEF ClientInv, ClientType
<1>4. Unique'
  BY <1>1 DEF ClientInv, Unique
<1>5. AnswerInv'
  <2> SUFFICES ASSUME NEW c \in Clients, answer'[c] # "none"
               PROVE  /\ wait[c] # 0
                      /\ \A q \in requests' : ~(q.client = c /\ q.id = wait[c])
                      /\ answer'[c] = "OK" /\ c # "ecc" => <<c, wait[c]>> \in done'
    BY DEF AnswerInv
  <2>1. CASE c = r.client /\ wait[c] = r.id
    <3>1. wait[c] # 0
      BY <2>1 DEF ClientInv, ClientType, Requests
    <3>2. ASSUME NEW q \in requests', q.client = c, q.id = wait[c] PROVE FALSE
      BY <1>1, <2>1, <3>2 DEF ClientInv, Unique, Reply
    <3>3. answer'[c] = IF ok THEN "OK" ELSE "ERR"
      BY <2>1 DEF ClientInv, ClientType, Reply, Awaited
    <3>4. ASSUME answer'[c] = "OK", c # "ecc" PROVE <<c, wait[c]>> \in done'
      <4>1. ok
        BY <3>3, <3>4
      <4> QED
        BY <2>1, <3>4, <4>1 DEF Reply
    <3> QED
      BY <3>1, <3>2, <3>4
  <2>2. CASE ~(c = r.client /\ wait[c] = r.id)
    <3>1. answer'[c] = answer[c]
      BY <2>2 DEF ClientInv, ClientType, Reply, Awaited
    <3> QED
      BY <1>1, <3>1 DEF ClientInv, AnswerInv
  <2> QED
    BY <2>1, <2>2
<1>6. CliInv'
  BY <1>1 DEF ClientInv, CliInv
<1>7. OkIsDone'
  BY <1>1 DEF ClientInv, OkIsDone
<1> QED
  BY <1>3, <1>4, <1>5, <1>6, <1>7

\* The command that ECC waits for leads the controller to where ECC is; any
\* other request that changes something is a disturbance.
LEMMA HandleEventInv == ASSUME ClientInv, NEW r \in requests, handle_event(r) PROVE ClientInv'
<1> DEFINE ok == Carried_out(r)
<1>1. r.value \in RCcommand /\ r.client \in Clients /\ r.id # 0
  BY DEF ClientInv, ClientType, Requests, handle_event
<1>2. rc' \in RCstate
  BY <1>1, ProcessType DEF ClientInv, ClientType, handle_event
<1>3. (ClientType /\ Unique /\ AnswerInv /\ CliInv /\ OkIsDone)'
  <2>1. ok \in BOOLEAN
    BY Zenon DEF Carried_out
  <2>2. Reply(r, ok)
    BY DEF handle_event
  <2> QED
    BY <1>2, <2>1, <2>2, ReplyInv DEF handle_event
<1>4. requests' = requests \ {r} /\ UNCHANGED <<wait, ecc>>
  BY DEF handle_event, Reply
<1>5. inStep' => Restores(r) \/ (inStep /\ ~Disturbs(r))
  BY Zenon DEF handle_event
<1>6. EccInv' /\ EccInStep'
  <2>1. CASE r.client = "ecc" /\ r.id = wait["ecc"] /\ ok
    <3>1. PICK call \in SoapCalls :
             /\ call[2] = ecc /\ call[3] = r.value
             /\ inStep /\ OnlyEcc(r) => rc \in Behind[call[1]]
      BY <2>1 DEF ClientInv, EccInv
    <3>2. rc' = process(rc, r.value) /\ try_process(rc, r.value) # RCERROR
      BY <2>1 DEF handle_event, Carried_out
    <3>3. \A q \in requests' : ~(q.client = "ecc" /\ q.id = wait["ecc"])
      BY <1>4, <2>1 DEF ClientInv, Unique
    <3>4. EccInv'
      BY <1>4, <3>3 DEF ClientInv, EccInv
    <3>5. ASSUME inStep', \A q \in requests' : q.client # "ecc" PROVE rc' \in Behind[ecc]
      <4>1. OnlyEcc(r)
        BY <1>4, <3>5 DEF OnlyEcc
      <4>2. CASE Restores(r)
        BY <3>1, <3>2, <4>2, CallsFit DEF Restores, ClientInv, ClientType
      <4>3. CASE inStep
        BY <3>1, <3>2, <4>1, <4>3, CallsFit
      <4> QED
        BY <1>5, <3>5, <4>2, <4>3
    <3> QED
      BY <1>4, <3>4, <3>5 DEF EccInStep
  <2>2. CASE r.client = "ecc" /\ ~(r.id = wait["ecc"] /\ ok)
    <3>1. ~inStep'
      BY <1>5, <2>2 DEF Restores, Disturbs
    <3> QED
      BY <1>4, <3>1 DEF ClientInv, EccInv, EccInStep
  <2>3. CASE r.client # "ecc"
    <3>1. inStep' => inStep /\ rc' = rc
      BY <1>5, <2>3 DEF Restores, Disturbs, handle_event
    <3>2. ASSUME NEW q \in requests', q.client = "ecc", q.id = wait["ecc"]
          PROVE  \E call \in SoapCalls :
                    /\ call[2] = ecc /\ call[3] = q.value
                    /\ inStep' /\ OnlyEcc(q)' => rc' \in Behind[call[1]]
      <4>1. q \in requests
        BY <1>4
      <4>2. OnlyEcc(q)' => OnlyEcc(q)
        BY <1>4, <2>3 DEF OnlyEcc
      <4> QED
        BY <3>1, <3>2, <4>1, <4>2 DEF ClientInv, EccInv
    <3>3. EccInv'
      BY <1>4, <3>2 DEF ClientInv, EccInv
    <3>4. EccInStep'
      BY <1>4, <2>3, <3>1 DEF ClientInv, EccInStep
    <3> QED
      BY <3>3, <3>4
  <2> QED
    BY <2>1, <2>2, <2>3
<1> QED
  BY <1>3, <1>6 DEF ClientInv

\* "store" is no request of ECC and does not touch the state machine.
LEMMA HandleSetupInv == ASSUME ClientInv, NEW r \in requests, handle_setup(r) PROVE ClientInv'
<1>1. PICK ok \in BOOLEAN : Reply(r, ok)
  BY DEF handle_setup
<1>2. (ClientType /\ Unique /\ AnswerInv /\ CliInv /\ OkIsDone)'
  BY <1>1, ReplyInv DEF handle_setup, ClientInv, ClientType
<1>3. r.client # "ecc"
  BY DEF ClientInv, EccInv, handle_setup
<1>4. requests' = requests \ {r} /\ UNCHANGED <<rc, wait, ecc, inStep>>
  BY <1>1 DEF handle_setup, Reply
<1>5. \A q \in requests' : q \in requests /\ (OnlyEcc(q)' => OnlyEcc(q))
  BY <1>3, <1>4 DEF OnlyEcc
<1>6. EccInv' /\ EccInStep'
  BY <1>3, <1>4, <1>5 DEF ClientInv, EccInv, EccInStep
<1> QED
  BY <1>2, <1>6 DEF ClientInv

-----------------------------------------------------------------------------
(* Requests and answers.                                                   *)

\* A new request has a new number, and its client had not waited.
LEMMA RequestInv ==
    ASSUME ClientInv, NEW c \in Clients, NEW v \in Lines, Request(c, v),
           UNCHANGED <<rc, done>>, answer' = [answer EXCEPT ![c] = "none"],
           stage' \in 0..2, ecc' \in EccStates
    PROVE  /\ (ClientType /\ Unique /\ AnswerInv)'
           /\ nreq'[c] = nreq[c] + 1 /\ wait'[c] = nreq[c] + 1
           /\ \A k \in Clients \ {c} : nreq'[k] = nreq[k] /\ wait'[k] = wait[k]
           /\ [id |-> nreq[c] + 1, client |-> c, value |-> v] \in requests'
           /\ \A r \in requests' : r \in requests
                                   \/ r = [id |-> nreq[c] + 1, client |-> c, value |-> v]
<1> USE Constants
<1> DEFINE new == [id |-> nreq[c] + 1, client |-> c, value |-> v]
<1>1. nreq' = [nreq EXCEPT ![c] = nreq[c] + 1] /\ nreq[c] < Bound[c] /\ nreq[c] \in Nat
  BY DEF Request, ClientInv, ClientType
<1>2. nreq'[c] = nreq[c] + 1
  BY <1>1 DEF ClientInv, ClientType
<1>3. wait' = [wait EXCEPT ![c] = nreq[c] + 1] /\ requests' = requests \cup {new}
  BY <1>2 DEF Request
<1>4. new \in Requests
  BY <1>1 DEF Requests
<1>5. ClientType'
  <2>1. nreq' \in [Clients -> Nat] /\ wait' \in [Clients -> Nat]
    BY <1>1, <1>3 DEF ClientInv, ClientType
  <2>2. requests' \subseteq Requests
    BY <1>3, <1>4 DEF ClientInv, ClientType
  <2>3. \A k \in Clients : nreq'[k] <= Bound[k] /\ wait'[k] \in {0, nreq'[k]}
    BY <1>1, <1>2, <1>3 DEF ClientInv, ClientType
  <2>4. \A r \in requests' : r.id <= nreq'[r.client]
    <3> SUFFICES ASSUME NEW r \in requests' PROVE r.id <= nreq'[r.client]
      OBVIOUS
    <3>1. CASE r \in requests
      <4>1. r.client \in Clients /\ r.id \in Nat /\ r.id <= nreq[r.client]
        BY <3>1 DEF ClientInv, ClientType, Requests
      <4> QED
        BY <1>1, <4>1 DEF ClientInv, ClientType
    <3>2. CASE r = new
      BY <1>2, <3>2, <1>1
    <3> QED
      BY <1>3, <3>1, <3>2
  <2>5. answer' \in [Clients -> {"none", "OK", "ERR"}]
    BY DEF ClientInv, ClientType
  <2> QED
    BY <2>1, <2>2, <2>3, <2>4, <2>5 DEF ClientInv, ClientType
<1>6. Unique'
  <2> SUFFICES ASSUME NEW q \in requests', NEW r \in requests', q.client = r.client, q.id = r.id
               PROVE  q = r
    BY DEF Unique
  <2>1. ASSUME NEW x \in requests, x.client = c PROVE x.id # nreq[c] + 1
    BY <1>1, <2>1 DEF ClientInv, ClientType, Requests
  <2>2. CASE q \in requests /\ r \in requests
    BY <2>2 DEF ClientInv, Unique
  <2>3. CASE q = new
    BY <1>3, <2>1, <2>3
  <2>4. CASE r = new
    BY <1>3, <2>1, <2>4
  <2> QED
    BY <1>3, <2>2, <2>3, <2>4
<1>7. AnswerInv'
  BY <1>3 DEF ClientInv, ClientType, AnswerInv
<1> QED
  BY <1>1, <1>2, <1>3, <1>5, <1>6, <1>7 DEF ClientInv, ClientType

\* A client that stops waiting.
LEMMA CloseInv ==
    ASSUME ClientInv, NEW c \in Clients, Close(c),
           UNCHANGED <<rc, requests, nreq, stage, ecc, done>>
    PROVE  /\ (ClientType /\ Unique /\ AnswerInv)'
           /\ wait'[c] = 0 /\ \A k \in Clients \ {c} : wait'[k] = wait[k]
  BY DEF ClientInv, ClientType, Unique, AnswerInv, Close

\* Requests and answers of the command line and of EPICS leave ECC alone.
LEMMA EccUntouched ==
    ASSUME ClientInv, UNCHANGED <<rc, ecc, inStep>>, wait'["ecc"] = wait["ecc"],
           \A r \in requests' : r \in requests \/ r.client # "ecc",
           \A r \in requests : r \in requests'
    PROVE  EccInv' /\ EccInStep'
<1>1. \A r \in requests : OnlyEcc(r)' => OnlyEcc(r)
  BY DEF OnlyEcc
<1>2. EccInv'
  BY <1>1 DEF ClientInv, EccInv
<1>3. EccInStep'
  BY DEF ClientInv, EccInStep
<1> QED
  BY <1>2, <1>3

-----------------------------------------------------------------------------
(* The command line.                                                       *)

LEMMA CliCommandInv == ASSUME ClientInv, NEW l \in Lines, CliCommand(l) PROVE ClientInv'
<1> USE Constants
<1> DEFINE v == IF l = "start" THEN "configure" ELSE l
<1>1. v \in Lines /\ Request("cli", v)
  BY DEF Lines, RCcommand, CliCommand
<1>2. answer["cli"] = "none" /\ answer' = [answer EXCEPT !["cli"] = "none"]
  BY DEF ClientInv, ClientType, AnswerInv, CliCommand
<1>3. /\ (ClientType /\ Unique /\ AnswerInv)'
      /\ nreq'["epics"] = nreq["epics"] /\ wait'["epics"] = wait["epics"]
      /\ wait'["ecc"] = wait["ecc"]
      /\ \A r \in requests' : r \in requests \/ r.client = "cli"
      /\ requests \subseteq requests'
  <2>1. stage' \in 0..2 /\ UNCHANGED <<rc, done>> /\ ecc' \in EccStates
    BY DEF ClientInv, ClientType, CliCommand
  <2>2. requests \subseteq requests'
    BY <1>1 DEF Request
  <2>3. (ClientType /\ Unique /\ AnswerInv)'
    BY <1>1, <1>2, <2>1, RequestInv
  <2>4. \A k \in Clients \ {"cli"} : nreq'[k] = nreq[k] /\ wait'[k] = wait[k]
    BY <1>1, <1>2, <2>1, RequestInv
  <2>5. \A r \in requests' : r \in requests \/ r.client = "cli"
    BY <1>1 DEF Request
  <2> QED
    BY <2>2, <2>3, <2>4, <2>5
<1>4. CliInv' /\ OkIsDone'
  BY <1>3 DEF ClientInv, CliInv, OkIsDone, CliCommand
<1>5. EccInv' /\ EccInStep'
  BY <1>3, EccUntouched DEF CliCommand
<1> QED
  BY <1>3, <1>4, <1>5 DEF ClientInv

LEMMA CliContinueInv == ASSUME ClientInv, CliContinue PROVE ClientInv'
<1> USE Constants
<1>1. "start" \in Lines /\ Request("cli", "start")
  BY DEF Lines, RCcommand, CliContinue
<1>2. /\ stage' \in 0..2 /\ UNCHANGED <<rc, ecc, done, inStep, said, line, transition>>
      /\ answer' = [answer EXCEPT !["cli"] = "none"] /\ ecc' \in EccStates
  BY DEF CliContinue, ClientInv, ClientType
<1>3. /\ (ClientType /\ Unique /\ AnswerInv)'
      /\ nreq'["cli"] = nreq["cli"] + 1
      /\ \A k \in Clients \ {"cli"} : nreq'[k] = nreq[k] /\ wait'[k] = wait[k]
  BY <1>1, <1>2, RequestInv
<1>4. /\ \A r \in requests' : r \in requests \/ r.client = "cli"
      /\ requests \subseteq requests'
  BY <1>1 DEF Request
<1>5. wait["cli"] = nreq["cli"] /\ wait["cli"] # 0 /\ <<"cli", wait["cli"]>> \in done
  BY DEF ClientInv, ClientType, AnswerInv, CliContinue
<1>6. CliInv'
  <2>1. said = "none"
    BY <1>5 DEF ClientInv, CliInv
  <2>2. nreq'["cli"] - 1 = nreq["cli"]
    BY <1>3 DEF ClientInv, ClientType
  <2> QED
    BY <1>2, <1>5, <2>1, <2>2 DEF CliInv
<1>7. OkIsDone'
  <2>1. said' = "none"
    BY <1>2, <1>5 DEF ClientInv, CliInv
  <2> QED
    BY <1>2, <1>3, <2>1 DEF ClientInv, OkIsDone
<1>8. EccInv' /\ EccInStep'
  BY <1>2, <1>3, <1>4, EccUntouched
<1> QED
  BY <1>3, <1>6, <1>7, <1>8 DEF ClientInv

LEMMA CliEndsInv == ASSUME ClientInv, CliAnswer \/ CliTimeout PROVE ClientInv'
<1> USE Constants
<1>1. Close("cli") /\ UNCHANGED <<rc, requests, nreq, line, stage, ecc, transition, done, inStep>>
  BY DEF CliAnswer, CliTimeout, Answered, GiveUp
<1>2. /\ (ClientType /\ Unique /\ AnswerInv)'
      /\ wait'["cli"] = 0 /\ wait'["ecc"] = wait["ecc"] /\ wait'["epics"] = wait["epics"]
  <2>1. \A k \in Clients \ {"cli"} : wait'[k] = wait[k]
    BY <1>1, CloseInv
  <2> QED
    BY <1>1, <2>1, CloseInv
<1>3. CliInv'
  BY <1>2 DEF CliInv
<1>4. OkIsDone'
  <2>1. ASSUME said' = "OK", line \in RCcommand
        PROVE  /\ <<"cli", nreq["cli"]>> \in done
               /\ line = "start" => stage = 2 /\ <<"cli", nreq["cli"] - 1>> \in done
    <3>1. CliAnswer
      BY <2>1 DEF CliTimeout
    <3>2. answer["cli"] = "OK"
      BY <2>1, <3>1 DEF CliAnswer, Printed
    <3>3. wait["cli"] = nreq["cli"] /\ wait["cli"] # 0 /\ <<"cli", wait["cli"]>> \in done
      BY <3>2 DEF ClientInv, ClientType, AnswerInv
    <3> QED
      BY <3>1, <3>2, <3>3 DEF CliAnswer, ClientInv, CliInv
  <2> QED
    BY <1>1, <1>2, <2>1 DEF ClientInv, OkIsDone
<1>5. EccInv' /\ EccInStep'
  BY <1>1, <1>2, EccUntouched
<1> QED
  BY <1>2, <1>3, <1>4, <1>5 DEF ClientInv

\* A new controller is where ECC expects it if it was idle, and if no request
\* of ECC went down with the old one.
LEMMA QuitInv == ASSUME ClientInv, NEW lost \in SUBSET requests, Quit(lost) PROVE ClientInv'
<1> USE Constants
<1>1. /\ UNCHANGED <<answer, nreq, wait, ecc, transition, done>>
      /\ requests' = requests \ lost /\ rc' = IDLE /\ stage' = 0 /\ said' = "none"
  BY DEF Quit, close_rcs, NewController
<1>2. inStep' => inStep /\ rc = IDLE /\ \A r \in lost : r.client # "ecc"
  BY Zenon DEF Quit
<1>3. ClientType'
  BY <1>1 DEF ClientInv, ClientType, RCstate
<1>4. Unique'
  BY <1>1 DEF ClientInv, Unique
<1>5. AnswerInv'
  BY <1>1 DEF ClientInv, AnswerInv
<1>6. CliInv' /\ OkIsDone'
  BY <1>1 DEF ClientInv, CliInv, OkIsDone
<1>7. EccInv'
  <2> SUFFICES ASSUME NEW r \in requests', r.client = "ecc", r.id = wait["ecc"]
               PROVE  \E call \in SoapCalls :
                         /\ call[2] = ecc /\ call[3] = r.value
                         /\ inStep' /\ OnlyEcc(r)' => rc' \in Behind[call[1]]
    BY <1>1 DEF ClientInv, EccInv
  <2>1. inStep' /\ OnlyEcc(r)' => inStep /\ OnlyEcc(r) /\ rc' = rc
    BY <1>1, <1>2 DEF OnlyEcc
  <2> QED
    BY <1>1, <2>1 DEF ClientInv, EccInv
<1>8. EccInStep'
  BY <1>1, <1>2 DEF ClientInv, EccInStep
<1> QED
  BY <1>3, <1>4, <1>5, <1>6, <1>7, <1>8 DEF ClientInv

-----------------------------------------------------------------------------
(* ECC.                                                                    *)

LEMMA SoapCallInv == ASSUME ClientInv, NEW call \in SoapCalls, SoapCall(call) PROVE ClientInv'
<1> USE Constants
<1> DEFINE new == [id |-> nreq["ecc"] + 1, client |-> "ecc", value |-> call[3]]
<1>1. call[3] \in RCcommand /\ call[3] \in Lines /\ call[2] \in EccStates /\ Request("ecc", call[3])
  BY CallsFit DEF SoapCall
<1>2. answer["ecc"] = "none" /\ answer' = [answer EXCEPT !["ecc"] = "none"]
  BY DEF ClientInv, ClientType, AnswerInv, SoapCall
<1>3. UNCHANGED <<rc, done, inStep, said, line, stage, transition>> /\ ecc' = call[2] /\ ecc = call[1]
  BY DEF SoapCall
<1>4. /\ (ClientType /\ Unique /\ AnswerInv)'
      /\ wait'["ecc"] = nreq["ecc"] + 1
      /\ \A k \in Clients \ {"ecc"} : nreq'[k] = nreq[k] /\ wait'[k] = wait[k]
      /\ new \in requests'
      /\ \A r \in requests' : r \in requests \/ r = new
  <2>1. stage' \in 0..2 /\ ecc' \in EccStates
    BY <1>1, <1>3 DEF ClientInv, ClientType
  <2> QED
    BY <1>1, <1>2, <1>3, <2>1, RequestInv
<1>5. requests \subseteq requests'
  BY <1>1 DEF Request
<1>6. CliInv' /\ OkIsDone'
  BY <1>3, <1>4 DEF ClientInv, CliInv, OkIsDone
<1>7. EccInv'
  <2>1. \A r \in requests' : r.client = "ecc" => r.value \in RCcommand
    BY <1>1, <1>4 DEF ClientInv, EccInv
  <2>2. ASSUME NEW r \in requests', r.client = "ecc", r.id = wait'["ecc"],
               inStep', OnlyEcc(r)'
        PROVE  rc' \in Behind[call[1]]
    <3>1. \A q \in requests : q.client # "ecc"
      <4> SUFFICES ASSUME NEW q \in requests, q.client = "ecc" PROVE FALSE
        OBVIOUS
      <4>1. q = r
        BY <1>5, <2>2 DEF OnlyEcc
      <4>2. q.id <= nreq["ecc"] /\ q.id \in Nat /\ nreq["ecc"] \in Nat
        BY DEF ClientInv, ClientType, Requests
      <4> QED
        BY <1>4, <2>2, <4>1, <4>2
    <3> QED
      BY <1>3, <2>2, <3>1 DEF ClientInv, EccInStep
  <2>3. ASSUME NEW r \in requests', r.client = "ecc", r.id = wait'["ecc"] PROVE r.value = call[3]
    <3>1. r \notin requests
      BY <1>4, <2>3 DEF ClientInv, ClientType, Requests
    <3> QED
      BY <1>4, <3>1
  <2> QED
    BY <1>3, <2>1, <2>2, <2>3 DEF EccInv
<1>8. EccInStep'
  BY <1>4 DEF EccInStep
<1> QED
  BY <1>4, <1>6, <1>7, <1>8 DEF ClientInv

LEMMA EccReturnsInv == ASSUME ClientInv, EccReturns PROVE ClientInv'
<1> USE Constants
<1>1. Close("ecc") /\ UNCHANGED <<rc, requests, nreq, line, said, stage, ecc, transition, done, inStep>>
  BY DEF EccReturns, Answered, GiveUp
<1>2. /\ (ClientType /\ Unique /\ AnswerInv)'
      /\ wait'["ecc"] = 0 /\ \A k \in Clients \ {"ecc"} : wait'[k] = wait[k]
  BY <1>1, CloseInv
<1>3. CliInv' /\ OkIsDone'
  BY <1>1, <1>2 DEF ClientInv, CliInv, OkIsDone
<1>4. EccInv'
  BY <1>1, <1>2 DEF ClientInv, ClientType, Requests, EccInv
<1>5. EccInStep'
  BY <1>1 DEF ClientInv, EccInStep
<1> QED
  BY <1>2, <1>3, <1>4, <1>5 DEF ClientInv

-----------------------------------------------------------------------------
(* EPICS.                                                                  *)

LEMMA PvWriteInv == ASSUME ClientInv, NEW cmd \in RCcommand, PvWrite(cmd) PROVE ClientInv'
<1> USE Constants
<1>1. cmd \in Lines /\ Request("epics", cmd)
  BY DEF PvWrite
<1>2. answer["epics"] = "none" /\ answer' = [answer EXCEPT !["epics"] = "none"]
  BY DEF ClientInv, ClientType, AnswerInv, PvWrite
<1>3. /\ UNCHANGED <<rc, done, inStep, said, line, stage, transition, ecc>>
      /\ stage' \in 0..2 /\ ecc' \in EccStates
  BY DEF PvWrite, ClientInv, ClientType
<1>4. /\ (ClientType /\ Unique /\ AnswerInv)'
      /\ wait'["epics"] = nreq["epics"] + 1
      /\ \A k \in Clients \ {"epics"} : nreq'[k] = nreq[k] /\ wait'[k] = wait[k]
  BY <1>1, <1>2, <1>3, RequestInv
<1>5. /\ \A r \in requests' : r \in requests \/ r.client = "epics"
      /\ requests \subseteq requests'
  BY <1>1 DEF Request
<1>6. CliInv' /\ OkIsDone'
  <2>1. wait'["epics"] # 0
    BY <1>4 DEF ClientInv, ClientType
  <2> QED
    BY <1>3, <1>4, <2>1 DEF ClientInv, CliInv, OkIsDone
<1>7. EccInv' /\ EccInStep'
  BY <1>3, <1>4, <1>5, EccUntouched
<1> QED
  BY <1>4, <1>6, <1>7 DEF ClientInv

LEMMA EpicsEndsInv == ASSUME ClientInv, EpicsAnswer \/ EpicsTimeout PROVE ClientInv'
<1> USE Constants
<1>1. Close("epics") /\ UNCHANGED <<rc, requests, nreq, line, said, stage, ecc, done, inStep>>
  BY DEF EpicsAnswer, EpicsTimeout, Answered, GiveUp
<1>2. /\ (ClientType /\ Unique /\ AnswerInv)'
      /\ wait'["epics"] = 0 /\ \A k \in Clients \ {"epics"} : wait'[k] = wait[k]
  BY <1>1, CloseInv
<1>3. CliInv'
  BY <1>1, <1>2 DEF ClientInv, CliInv
<1>4. OkIsDone'
  <2>1. ASSUME transition' = "OK" PROVE <<"epics", nreq["epics"]>> \in done
    <3>1. answer["epics"] = "OK"
      BY <2>1 DEF EpicsAnswer, EpicsTimeout
    <3> QED
      BY <3>1 DEF ClientInv, ClientType, AnswerInv
  <2> QED
    BY <1>1, <2>1 DEF ClientInv, OkIsDone
<1>5. EccInv' /\ EccInStep'
  BY <1>1, <1>2, EccUntouched
<1> QED
  BY <1>2, <1>3, <1>4, <1>5 DEF ClientInv

-----------------------------------------------------------------------------
LEMMA NextInv == ClientInv /\ [Next]_vars => ClientInv'
<1> SUFFICES ASSUME ClientInv, [Next]_vars PROVE ClientInv'
  OBVIOUS
<1>1. CASE UNCHANGED vars
  BY <1>1 DEF vars, ClientInv, ClientType, Unique, AnswerInv, CliInv, OkIsDone, EccInv, OnlyEcc,
              EccInStep
<1>2. CASE Controller
  BY <1>2, NodesChangeInv, HandleEventInv, HandleSetupInv DEF Controller
<1>3. CASE Cli
  BY <1>3, CliCommandInv, CliContinueInv, CliEndsInv, QuitInv DEF Cli
<1>4. CASE Ecc
  BY <1>4, SoapCallInv, EccReturnsInv DEF Ecc
<1>5. CASE Epics
  BY <1>5, PvWriteInv, EpicsEndsInv DEF Epics
<1> QED
  BY <1>1, <1>2, <1>3, <1>4, <1>5 DEF Next

LEMMA InvHolds == Spec => []ClientInv
  BY InitInv, NextInv, PTL DEF Spec

\* Requests, numbers and answers fit together: a client waits for its last
\* request, and an answer is that of this request and no other.
THEOREM ClientTypes == Spec => []TypeOK
<1>1. ClientInv => TypeOK
  <2> SUFFICES ASSUME ClientInv PROVE TypeOK
    OBVIOUS
  <2>1. \A c \in Clients : nreq[c] \in 0..Bound[c] /\ wait[c] \in {0, nreq[c]}
    BY Constants DEF ClientInv, ClientType
  <2>2. \A r \in requests : r.client \in Clients /\ r.id \in 1..nreq[r.client] /\ r.value \in Lines
    BY DEF ClientInv, ClientType, Requests
  <2>3. \A c \in Clients : answer[c] # "none" =>
          wait[c] # 0 /\ \A r \in requests : <<r.client, r.id>> # <<c, wait[c]>>
    BY DEF ClientInv, AnswerInv
  <2> QED
    BY <2>1, <2>2, <2>3 DEF ClientInv, ClientType, TypeOK
<1> QED
  BY <1>1, InvHolds, PTL

\* What cli.cpp prints as done and what EPICS shows as RC:transition OK was
\* done, however many requests were given up and executed late, and through
\* restarts of the controller.
THEOREM ReportedIsDone == Spec => []OkIsDone
<1>1. ClientInv => OkIsDone
  BY DEF ClientInv
<1> QED
  BY <1>1, InvHolds, PTL

\* eccState, which eccservice.py changes without a look at the answer, is the
\* state of the controller's RCFSM until a disturbance, and again behind a
\* reset that gets through, for every number of requests and restarts.
THEOREM EccFollows == Spec => []EccInStep
<1>1. ClientInv => EccInStep
  BY DEF ClientInv
<1> QED
  BY <1>1, InvHolds, PTL
=============================================================================

------------------------------- MODULE MCSdk -------------------------------
\* The three things the SDK does with an RPC: submit, read, and work out rates.
\* They share nothing, so a behaviour is one of them.
EXTENDS TxSubmit, SdkReads, BlendReserve
CONSTANTS primary, fallback
VARIABLE scene

TwoProviders == <<primary, fallback>>
MCCurve == [util |-> 60, rBase |-> 2, rOne |-> 5, rTwo |-> 40, rThree |-> 80]

SdkInit == scene \in {"submit", "read", "rates"} /\ Init /\ ReadsInit /\ BlendInit
SdkNext ==
  /\ UNCHANGED scene
  /\ \/ scene = "submit" /\ Next /\ UNCHANGED <<readVars, blendVars>>
     \/ scene = "read" /\ ReadsNext /\ UNCHANGED <<vars, blendVars>>
     \/ scene = "rates" /\ BlendNext /\ UNCHANGED <<vars, readVars>>

SdkSpec ==
  /\ SdkInit /\ [][SdkNext]_<<scene, vars, readVars, blendVars>>
  /\ WF_vars(scene = "submit" /\ Client /\ UNCHANGED <<scene, readVars, blendVars>>)
  /\ WF_vars(scene = "submit" /\ Answered /\ UNCHANGED <<scene, readVars, blendVars>>)
  /\ WF_vars(scene = "submit" /\ TimePasses /\ UNCHANGED <<scene, readVars, blendVars>>)
  /\ WF_readVars(scene = "read" /\ Answers /\ UNCHANGED <<scene, vars, blendVars>>)
=============================================================================

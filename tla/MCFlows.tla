------------------------------ MODULE MCFlows ------------------------------
\* What is carried on over several requests and may break off in between: the
\* app's flows of transactions, the demo's tasks and the deployment.  They share
\* nothing, so a behaviour is one of them.
EXTENDS TokenizeFlow, DemoRunner, DeployScript
VARIABLE scene

FlowsInit == scene \in {"flow", "demo", "deploy"} /\ Init /\ DemoInit /\ DeployInit
FlowsNext ==
  /\ UNCHANGED scene
  /\ \/ scene = "flow" /\ Next /\ UNCHANGED <<demoVars, deployVars>>
     \/ scene = "demo" /\ DemoNext /\ UNCHANGED <<vars, deployVars>>
     \/ scene = "deploy" /\ DeployNext /\ UNCHANGED <<vars, demoVars>>

Operator == Start /\ manifest = Unset

FlowsSpec ==
  /\ FlowsInit /\ [][FlowsNext]_<<scene, vars, demoVars, deployVars>>
  /\ \A r \in Runs :
       WF_demoVars(scene = "demo" /\ Server(r) /\ UNCHANGED <<scene, vars, deployVars>>)
  /\ WF_deployVars(scene = "deploy" /\ Script /\ UNCHANGED <<scene, vars, demoVars>>)
  /\ WF_deployVars(scene = "deploy" /\ Operator /\ UNCHANGED <<scene, vars, demoVars>>)
=============================================================================

---- MODULE MCDeployment ----
EXTENDS Deployment
McGauges == <<"gauge1", "gauge2">>
====

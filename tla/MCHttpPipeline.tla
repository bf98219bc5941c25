---------------------------- MODULE MCHttpPipeline ----------------------------
(* HttpPipeline for TLC: the requests the modules of src/modules make.     *)
EXTENDS HttpPipeline, TLC

Shape(method, body, response, intent) ==
  [method |-> method, body |-> body, response |-> response, intent |-> intent]

Read == Shape("GET", "none", "json", "none")
Page == Shape("GET", "none", "json", "fresh-read")
Binary == Shape("GET", "none", "binary", "none")
Report == Shape("GET", "none", "json", "side-effecting-read")
Write == Shape("POST", "json", "json", "none")
Delete == Shape("POST", "none", "json", "none")
Upload == Shape("POST", "multipart", "json", "none")

Everything == {Read, Page, Binary, Report, Write, Delete, Upload}
WithEffects == {Report, Delete, Upload}
Uploads == {Upload}

Symmetry == Permutations(Requests)

NoDeadline == {Never}
SomeDeadlines == {Never, 2, 4}
===============================================================================

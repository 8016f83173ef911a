CONSTANTS
    c1 = c1
    c2 = c2
    c3 = c3
    c4 = c4
    e1 = e1
    e2 = e2
    Conns = {c1, c2, c3, c4}
    Endpoints = {e1, e2}
    EndpointID <- MCEndpointID
    Elsewhere = {e1}
SPECIFICATION FairSpec
INVARIANTS CountsAgree NextInBounds
PROPERTIES Registers HandlersEnd NoStarvation

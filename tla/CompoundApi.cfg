SPECIFICATION Spec
CONSTANTS
    n1 = n1
    n2 = n2
    g = g
    ad = ad
    us = us
    h1 = h1
    h2 = h2
    Nodes = {n1, n2}
    Groups = {g}
    Members <- MCMembers
    Hards = {h1, h2}
    Barred = {}
    Softs = {1}
    Actors = {ad, us}
    Admins = {ad}
    Kinds = {"add", "edit", "delete", "pause", "stop", "import", "move", "copy", "pauseNode", "resumeNode", "apiEdit", "apiDelete", "client"}
    Keep = Keep
    Nobody = Nobody
    Apart = TRUE
    MaxRequests = 1
    MaxRefusals = 0
SYMMETRY Symmetry
CHECK_DEADLOCK FALSE
PROPERTY ApiRequestsSpareUi

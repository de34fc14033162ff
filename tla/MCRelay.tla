---- MODULE MCRelay ----
EXTENDS RelayLeases, TLC
HomeOf == "n1" :> "g1" @@ "n2" :> "g2"
Caps == "g1" :> 1 @@ "g2" :> 1
Streams == "n1" :> 2 @@ "n2" :> 1
Tries == "j1" :> 2 @@ "j2" :> 1
Pref == "j1" :> "g1" @@ "j2" :> NoGroup
====

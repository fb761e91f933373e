----------------------------- MODULE ClipStore -----------------------------
(***************************************************************************)
(* What clip export promises about the clips directory: files are only     *)
(* ever added, an exported file is a validated one, and a thumbnail comes  *)
(* after its video.                                                        *)
(***************************************************************************)
CONSTANT Names

VARIABLE clips

Extensions == {"mp4", "jpg"}

Init == clips = [c \in Names \X Extensions |-> "absent"]

Add(c, content) ==
    /\ clips[c] = "absent"
    /\ clips' = [clips EXCEPT ![c] = content]

\* A user's file may come at any time and stays.
UserAdds(c) == Add(c, "user")

Publish(name, extension) ==
    /\ extension = "jpg" => clips[<<name, "mp4">>] = "valid"
    /\ Add(<<name, extension>>, "valid")

Next == \E name \in Names, extension \in Extensions :
            UserAdds(<<name, extension>>) \/ Publish(name, extension)

Spec == Init /\ [][Next]_clips

=============================================================================

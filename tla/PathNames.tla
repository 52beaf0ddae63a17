----------------------------- MODULE PathNames -----------------------------
(***************************************************************************)
(* Where a file reference of an OVF leads: SecureResolve decodes it, makes *)
(* it a clean relative path and refuses what leads out of the directory of *)
(* the appliance.  A reference is a scheme and a sequence of tokens; x is  *)
(* any name, %2f and %2e%2e are a slash and two dots in disguise.  What    *)
(* url.Parse does not take for a URL, such as a name with a colon at its   *)
(* beginning or a control character, has the scheme "malformed".           *)
(***************************************************************************)
EXTENDS Naturals, Sequences, FiniteSets

Tokens  == {"/", "\\", "%2f", ".", "..", "%2e%2e", "x", "%zz"}
Schemes == {"none", "file", "remote", "malformed"}  \* url.Parse refuses the last

CONSTANT References  \* the references to be considered, without their scheme

ASSUME PathNamesAssumption == References \subseteq Seq(Tokens)

Refused == << <<"refused">> >>  \* no path: its name is no sequence of tokens

(* url.PathUnescape, and a slash for a backslash; %zz has no meaning.      *)
Decoded(t) ==
  CASE t \in {"%2f", "\\"} -> "/"
    [] t = "%2e%2e"        -> ".."
    [] OTHER               -> t

Decode(href) == [k \in DOMAIN href |-> Decoded(href[k])]

Slash(s)  == s # <<>> /\ s[1] = "/"
Parent    == {<<"..">>, <<".", ".">>}
Current   == {<<>>, <<".">>}

(* One name more: a parent takes the name before it away, unless there is  *)
(* none or that is a parent itself.                                        *)
Enter(path, name) ==
  IF name \in Current THEN path
  ELSE IF name \in Parent /\ path # <<>> /\ path[Len(path)] \notin Parent
  THEN SubSeq(path, 1, Len(path) - 1)
  ELSE Append(path, name)

(* The loop of filepath.Clean over a relative path: the names it has so    *)
(* far, and the one it is reading, which a slash ends.                     *)
Read(clean, t) ==
  IF t = "/" THEN [path |-> Enter(clean.path, clean.name), name |-> <<>>]
             ELSE [path |-> clean.path, name |-> Append(clean.name, t)]

reading[s \in Seq(Tokens)] ==
  IF s = <<>> THEN [path |-> <<>>, name |-> <<>>]
  ELSE Read(reading[SubSeq(s, 1, Len(s) - 1)], s[Len(s)])

Clean(s) == Enter(reading[s].path, reading[s].name)

LeadsOut(path) == path # <<>> /\ path[1] \in Parent

(* Two slashes and a host, with nothing after it.                          *)
OnlyHost(href) ==
  /\ Len(href) >= 2 /\ href[1] = "/" /\ href[2] = "/"
  /\ \A k \in 3..Len(href) : href[k] \in {".", "..", "x"}

(* What url.Parse makes the path of a URL: that of a file has none if it   *)
(* does not begin with a slash, for it is opaque, or if it is only a host. *)
PathOf(scheme, href) ==
  IF scheme = "file" /\ (~Slash(href) \/ OnlyHost(href)) THEN <<>> ELSE href

(* Mutant: the path is made clean before it is decoded.                    *)
SecureResolveCleanFirst(scheme, href) ==
  LET path  == PathOf(scheme, href)
      clean == Clean(path)
  IN  IF scheme \in {"remote", "malformed"} \/ (\E k \in DOMAIN path : path[k] = "%zz")
         \/ Slash(path) \/ LeadsOut(clean)
      THEN Refused
      ELSE [k \in DOMAIN clean |-> Decode(clean[k])]

SecureResolve(scheme, href) ==
  LET path    == PathOf(scheme, href)
      decoded == Decode(path)
  IN  IF scheme \in {"remote", "malformed"} \/ (\E k \in DOMAIN path : path[k] = "%zz")
         \/ Slash(decoded) \/ LeadsOut(Clean(decoded))
      THEN Refused
      ELSE Clean(decoded)
-----------------------------------------------------------------------------
(* The names of a path end at its slashes and at its end; Starts is where  *)
(* the one that ends before k starts.                                      *)
Ends(s, n)   == {k \in 1..n : k = Len(s) + 1 \/ s[k] = "/"}
Starts(s, k) == {i \in 0..(k - 1) : /\ i = 0 \/ s[i] = "/"
                                    /\ \A j \in (i + 1)..(k - 1) : s[j] # "/"}
Name(s, k)   == SubSeq(s, (CHOOSE i \in Starts(s, k) : TRUE) + 1, k - 1)

(* Walking along a path as far as n: how often one has gone up and down.   *)
Up(s, n)   == Cardinality({k \in Ends(s, n) : Name(s, k) \in Parent})
Down(s, n) == Cardinality({k \in Ends(s, n) : Name(s, k) \notin Parent \union Current})

NeverOutside(s, n) == \A k \in 1..n : Up(s, k) <= Down(s, k)

(* README: "OVF file references cannot escape the appliance directory",    *)
(* whatever is spelled in percent signs or backslashes.  What is accepted  *)
(* never leaves the directory on its way, and has no parent left in it.    *)
StaysInside ==
  \A scheme \in Schemes, href \in References :
    LET path == SecureResolve(scheme, href)
        walk == Decode(href)
        end  == Len(href) + 1
    IN  path # Refused =>
          /\ \A k \in DOMAIN path : path[k] \notin Parent \union Current
          /\ scheme = "none" =>
               NeverOutside(walk, end) /\ Len(path) = Down(walk, end) - Up(walk, end)

(* A relative reference that stays inside is not refused, however many     *)
(* dots its names have.                                                    *)
InsideAccepted ==
  \A href \in References :
    /\ NeverOutside(Decode(href), Len(href) + 1)
    /\ ~Slash(Decode(href)) /\ \A k \in DOMAIN href : href[k] # "%zz"
    => SecureResolve("none", href) # Refused
=============================================================================

----------------------------- MODULE MCDatatypes -----------------------------
(* Directories for Datatypes. *)
EXTENDS Datatypes

\* One of them is no library.
PluginNames == {"kraffiti-dds", "kraffiti-ktx", "kraffiti-notes", "kraffiti-pvr"}
Libraries == PluginNames \ {"kraffiti-notes"}
Known == [p \in Libraries |->
            CASE p = "kraffiti-dds" -> <<"dxt1", "dxt5">>
              [] p = "kraffiti-ktx" -> <<"etc">>
              [] p = "kraffiti-pvr" -> <<"pvr", "dxt5", "etc">>]
Asked == {"dxt1", "dxt5", "etc", "pvr", "webp"}

Names == PluginNames \union {"readme"}
\* All directories, in every order.
Directories ==
  { d \in UNION { [1..n -> Names] : n \in 0..3 } :
      \A j, k \in DOMAIN d : d[j] = d[k] => j = k }
=============================================================================

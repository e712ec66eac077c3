------------------------------ MODULE Examples -------------------------------
(***************************************************************************)
(* The functions of the repository that answer HTTP requests, each as the  *)
(* statements of module UserFunctions.                                     *)
(***************************************************************************)
EXTENDS Integers, Sequences

CONSTANTS Upstream,  \* the codes the services of others answer
          NoValue

Raised == 0
Plain(op) == [op |-> op, of |-> NoValue, throws |-> "never", ends |-> {}]
Static(v, throws) == [Plain("static") EXCEPT !.of = v, !.throws = throws]
May(ends) == [Plain("may") EXCEPT !.ends = ends]
Replies(codes) == <<[Plain("reply") EXCEPT !.ends = codes]>>
MadeUnderLock(v) == <<Plain("lock"), [Plain("make") EXCEPT !.of = v], Plain("unlock")>>

-----------------------------------------------------------------------------
\* The handle fails, an option of it; the request; the query for its code.
HttpGet == <<May({Raised}), May({500}), May({Raised})>> \o Replies(Upstream)

bearer_token_impl ==
  <<Static("kTargetUrl", "unset"), Static("kCredentials", "maybe"), Static("kCurlInit", "never"),
    May({Raised})>> \o HttpGet

\* Its initialiser asks for three variables; a row may be an error.
tutorial_cloud_spanner == <<Static("kClient", "unset"), May({Raised})>> \o Replies({200})

\* A header may be missing; a row may be an error.
tutorial_cloud_bigtable ==
  <<May({Raised})>> \o MadeUnderLock("connection") \o <<May({Raised})>> \o Replies({200})

\* The request may not parse, or have no topic; publishing may fail.
tips_gcp_apis_impl ==
  <<Plain("env"), May({Raised})>> \o MadeUnderLock("connection") \o <<May({500})>> \o Replies({200})

tips_lazy_globals == <<Static("h", "never")>> \o Replies({200})

\* Not a form: refused, or thrown out for the lack of a boundary; a form with no parts.
http_form_data_impl ==
  <<May({405, 400}), Static("kBoundaryRE", "never"), May({Raised}), May({200}),
    Static("kContentDispositionRE", "never"), Static("kNameRE", "never"),
    Static("kFilenameRE", "never")>> \o Replies({200})

concepts_stateless == <<Plain("count")>> \o Replies({200})

\* The thread of std::async may not start.
concepts_after_response == <<May({Raised}), Plain("async")>> \o Replies({200})

concepts_request == <<May({Raised})>> \o Replies({200})

hello_world_error == <<May({500}), May({Raised})>> \o Replies({200})

http_method == Replies({200, 403, 405})

\* Not two components; no client; no object.
HelloGcs == <<May({400}), May({Raised}), May({400})>> \o Replies({200})

\* These wait, read or print, and keep nothing; the first two may not get what they read.
concepts_filesystem == <<May({Raised})>> \o Replies({200})
http_xml == <<May({Raised})>> \o Replies({200})
concepts_after_timeout == Replies({200})
hello_world_get == Replies({200})
hello_world_http == Replies({200})
env_vars == Replies({200})
log_helloworld == Replies({200})
http_cors == Replies({200, 204})
http_cors_auth == Replies({200, 204})

\* The global was made before the first call.
tips_scopes == Replies({200})

MakesLazily == {"kTargetUrl", "kCredentials", "kCurlInit", "kClient", "connection", "h",
                "kBoundaryRE", "kContentDispositionRE", "kNameRE", "kFilenameRE"}

Functions ==
  [bearer_token |-> bearer_token_impl, tutorial_cloud_spanner |-> tutorial_cloud_spanner,
   tutorial_cloud_bigtable |-> tutorial_cloud_bigtable, tips_gcp_apis |-> tips_gcp_apis_impl,
   tips_lazy_globals |-> tips_lazy_globals, http_form_data |-> http_form_data_impl,
   concepts_stateless |-> concepts_stateless, concepts_after_response |-> concepts_after_response,
   concepts_request |-> concepts_request, hello_world_error |-> hello_world_error,
   http_method |-> http_method, HelloGcs |-> HelloGcs,
   concepts_filesystem |-> concepts_filesystem, http_xml |-> http_xml,
   concepts_after_timeout |-> concepts_after_timeout, hello_world_get |-> hello_world_get,
   hello_world_http |-> hello_world_http, env_vars |-> env_vars, log_helloworld |-> log_helloworld,
   http_cors |-> http_cors, http_cors_auth |-> http_cors_auth, tips_scopes |-> tips_scopes]
==============================================================================

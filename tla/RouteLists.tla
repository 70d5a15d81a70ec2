----------------------------- MODULE RouteLists -----------------------------
(***************************************************************************)
(* The routes the server registers for API tokens: the lists               *)
(* REGISTERED_ROUTES of api/v1/*.py that main.create_app walks, its own    *)
(* AUTH_REGISTERED_ROUTES, and those of the two CRUD routers, for labels   *)
(* and for teams.  A route is its method, the names on its path (hyphens   *)
(* turned into underscores) and whether a parameter ends it; no two of     *)
(* the lists' 130 routes are the same by that.                             *)
(***************************************************************************)
EXTENDS Sequences

\* On the names, methods of the paths that end with them and of those that end with a parameter.
Listed(names, plain, item) ==
    {[method |-> m, names |-> names, param |-> FALSE] : m \in plain}
      \cup {[method |-> m, names |-> names, param |-> TRUE] : m \in item}

Changing == {"POST", "DELETE"}
AnyItem == {"GET", "POST", "DELETE"}

\* tasks.py, assignees.py, labels.py, attachments.py, comments.py, relations.py.
TaskLists == UNION
    {Listed(<<"tasks">>, {"GET"}, AnyItem), Listed(<<"tasks", "all">>, {"GET"}, {}),
     Listed(<<"tasks", "bulk">>, {"POST"}, {}), Listed(<<"projects", "tasks">>, {"GET", "PUT"}, {}),
     Listed(<<"projects", "tasks", "by_index">>, {}, {"GET"}),
     Listed(<<"projects", "views", "tasks">>, {"GET"}, {}),
     Listed(<<"tasks", "assignees">>, {"GET", "PUT"}, {"DELETE"}),
     Listed(<<"tasks", "assignees", "bulk">>, {"POST"}, {}),
     Listed(<<"tasks", "labels">>, {"GET", "PUT"}, {"DELETE"}), Listed(<<"tasks", "labels", "bulk">>, {"POST"}, {}),
     Listed(<<"tasks", "attachments">>, {"GET", "PUT"}, {"GET", "DELETE"}),
     Listed(<<"tasks", "comments">>, {"GET", "PUT"}, AnyItem), Listed(<<"tasks", "relations">>, {"PUT"}, {"DELETE"})}

\* projects.py, sharing.py, views.py, buckets.py, webhooks.py, backgrounds.py.
ProjectLists == UNION
    {Listed(<<"projects">>, {"GET", "PUT"}, AnyItem), Listed(<<"projects", "projectusers">>, {"GET"}, {}),
     Listed(<<"projects", "views">>, {"GET", "PUT"}, AnyItem),
     Listed(<<"projects", "views", "buckets">>, {"GET", "PUT"}, Changing),
     Listed(<<"projects", "views", "buckets", "tasks">>, {"POST"}, {}),
     Listed(<<"projects", "webhooks">>, {"GET", "PUT"}, Changing), Listed(<<"webhooks", "events">>, {"GET"}, {}),
     Listed(<<"projects", "background">>, {"GET", "DELETE"}, {}),
     Listed(<<"projects", "backgrounds", "unsplash">>, {"POST"}, {}),
     Listed(<<"backgrounds", "unsplash", "search">>, {"GET"}, {}),
     Listed(<<"backgrounds", "unsplash", "image">>, {}, {"GET"}),
     Listed(<<"backgrounds", "unsplash", "image", "thumb">>, {"GET"}, {})}
    \cup UNION {Listed(<<"projects", with>>, {"GET", "PUT"}, {}) : with \in {"users", "teams", "shares"}}

\* teams.py, filters.py, notifications.py, oauth.py, main.py and the two CRUD routers.
PeopleLists == UNION
    {Listed(<<"labels">>, {"GET", "PUT"}, AnyItem), Listed(<<"teams">>, {"GET", "PUT"}, AnyItem),
     Listed(<<"teams", "members">>, {"PUT"}, {"DELETE"}), Listed(<<"teams", "members", "admin">>, {"POST"}, {}),
     Listed(<<"filters">>, {"PUT"}, AnyItem), Listed(<<"notifications">>, {"GET", "POST"}, {}),
     Listed(<<"user">>, {"GET"}, {}), Listed(<<"users">>, {"GET"}, {}), Listed(<<"routes">>, {"GET"}, {}),
     Listed(<<"auth", "openid", "callback">>, {"POST"}, {})}

\* migration.py.
MigrationLists ==
    UNION {Listed(<<"migration", from, "status">>, {"GET"}, {}) :
             from \in {"csv", "todoist", "trello", "microsoft_todo", "wekan", "ticktick", "calton_file"}}
      \cup UNION {Listed(<<"migration", from, "auth">>, {"GET"}, {}) : from \in {"todoist", "trello", "microsoft_todo"}}
      \cup UNION {Listed(<<"migration", from, "migrate">>, {"PUT"}, {}) : from \in {"csv", "wekan", "ticktick"}}
      \cup UNION {Listed(<<"migration", from, "migrate">>, {"POST"}, {}) :
                    from \in {"todoist", "trello", "microsoft_todo", "calton_file"}}
      \cup UNION {Listed(<<"migration", "csv", step>>, {"PUT"}, {}) : step \in {"detect", "preview"}}

\* user_account.py, user_password.py, user_settings.py, totp.py, user_webhooks.py: those
\* below /user, all excluded by their prefix.
UserLists ==
    UNION {Listed(<<"user", name>>, {"POST"}, {}) : name \in {"confirm", "password"}}
      \cup UNION {Listed(<<"user", name>>, {"GET"}, {}) : name \in {"export", "timezones"}}
      \cup UNION {Listed(<<"user", "deletion", step>>, {"POST"}, {}) : step \in {"request", "cancel", "confirm"}}
      \cup UNION {Listed(<<"user", "export", step>>, {"POST"}, {}) : step \in {"request", "download"}}
      \cup UNION {Listed(<<"user", "password", step>>, {"POST"}, {}) : step \in {"reset", "token"}}
      \cup UNION {Listed(<<"user", "settings", name>>, {"POST"}, {}) : name \in {"general", "email"}}
      \cup UNION {Listed(<<"user", "settings", "totp", step>>, {"POST"}, {}) : step \in {"enroll", "enable", "disable"}}
      \cup UNION {Listed(<<"user", "settings", "totp">>, {"GET"}, {}),
                  Listed(<<"user", "settings", "totp", "qrcode">>, {"GET"}, {}),
                  Listed(<<"user", "settings", "avatar">>, {"GET", "POST"}, {}),
                  Listed(<<"user", "settings", "avatar", "upload">>, {"PUT"}, {}),
                  Listed(<<"user", "settings", "webhooks">>, {"GET", "PUT"}, Changing),
                  Listed(<<"user", "settings", "webhooks", "events">>, {"GET"}, {})}

RegisteredRoutes == TaskLists \cup ProjectLists \cup PeopleLists \cup MigrationLists \cup UserLists
=============================================================================

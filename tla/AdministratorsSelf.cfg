CONSTANTS
    u1 = u1
    u2 = u2
    u3 = u3
    owner = owner
    r1 = r1
    r2 = r2
    userManage = userManage
    roleManage = roleManage
    secret = secret
    Users = {u1, u2, u3}
    Roles = {owner, r1}
    Perms = {userManage, roleManage, secret}
    Shared = {owner}
    UserManage = userManage
    RoleManage = roleManage
    Operators = {u1, u2}
    FirstDb <- TwoOwners
    Requests = {q1, q2}
    MaxRequests = 3
    NoToken = NoToken
    NoTx = NoTx
SPECIFICATION Spec
SYMMETRY Symmetry
CHECK_DEADLOCK FALSE
PROPERTIES NobodyChangesThemselves

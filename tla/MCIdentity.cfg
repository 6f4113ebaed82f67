CONSTANTS
    i1 = i1 i2 = i2 i3 = i3 alice = alice bob = bob p1 = p1 desk = desk
    None = None
    IdentityIds = {i1, i2}
    Usernames = {alice, bob}
    Passwords = {p1}
    CreatedGroups = {desk}
    LdapUsers = {alice}
CONSTRAINT WithinSlices
SYMMETRY Identifiers
SPECIFICATION Spec
INVARIANTS
    TypeOK
    GroupIndexesAgree
PROPERTIES
    NamesAreStable
